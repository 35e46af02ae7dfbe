# The account log app in TLA+

These modules model the app in this repository: the Rust core that keeps
account keys, reads and extends signed account logs, the C library it is called
through, the Qt backend that calls it and the view in front of that. TLC checks
them on small instances; TLAPS proves every safety property of the passing runs
for every value of the constants.

## The system

| Component | Source | State | Operations |
| --- | --- | --- | --- |
| Account log format and client | `account-log`, `account` crates (external) | a log: an append-only sequence of entries | draft `push`, encode, resolve, publish |
| Account core | `rust-core/src/manager.rs` | resolver, last reads, staged edits, counts of dropped edits, unlocked keys, the log just written | create, import, export, unlock, forget, observe, stop observing, refresh, stage (three kinds), discard, publish |
| Vault | `rust-core/src/vault.rs` | one file per account in one of two spellings, `.stage-<address>`, `.lock` | create, open, forget, list |
| Observed accounts | `rust-core/src/observed.rs` | `observed.json`, `.observed.json.new` | list, add, remove |
| Store | `rust-core/src/store.rs` | the logs, in the chat-store service or in memory; the request under way | fetch, publish |
| C ABI | `rust-core/src/ffi.rs`, `json.rs` | the core behind a mutex, the arguments' and replies' memory | one function per operation, free a reply, free the core |
| Backend | `src/AccountLogBackend.cpp` | a one-thread pool, the event loop's queue, the selection, what the screen shows | one slot per operation |
| View | `src/qml` | the screen asked for, the sheet that is up and the call it waits on | calls the backend's slots; hears its properties and signals over a socket |

The view, in the host's process, calls the slots of the backend, in a child of
it, over a local socket; properties and signals come back the same way, in order
and late. The backend queues each call on its one-thread pool, where the C ABI takes the core's mutex and runs one operation;
the reply comes back through the event loop and may chain further calls. The
core reads the vault directory at every call, which other processes of the app
may share, and talks to the store over HTTP in `refresh` and twice in
`publish`. Other devices that hold the account's key extend the same log.

What is hard: the store moves on between any two of a publish's steps; a post
can be served after its sender gave up on it; answers can be old; several
processes write one directory, with a lock around the key files only; a process
can die in the middle of a write; replies come back to a screen that has since
moved to another account; what the view sees of the backend is old; a server
that is not the store answers for it; a call panics; the app is closed with a
call under way.

## Modules

| Module | What it models |
| --- | --- |
| `AccountLog` | Logs, entries, what is live, the draft's rules, the byte budget. |
| `AccountLogService` | The abstract service: every account's log only grows, one whole well-formed update at a time, within budget. |
| `AccountCore` | The core, the store, the network, other devices and other instances. |
| `MCAccountCore` | Symmetry, and the specification of the publishing run. |
| `AccountCoreProofs` | Theorems about `AccountCore`: types, the log held, what a forget leaves. |
| `PublishProofs` | Theorems about `AccountCore`: what is staged, what was dropped, and `AccountLogService` implemented. |
| `Vault`, `MCVault` | The vault directory, file step by file step, written by several processes that may crash. |
| `VaultProofs` | Theorems about `Vault`. |
| `Observed` | The list of observed accounts, file step by file step. |
| `VaultOpen` | What comes of opening a key file: the checks before a derivation, the password, the proof of the address. |
| `Disk`, `MCDisk` | One instance's calls over `Vault`, `Observed` and `VaultOpen`, and its crashes. |
| `DiskProofs` | Theorems about `Disk`. |
| `Store` | Both stores, request by request, and whoever answers at the store's URL. |
| `Abi` | The C ABI over `Store`: threads, the mutex, panics, arguments, replies, the destructor. |
| `AbiProofs` | Theorems about `Abi`. |
| `Backend`, `MCBackend` | The Qt backend: the pool, the event loop, the selection, what is drawn. |
| `BackendProofs` | Theorems about `Backend`: types, busy, what is said of an account. |
| `ScreenProofs` | Theorems about `Backend`: what the screen comes to once everything has landed. |
| `View` | The view, the socket, and of the backend what the view can tell. |
| `ViewProofs` | Theorems about `View`. |

### AccountCore

The core is called behind a mutex, so an operation is one action; an operation
that is refused changes nothing and is no step. Two things make a publish
longer than that. It reads the store (`PublishReads`: adopt, settle, count),
then posts; between its read and the answer the store serves others. The
variable `post` is that publish: `sent`, then `taken` or `refused` by the
store, until the core hears of it. While a post is out no other operation of
the core runs (`Idle`).

| Code | Model |
| --- | --- |
| `Vault`'s files | `vault[a]`: absent, open or sealed |
| `ObservedAccounts` | `observed` |
| `unlocked` | `unlocked` |
| `resolver` | `record[a]`; kept past a forget, as the code keeps it |
| `read`, `LastRead` | `answered[a]` (`at` is set), `problem[a]` |
| `record()` | `Record(a)`: the resolver's log once answered |
| `staged` | `staged[a]`: a set; plans list it in any order with revocations first |
| `dropped` | `dropped[a]` |
| `Extending`, `Written`, `ReadBack` | `post`: the base is the log just read; the log written is read back |
| chat-store | `store[a]`, and `versions[a]`: every log it has held, any of which a late answer may carry |
| a request given up on | `wire` |

A read adopts an answer that extends the log held (`Adoptable`); any other
genuine one is a fork. What fails to verify, or does not come, changes only
`problem`. The store takes a post where it extends the log held, which is what
`MemoryStore::publish` says it enforces and what 409 means in `ChatStore`.
`OtherDevicePublishes` appends any entry the format takes, under other contexts
and under opcodes this build does not know. `OtherInstanceWrites` takes and
forgets keys and edits the list in a shared directory; within `AccountCore`
that is atomic, and `Vault` and `Observed` are about what is inside it.

### Vault and Observed

A process is the unit of concurrency. Each action is one file operation:
clearing and making the stage, opening and writing the document, the lock, the
check, the rename, dropping the stage. Paths are looked up at each step, and a
process that holds a file open goes on writing to it wherever it is renamed.
A file of the vault keeps its `inode` wherever it is moved, so one whole key file
is not another; a stage's file opened anew is the same file, truncated. Of a file that a process opened while another
was still writing it (`mixed`), it is not known whether what comes of it is
whole. `Crash` takes the lock with it and leaves what was written as it is;
`Fails` is the file system refusing any one step of the vault's, after which the
call goes on where `AfterFailure` says its `?` leads: to its end, through the
stage's drop and the lock's release.

### Disk and VaultOpen

`Disk` runs one instance's create, import, forget, observe and stop through the
steps of `Vault` and `Observed`, which it instantiates side by side with that
one process. `doing` is the call under way; an import goes from the vault's
steps to the list's once it has taken its key (`taken`), and a crash ends it
wherever it is. Opening changes nothing on disk and is one step: `opened` is the
outcome of the last one, of a file whose document is any of `Documents`, since
whatever is under an account's name need not be what this app wrote there.
scrypt's parameters are any numbers, each known by its base-two logarithm rounded
up: every ceiling is a power of two, so that is all a comparison tells. `work` is
so known of their true product and `product` of what a 64-bit multiplication
leaves of it, which is the same below 64 bits (`Bits`) and anything above; `power` says
that n is a power of two, `zero` that r or p is zero, which passes every ceiling
and is refused by scrypt itself (`Derives`). `Open` reads only the files under real
names, so it is not taken beside every state a crash can leave the stages in: a
bound of this module, named there.

### Store and Abi

In `AccountCore` the store is a guard and an answer; in `Store` it is a request
that waits (`exchange`) and a response with a status, whether it is in
chat-store's own words, and whether its body is whole. `SaysNone`, `SaysLog` and
`SaysTaken` are what the core makes of one. `told` is what `reason` looks for,
JSON with an `error` in it, whoever wrote it. `ServesNeither` is everything but
chat-store's answer to the request: an error, a 404 with such a body or without, half of a log, a redirect.

`Abi` is the library from the caller's side. A call of thread `t` is asked, goes
in (`Enters`) or does not (`NotEntered`: no handle, or poisoned), runs, is
answered, rendered and given back (`at[t]`). The two calls that reach the store
stay inside from their read to their answer. What the core knows is cut down to
what its answers depend on: which accounts there are, which are unlocked or
staged, and the log last seen; logs are sequences of who wrote each entry. An
import may take its key and then fail on the list (`RunTakes`).

| Code | Model |
| --- | --- |
| `LogosAccountCore`, null | `handle` |
| the mutex and its poisoning | `owner`, `poisoned`; `torn` records that a panic came in the middle of a change |
| an argument: null, UTF-8 or not | `Raw` |
| `Zeroizing` strings, the `Value`, the reply's buffer | `heap[t]`: which copies of a secret a call holds; `spilled`: those freed uncleared |
| `to_vec_sized`, the NUL, `CString` | `ToVecSized`, `Moves`: bytes move when the buffer is not exactly full |
| `~AccountLogBackend` | `Close`, then `Free` once every call is out |

### Backend

The event loop and the pool are two processes with a first-in first-out queue
in each direction. `queue` holds the calls the pool has not run, `replies` what
the event loop has not handled. Three kinds of steps: the person presses
something (`Person`), the pool runs the head of its queue against the core
(`Pool`), the event loop handles the first reply (`EventLoop`). A call runs in
one step, since nothing it reads is written by the event loop but `m_selection`,
which it reads first.

| Code | Model |
| --- | --- |
| `m_inFlight`, `busy`, `m_contextReady`, `m_core` | `inFlight`, `busy`, `ready`, `opened` |
| the remoted properties, `m_dropped` | the fields of `ui`; `m_dropped` is `ui.away` |
| `m_selection` against the value a read captured | `wanted` in each call; `Select` sets `moved`, and the step that selects marks every read queued or answered |
| the core, as far as the backend can tell it apart | `held`, `unread`, `staged`, `owed`; `reread` is a history variable |
| what the core would answer now | `fresh` in each reply, `current` of what is drawn: history variables, which every step that changes an account takes back |

A handler is one action and chains its calls before it counts itself off
(`Finish`). `listed` has no order: which account is the first is left open.
Managed and observed accounts are one set, so whether an account imported was
there already is left open too.

### View

Two queues are the socket: `up` of calls, `down` of messages, each of which
carries the properties as they are after one change and perhaps a signal. `seen`
is what the view has heard. `Drawn`, `Address`, `Loading` and `Busy` are
`Store.qml`'s bindings over it; the guards of the person's actions are the
`visible` and `enabled` of the control pressed. `Store.busy` is heard late too,
so a guard on it does not keep two calls from being under way.

`past` is `m_selection` against what a queued read captured, as a number: the
first `past` calls were queued before it last moved. A read among them may be
skipped, and then chains no listing (`LandRefresh`).

The backend's half runs each call where it lands (`Lands`): the properties its
handler sets one after the other, the calls it chains, its signal, and busy once
nothing is left. `meant` is a history variable: the account that was drawn when
a call was pressed, or its sheet opened; or none, if another was on its way to
the screen by then (`Moving`): with a call that moves the selection on its way,
with messages not heard yet that show another, or with the account gone and the
listing that finds it out still to come.

## Runs

| Run | Instance | Result |
| --- | --- | --- |
| `publish` | 1 account in the vault, 2 keys (symmetric), 1 name, 3 entries of budget, 1 late post | holds |
| `accounts` | 1 account, 1 key, 1 name, 2 entries, every operation, with another instance over the directory | holds |
| `vault_shared` | 2 processes, 1 account, a file system that may fail, fair | holds |
| `disk` | 1 process, 2 accounts, 2 passwords (both symmetric), 8 sets of parameters, a file system that may fail | holds |
| `vault_race` | 2 processes, 1 account | violated, a finding |
| `abi` | 2 threads, 1 account, logs of 2 entries, 1 late post, fair | holds |
| `screen` | 2 accounts (symmetric), all 13 buttons, 2 presses, 1 failure to read the vault | holds |
| `moves` | 2 accounts, stage, publish and select, 3 presses, fair | holds |
| `marks` | 1 account, stage and publish, 4 presses | violated, a finding |
| `drops` | 2 accounts, stage, refresh, select and import, 4 presses | violated, a finding |
| `view` | 2 accounts, 2 presses, 2 messages unheard, a backend that may stop, fair | holds |
| `retry` | 2 accounts, 2 presses, a backend that does not stop | violated, a finding |

`publish` asks whether an update planned from what is staged can be refused by
the log's own rules (`PlanNeverRefused`), whether what the screen holds can be
something the store never had (`RecordWithinStore`) or be taken back
(`RecordNeverRollsBack`), whether the index a publish answers is where its
entries are (`TakenWhereSaid`), whether a staged edit can be lost
(`StagedLeavesOnlyWhenHeld`), and whether the logs keep the service's contract
whatever arrives late (`ServiceContract`, the abstract specification
`AccountLogService` under the mapping of its `log` to `store`).

`accounts` asks whether any call of this app leaves behind something of an account
it lets go (`NothingLeftBehind`), whether what is staged still applies
(`PlanApplies`), both beside another instance that writes the directory, and
whether what a read dropped is answered (`DropsReachAnAnswer`).

`vault_shared` asks whether an account can be held in both spellings
(`OneSpelling`), whether the file under a real name can become another, complete
or not, without a forget of its account (`NeverReplaced`), and whether
every call returns (`CallsReturn`). `disk` asks what a crash or a failed call can leave: a
file under a real name that is not what its name says (`FilesAreWhatTheySay`),
half a list (`NeverHalfAList`), an account gone that nobody let go of
(`NeverLost`); and what can come of opening a file: another account's key, or
a key for the wrong password or none (`KeyIsTheAccounts`), a derivation past the ceilings, by something other than scrypt or one that
panics (`DerivesWithinBounds`).

`abi` asks whether the destructor can free the handle under a call
(`HandleOutlivesCalls`) and whether it ever gets to (`ClosesInTheEnd`); whether
a core that a panic left half way is ever run on (`TornNeverRead`); whether a
secret is freed uncleared on any path (`NoSecretLeft`); whether a key can be
stored in the clear unasked (`ClearOnlyIfAsked`); and, whichever server answers,
whether what is shown is what the store has had (`SeenIsServed`), a read that
goes through shows all it held (`ReadShowsTheStore`), and a write that landed is shown
(`PublishedIsShown`). `ReadShowsTheStore` has one exception, which is the code's: a server that is not
chat-store and answers 404 with an `error` in JSON is believed, of an account of
which nothing was ever seen, so nothing already shown is taken back.

`view` asks whether the answer a sheet hears is its own call's (`HearsItsOwn`),
whether what is pressed acts on the account that was drawn
(`ActsOnWhatIsDrawn`), whether the screen draws the account selected, or says
why not, once everything has landed (`DrawnInTheEnd`), and whether every sheet
stops waiting (`SheetsAnswered`). `retry` asks whether the button that reads the
vault again can be pressed.

`screen` and `moves` ask about the screen once everything has landed, whatever
was pressed meanwhile and wherever the selection went: does it list and draw
what the core has (`SettledScreen`), does it say that the last read of the
account on screen failed (`ReadFailureTold`), does the status line still claim
a call is under way (`StatusSettles`); and, at every moment, whether what
describes one account is on screen with another (`SaidOfSelected`) and whether
the buttons are off exactly while there is work (`BusyWhileWorking`).
`CallsSettle` asks whether every chain of calls ends.

### Bounds

Every log is bounded by the budget, counted in entries, so nothing else of a
log needs a bound. Three entries are enough for an endorsement, its revocation
by another device and one more write on top: the shortest history in which a
staged edit, a lost answer and another device meet. Two keys make two staged
endorsements and an endorsement beside a foreign key. `MaxLate` bounds the posts
given up on that may still arrive: one is enough to arrive after a later post,
and two differ only in which comes first. One account suffices for the core,
whose accounts share nothing but the publish in flight, which names its
account. Two processes are enough for the vault: one that holds the lock, and one that
waits for it or interferes with the other's stage; the theorems are for any
number. `disk` needs one more account than a call touches, and documents at the
ceilings and past them, one whose work wraps in 64 bits, one whose factors are
not powers of two and whose product is just within, one whose n is no power of two, and
one with a zero.

`MaxLog` is how long a log others let grow, two: one entry read and one that
comes after it. Two threads are the one inside the mutex and the one that waits
for it, or is past it with its reply.

The backend's state is finite but for what the person does: `MaxCalls` bounds
the presses, `Buttons` says which there are, `MaxFaults` how often the vault
cannot be read. `Patient` names the buttons pressed only while `busy` is off,
as the view presses most of them; in `screen` it names the buttons that take,
unlock or export an account, and every other may be pressed at any time. Two
presses are enough for a call and a move away from it, or for two calls that
race; three for staging, publishing and leaving, with every read that the moves
and the first listing bring about. Two accounts are the one on screen and the
one that is not.

In `view` `MaxPresses` bounds the calls the person makes; opening and closing
sheets and moving between screens are not counted. Two calls are one and the one
that overtakes it in the person's mind: a selection and a press made before it
is heard of. `MaxUnheard` bounds how far the view may lag: the backend handles
nothing more with more than so many messages unheard. A handler may add several,
so the view is always allowed to be one whole handler behind. `MayStop` says
whether the child may stop; `retry` leaves that out, since a backend that has
stopped disables everything.

### Fairness

In `Vault` it is `WF_vars(Step(p))`: a process in the middle of a call is
scheduled by the system. A call that was not made need not be, and a
crash is never required. Waiting for the lock needs no fairness of the lock:
the wait is bounded by a second (`GiveUpOnLock`).

In `Backend` the pool's thread and the event loop are each weakly fair: a
thread with work runs, and a store that does not answer is a read that fails
after its timeout. Nobody has to press anything, and the host need not hand
over (`ContextReady`).

In `Abi` each thread in a call is weakly fair (`Progress`), and so is the
destructor once it may free (`Free`). The store need not answer: a request has a
timeout of its own, which is the thread's step.

In `View` the backend's slots and replies, the socket and the host's notice of a
backend that stopped are weakly fair; the person is not, and the vault may stay
broken.

## Proofs

`AccountCoreProofs` proves, for any accounts, keys, names, costs and budget:

* `TypeCorrect`: the types, by a case on the kinds of steps (`StepCases`).
* `RecordWithin`, `RecordOnlyGrows`, `WrittenWhereSaid`: from one inductive
  invariant, `LogInv`. `HistoryInv` says that the log held is one of the store's
  versions and that every version is at the start of the log the store holds
  now; `PostInv` says that a post extends the log held, and, once taken, is a
  version. Neither is inductive alone: a publish that succeeds puts the post in
  place of the log held. The lemmas under it (`ExtendsPointwise`,
  `ConcatExtends`, ...) say what "extends" means entry by entry.
* `StagedApplies`: from `EditsInv`, which adds to `PlanApplies` that an account
  not yet read has at most one name staged too.
* `LeavesNothing`: of each operation of this app, whatever other instances have
  written before it.

`VaultProofs` proves, for any processes and accounts, that whoever is between
the check and the rename holds the lock and that its account is still absent
(`LockExcludes`, `FilesKept`), and from it that an account is never held in both
spellings and that the file under a name stays that file (`KeyNeverReplaced`): a rename
finds nothing there, a process that opened the staged file before only finishes
it, and every other step leaves what is under the name alone.

`PublishProofs` takes the core further, with a second inductive invariant,
`PlanInv`. That an update is never refused (`NeverRefused`) needs more than that
every staged edit applies to the log as it was read (`EditsInv`): every staged
revocation names a key or a name in the log held (`RevokesInv`), and stays so
however the log grows; so none is staged on an empty log, of which `EditsInv`
says nothing. `StagedLeft` needs `HeldInv`: what is
still staged while a publish waits is in the log it posted, so an answer that it
was taken clears only what the store holds. `DropsAnswered` is a case on the
steps that lower `dropped`.

`ServesLogs` is the refinement: `Init` and every step of `AccountCore` are the
initial state and a step, or a stutter, of `AccountLogService` with `store` for
its `log`. The steps that matter are those in which the store takes a log: a
post, a post that arrives late, and another device's. Its invariant `ServedInv`
says that every version, the post and every message on the wire is well formed
and within the budget; that two orders of the same edits cost the same is a fact
about permutations and sums, proved for `Size` entry by entry.

`BackendProofs` proves, for any accounts, buttons and number of presses, the
types, `BusyWhileWorking` and `SaidOfSelected`, from one inductive invariant,
`BackendInv`. It adds to the three that `inFlight` is the calls queued and the
replies queued (`Counted`), and that an answer that edits were dropped names an
account, without which `m_dropped` could hold the empty address. The argument
follows the code: what each handler puts on screen is drawn for the account it
selects (`SelectDraws`, `ReadingDraws`, `DroppingDraws`, ...); the two ways the
event loop makes calls and the one way the pool answers keep the count
(`StartKeeps`, `FinishKeeps`, `AnswerKeeps`); and every step is one of those.

`ScreenProofs` is about what the screen comes to when everything has landed,
where the argument is about every call that has not. It puts them in one `Line`,
the next to land first: those answered, after them those queued. Every step is
one of two kinds (`StepIs`): an event, which takes at most one answer off the
front, changes the screen and puts calls at the end; or the pool's answer, which
changes one item in place and may turn `fresh` off in those before it. An
invariant then says that for whatever the screen has wrong there is an item
after a given place that will put it right (`Has`), and the lemmas come in
pairs, `...ByEvent` and `...ByAnswer`.

* `StatusIsRight`, from `StatusInv`: while the line says that the store is read
  or written, a call that will say how that went is on its way, or the context
  is not ready and will start one. It needs `WantedInv`: a read still wanted is
  of the account on screen, so it is not skipped.
* `ReadFailuresAreTold`, from `ToldInv`: of an account whose last read failed,
  that is said by the screen or will be by an item with nothing after it that
  says the store was read. `OthersInv` is what keeps it: a publish of an account
  left meanwhile says, when it lands, how its own read went, and a wanted
  read of the one on screen always comes after it.
* `ScreenSettles`, from eight (`ChainsInv`). An answer out of date is followed by
  one whose handler lists or reads everything again (`StaleInv`); a listing
  that is up to date lists the core's accounts (`FreshListed`), and everything
  answered after it is too (`FreshAfter`), while none before a change of the
  accounts is (`ChangeInv`). So what is drawn as current is what the core has
  (`ListTrue`), and when it is not, the vault could not be read, or a listing
  (`ListInv`) or a state (`ShowInv`) is on its way or to be asked for. A state
  that is drawn says the vault can be read, which must not hide that a listing
  failed: `StateInv` has another listing after it.

`ViewProofs` proves, for any accounts, presses and lag, all of `View` that is not
liveness. `HearInv` counts, of each call a sheet makes, those on their way up, in
the backend and answered on their way down: one while the sheet waits and none
otherwise, so the answer heard by name is the sheet's own
(`SheetsHearTheirOwn`). `MeantInv` follows an account from where it was drawn to
where the call lands: no call ahead of one meant for an account puts another on
screen (`UpInv`), and while a sheet is up either its account stays on screen
through everything on its way, or its own call has succeeded and the answer that
closes it is coming (`SheetInv`); `HearInv` gives that there is no second such
call. That `past` never exceeds the calls in the backend is part of the types
(`ArrivesPast`, `LandsPast`). `AccountsDrawnInTheEnd` needs that what was said last is what is
(`LatestInv`) and that an account on screen is drawn, or its state or a listing
is still to come (`DrawnInv`); a read still queued does not count as that, since it may be
skipped (`Brings`).

`DiskProofs` proves, for any accounts, passwords and parameters, that one
instance's directory holds what it says whatever crashes. The invariant `IInv`
says of each half what one writer alone can leave: nobody writes to a file under
a real name, the staged file is whole where it is about to be renamed, and of a
crashed call's stage nothing more than that its next user clears it first.
`OnlyLetGo` takes it that the import's second half runs only once its key is in
the vault. `OpensSoundly` is about `Outcome` for every document, from what each
branch of it returns (`OutcomeSound`); `CheckedDerivation` is the arithmetic of
the ceilings: factors within theirs have a product that does not wrap.

`AbiProofs` proves, for any threads and accounts, eight of `abi`'s nine
properties; `ClosesInTheEnd` is liveness. `CallsOK` says that a freed handle has
no calls left, that a torn core is locked away, and that a call that is over has
left no copy of a secret. `StoreInv` ties the request under way to the call
inside (`ExchangeOK`), and what was answered or taken to the log served
(`HeardOK`), from which `ShownIsServed`, `ReadsWhole`
and `WritesShown` follow. `ReadsWhole` needs that the store in memory says 404
only of an empty log (`MemoryOK`), so that the exception is a server's alone; and
that a log already seen is not given up for an empty answer, which the step that
hears it checks (`OnlyEmptyPrefix`).

The assumptions are the modules' own: a natural budget and positive costs
(`BudgetAssumption`), `SharedVault` a Boolean and `MaxLate` a natural
(`CoreAssumption`), `MaxCalls` and `MaxFaults` naturals (`BackendAssumption`),
`MaxPresses` and `MaxUnheard` naturals and `MayStop` a Boolean
(`ViewAssumption`), `MaxLog` and `MaxLate` naturals (`StoreAssumption`), no thread that is `NoThread`
(`AbiAssumption`), and scrypt parameters whose
product is within the sum of the logarithms and does not wrap below 64 bits (`ParamsAssumption`). `Backend` and `View`
also assume that the empty address is no account's: `parse_address` refuses it.

Only model-checked: that calls return, settle, are answered and let the library
close (`CallsReturn`, `CallsSettle`, `SheetsAnswered`, `ClosesInTheEnd`), since
liveness under fairness is out of the prover's reach; and the four findings.

## Where the code and its documents disagree

* Two processes that take the same key share its stage: one can rename into
  place what the other has not finished writing (`vault_race`).
* A publish that reads the store and finds nothing left to write keeps the
  just-published marks of the one before it, and another device's entries come
  under them (`marks`).
* Importing a key that is here already says so in place of what was dropped
  while its account was off screen, which is then never said (`drops`).
* When the vault cannot be read as another account is selected, that account
  loads for good, and the button that would read the vault again is off while
  anything loads (`retry`).

The staged list of observed accounts is shared by processes the way the vault's
stage is, and without a lock: `Observed` with two processes violates
`NeverHalfAList` in a few steps. No run repeats the finding.

A comment of `ChatStore::fetch` (store.rs:113-116) says that the route reports an
account that never published "in its own words", and that a 404 without them must
not read as such an account. `reason` (store.rs:50-61) takes any JSON with an
`error` in it for those words, so another server that answers 404 that way does
read as an account that has published nothing. `Store` has that server, and
`ReadShowsTheStore` says how far it goes: only while nothing was seen of the
account. No run of its own repeats it.

Some things hold only in part, which the modules say and no document denies. An
edit that a lost-answer publish wrote and another device revoked since is
pending again, and the retry writes it a second time. Stopping to observe an
address that is also managed loses its count of dropped edits
(`DropsReachAnAnswer` leaves that step out). An import that took the key and
could not write the list of observed accounts is answered with a failure, and
nothing lists the vault until the next call (`SettledScreen` leaves out what
`current.missed` records). A press made while the view
has not heard yet that another account was selected acts on that one, where the
backend decides whom it acts on; and so does one made on an account that was let
go, and is taken and selected anew before the view hears of either (`meant`
leaves both out). The confirm of the
publish sheet is enabled until the backend is heard to be busy with the read the
sheet opened with, and a second press of Create within that time makes a second
account; the modules allow both and no property is about them.

## Not modelled

Signatures and encoding: a log the resolver adopts is genuine, one that is not
is a read that fails. Parsing of keys, addresses and names: inputs are the
accepted ones, but for strings that are not UTF-8. A key file replaced between
the two reads `open` makes of it. Of the backend, where it finds the directory and
the store, and the signal `published`, which no part of the view hears. Of the
view, layout, wording, focus and what a field accepts. Build and packaging.

## Plan

1. `AccountLog`, `AccountCore`, `Vault`, `Observed`, `Backend`, their runs and
   theorems (done).
2. `Store` and `Abi`, `VaultOpen` and `Disk`, with their theorems; `View` (done).
3. Theorems: the other safety properties of `AccountCore` with the refinement,
   of `Backend` and of `View` (done).
4. What no run asks yet: a publish that another device revoked in part and that is
   tried again, and keys that stay unlocked past another instance's forget.
