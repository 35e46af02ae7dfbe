-------------------------------- MODULE Abi ---------------------------------
(***************************************************************************)
(* The C ABI (rust-core/src/ffi.rs, rust-core/src/json.rs) over the store: *)
(* threads of the host call into one handle, whose mutex lets one of them  *)
(* into the core at a time; the two calls that reach the network hold it   *)
(* for as long as the store takes.  A panic inside poisons the mutex.  The *)
(* host drains its calls before it frees the handle (the destructor of     *)
(* AccountLogBackend).                                                     *)
(*                                                                         *)
(* The core is AccountCore's, told only as far as the ABI's answers depend *)
(* on it.  A log is what Store says it is.                                 *)
(***************************************************************************)
EXTENDS Store

CONSTANTS
    Thread,   \* threads of the host
    NoThread  \* who holds the mutex when nobody does

ASSUME AbiAssumption == NoThread \notin Thread

VARIABLES
    handle,    \* what logos_account_core_new returned: "live" or "null"
    closing,   \* the host makes no more calls
    owner,     \* the thread inside the mutex, or NoThread
    poisoned,  \* the mutex is
    torn,      \* a panic left the core in the middle of a change
    at,        \* at[t]: how far t's call is
    ask,       \* what the call inside asks
    got,       \* got[t]: what t's call was answered, until it is released
    heap,      \* heap[t]: the copies t's call holds of a key or a password
    spilled,   \* the copies freed without being cleared
    vault, observed,    \* the accounts on disk
    unlocked, staged,   \* those unlocked this session, or with edits staged
    seen       \* seen[a]: the log the resolver holds

hostVars == <<handle, closing>>
lockVars == <<owner, poisoned, torn, ask>>
callVars == <<at, got, heap, spilled>>
diskVars == <<vault, observed>>
coreVars == <<unlocked, staged, seen>>
vars == <<storeVars, hostVars, lockVars, callVars, diskVars, coreVars>>

\* A string as it crosses the ABI: absent, UTF-8, or neither.
Raw == {"null", "text", "bytes"}

Passworded == {"create_account", "import_account", "export_account", "unlock"}
Plain ==
    {"accounts", "state", "forget_account", "observe_account", "stop_observing",
     "refresh", "stage_add_installation", "stage_set_display_name",
     "stage_revoke", "discard_pending", "publish"}

Asks ==
    [op : Passworded, addr : Addr, password : Raw]
        \cup [op : Plain, addr : Addr, password : {"null"}]
NoAsk == [op |-> "none"]

RequiredArg(raw) == IF raw = "text" THEN "some" ELSE "refused"

\* Fault: what is not UTF-8 is read as absent.
OptionalArgDropping(raw) == IF raw = "text" THEN "some" ELSE "none"

OptionalArg(raw) == IF raw = "null" THEN "none" ELSE RequiredArg(raw)

New(usable) == IF usable THEN "live" ELSE "null"

Init ==
    /\ StoreInit
    /\ handle \in {New(TRUE), New(FALSE)}
    /\ closing = FALSE
    /\ owner = NoThread /\ poisoned = FALSE /\ torn = FALSE /\ ask = NoAsk
    /\ at = [t \in Thread |-> "out"]
    /\ got = [t \in Thread |-> "none"]
    /\ heap = [t \in Thread |-> {}] /\ spilled = {}
    /\ vault \in [Addr -> {"absent", "open", "sealed"}]
    /\ observed = {a \in Addr : vault[a] = "absent"}
    /\ unlocked = {} /\ staged = {}
    /\ seen = [a \in Addr |-> <<>>]

-----------------------------------------------------------------------------
(* A call on its way in and out of the mutex.                              *)

\* Its strings are copied, since some of them are secrets.
Call(t) ==
    /\ at[t] = "out" /\ ~closing
    /\ at' = [at EXCEPT ![t] = "asked"]
    /\ heap' = [heap EXCEPT ![t] = {"argument"}]
    /\ UNCHANGED <<storeVars, hostVars, lockVars, got, spilled, diskVars, coreVars>>

\* The call is over inside; the mutex and the copied arguments go with it.
Returns(t, answer) ==
    /\ at' = [at EXCEPT ![t] = "answered"]
    /\ got' = [got EXCEPT ![t] = answer]
    /\ heap' = [heap EXCEPT ![t] = IF answer = "key" THEN {"value"} ELSE {}]
    /\ owner' = NoThread
    /\ ask' = NoAsk
    /\ UNCHANGED spilled

\* "no account core", "the account core is poisoned".
NotEntered(t) ==
    /\ at[t] = "asked"
    /\ handle = "null" \/ (owner = NoThread /\ poisoned)
    /\ at' = [at EXCEPT ![t] = "answered"]
    /\ got' = [got EXCEPT ![t] = "failed"]
    /\ heap' = [heap EXCEPT ![t] = {}]
    /\ UNCHANGED <<storeVars, hostVars, lockVars, spilled, diskVars, coreVars>>

\* Fault: whoever calls is in.
EntersUnlocked(t) ==
    /\ at[t] = "asked" /\ handle = "live" /\ ~poisoned
    /\ owner' = t
    /\ ask' \in Asks
    /\ at' = [at EXCEPT ![t] = "inside"]
    /\ UNCHANGED <<storeVars, hostVars, poisoned, torn, got, heap, spilled,
                   diskVars, coreVars>>

\* What it asks is drawn here: nothing before depends on it.
Enters(t) ==
    /\ at[t] = "asked" /\ handle = "live" /\ owner = NoThread /\ ~poisoned
    /\ owner' = t
    /\ ask' \in Asks
    /\ at' = [at EXCEPT ![t] = "inside"]
    /\ UNCHANGED <<storeVars, hostVars, poisoned, torn, got, heap, spilled,
                   diskVars, coreVars>>

\* A buffer of JSON with room for what goes after it.
ToVecSized(length, spare) == [length |-> length, capacity |-> length + spare]

\* {"key":"<64 hex>","ok":true}
ReplyLength == 84

\* Fault: no room for the NUL, so the push moves the bytes.
BytesUnsized == ToVecSized(ReplyLength, 0)

Bytes == ToVecSized(ReplyLength, 1)

\* Pushed a NUL and boxed, neither of which may move what it holds.
Moves(bytes) == bytes.capacity # bytes.length + 1

\* The value is scrubbed once its text is written.
Renders(t) ==
    /\ at[t] = "answered"
    /\ at' = [at EXCEPT ![t] = "rendered"]
    /\ heap' = [heap EXCEPT ![t] = IF got[t] = "key" THEN {"reply"} ELSE {}]
    /\ spilled' = IF got[t] = "key" /\ Moves(Bytes) THEN spilled \cup {"reply"}
                  ELSE spilled
    /\ UNCHANGED <<storeVars, hostVars, lockVars, got, diskVars, coreVars>>

\* The host has read the reply and gives it back.
StringFree(t) ==
    /\ at[t] = "rendered"
    /\ at' = [at EXCEPT ![t] = "out"]
    /\ got' = [got EXCEPT ![t] = "none"]
    /\ heap' = [heap EXCEPT ![t] = {}]
    /\ UNCHANGED <<storeVars, hostVars, lockVars, spilled, diskVars, coreVars>>

-----------------------------------------------------------------------------
(* Inside: the calls that make no request.                                 *)

Inside(t, ops) == owner = t /\ at[t] = "inside" /\ ask.op \in ops

Manages(a) == vault[a] # "absent"
Knows(a)   == Manages(a) \/ a \in observed
HasKey(a)  == vault[a] = "open" \/ a \in unlocked

\* An argument missing, not UTF-8 or not an address, or whatever the core
\* refuses: nothing has changed.
RunRefused(t) ==
    /\ Inside(t, Passworded \cup Plain)
    /\ Returns(t, "failed")
    /\ UNCHANGED <<storeVars, hostVars, poisoned, torn, diskVars, coreVars>>

RunAccounts(t) ==
    /\ Inside(t, {"accounts", "state"})
    /\ ask.op = "state" => Knows(ask.addr)
    /\ Returns(t, "ok")
    /\ UNCHANGED <<storeVars, hostVars, poisoned, torn, diskVars, coreVars>>

\* A new account, or one whose key was exported; no password, no seal.  An
\* import whose account cannot be taken off the list fails with its key kept.
RunTakes(t) ==
    /\ Inside(t, {"create_account", "import_account"})
    /\ ~Manages(ask.addr)
    /\ LET password == OptionalArg(ask.password)
       IN  /\ password # "refused"
           /\ vault' = [vault EXCEPT ![ask.addr] =
                           IF password = "none" THEN "open" ELSE "sealed"]
           /\ unlocked' = IF password = "none" THEN unlocked
                          ELSE unlocked \cup {ask.addr}
    /\ \/ /\ observed' = IF ask.op = "import_account" THEN observed \ {ask.addr}
                         ELSE observed
          /\ Returns(t, "ok")
       \/ /\ ask.op = "import_account" /\ ask.addr \in observed
          /\ UNCHANGED observed
          /\ Returns(t, "failed")
    /\ UNCHANGED <<storeVars, hostVars, poisoned, torn, staged, seen>>

\* An account held already is an answer, not a failure.
RunImportsHeld(t) ==
    /\ Inside(t, {"import_account"})
    /\ Manages(ask.addr) /\ OptionalArg(ask.password) # "refused"
    /\ Returns(t, "ok")
    /\ UNCHANGED <<storeVars, hostVars, poisoned, torn, diskVars, coreVars>>

RunExport(t) ==
    /\ Inside(t, {"export_account"})
    /\ \/ vault[ask.addr] = "open" /\ OptionalArg(ask.password) = "none"
       \/ vault[ask.addr] = "sealed" /\ OptionalArg(ask.password) = "some"
    /\ Returns(t, "key")
    /\ UNCHANGED <<storeVars, hostVars, poisoned, torn, diskVars, coreVars>>

RunUnlock(t) ==
    /\ Inside(t, {"unlock"})
    /\ vault[ask.addr] = "sealed" /\ RequiredArg(ask.password) = "some"
    /\ unlocked' = unlocked \cup {ask.addr}
    /\ Returns(t, "ok")
    /\ UNCHANGED <<storeVars, hostVars, poisoned, torn, diskVars, staged, seen>>

RunForget(t) ==
    /\ Inside(t, {"forget_account"})
    /\ Manages(ask.addr)
    /\ vault' = [vault EXCEPT ![ask.addr] = "absent"]
    /\ unlocked' = unlocked \ {ask.addr}
    /\ staged' = staged \ {ask.addr}
    /\ Returns(t, "ok")
    /\ UNCHANGED <<storeVars, hostVars, poisoned, torn, observed, seen>>

RunObserves(t) ==
    /\ Inside(t, {"observe_account", "stop_observing"})
    /\ \/ ask.op = "observe_account" /\ observed' = observed \cup ({ask.addr} \ {a \in Addr : Manages(a)})
       \/ ask.op = "stop_observing" /\ ask.addr \in observed /\ observed' = observed \ {ask.addr}
    /\ Returns(t, "ok")
    /\ UNCHANGED <<storeVars, hostVars, poisoned, torn, vault, coreVars>>

\* A name staged again as it is in force takes the staged one away.
RunStages(t) ==
    /\ Inside(t, {"stage_add_installation", "stage_set_display_name",
                  "stage_revoke", "discard_pending"})
    /\ Manages(ask.addr)
    /\ \/ ask.op # "discard_pending" /\ staged' = staged \cup {ask.addr}
       \/ /\ ask.op \in {"stage_set_display_name", "discard_pending"}
          /\ staged' = staged \ {ask.addr}
    /\ Returns(t, "ok")
    /\ UNCHANGED <<storeVars, hostVars, poisoned, torn, diskVars, unlocked, seen>>

\* Fault: the panic is caught inside the mutex, which is not poisoned.
PanicCaughtInside(t) ==
    /\ owner = t /\ exchange = NoExchange
    /\ torn' = TRUE
    /\ Returns(t, "failed")
    /\ UNCHANGED <<storeVars, hostVars, poisoned, diskVars, coreVars>>

\* Caught outside it, and answered.
RunPanics(t) ==
    /\ owner = t /\ exchange = NoExchange
    /\ torn' = TRUE /\ poisoned' = TRUE
    /\ Returns(t, "failed")
    /\ UNCHANGED <<storeVars, hostVars, diskVars, coreVars>>

-----------------------------------------------------------------------------
(* Inside: the two calls that reach the store.                             *)

Goes(t, phase) ==
    at' = [at EXCEPT ![t] = phase] /\ UNCHANGED <<owner, ask, got, heap, spilled>>

\* A locked account costs no request.
MayRead ==
    \/ ask.op = "refresh" /\ Knows(ask.addr)
    \/ ask.op = "publish" /\ Manages(ask.addr) /\ HasKey(ask.addr) /\ ask.addr \in staged

Reads(t) ==
    /\ Inside(t, {"refresh", "publish"})
    /\ MayRead
    /\ SendGet(ask.addr)
    /\ Goes(t, "reading")
    /\ UNCHANGED <<hostVars, poisoned, torn, diskVars, coreVars>>

\* What extends the log held is adopted, and edits it already holds dropped.
HearsLog(t) ==
    /\ owner = t /\ at[t] = "reading"
    /\ Hears("get")
    /\ LET r == exchange.response
       IN  IF (SaysNone(r) \/ SaysLog(r)) /\ IsPrefix(seen[ask.addr], Fetched(r))
           THEN /\ seen' = [seen EXCEPT ![ask.addr] = Fetched(r)]
                /\ \/ UNCHANGED staged
                   \/ Fetched(r) # seen[ask.addr] /\ staged' = staged \ {ask.addr}
                /\ IF ask.op = "refresh" THEN Returns(t, "ok") ELSE Goes(t, "read")
           ELSE Returns(t, "failed") /\ UNCHANGED <<seen, staged>>
    /\ UNCHANGED <<kind, served, late, written, hostVars, poisoned, torn,
                   diskVars, unlocked>>

\* Every staged edit was in the log read, or the update has no room in it.
PostsNothing(t) ==
    /\ owner = t /\ at[t] = "read"
    /\ \/ ask.addr \notin staged /\ Returns(t, "ok")
       \/ ask.addr \in staged /\ Len(seen[ask.addr]) >= MaxLog /\ Returns(t, "failed")
    /\ UNCHANGED <<storeVars, hostVars, poisoned, torn, diskVars, coreVars>>

Posts(t) ==
    /\ owner = t /\ at[t] = "read"
    /\ ask.addr \in staged /\ Len(seen[ask.addr]) < MaxLog
    /\ SendPost(ask.addr, Append(seen[ask.addr], "us"))
    /\ Goes(t, "posting")
    /\ UNCHANGED <<hostVars, poisoned, torn, diskVars, coreVars>>

\* What the store took is held for the read that follows.
HearsTaken(t) ==
    /\ owner = t /\ at[t] = "posting"
    /\ Hears("post")
    /\ IF SaysTaken(exchange.response)
       THEN /\ staged' = staged \ {ask.addr}
            /\ written' = [addr |-> ask.addr, log |-> exchange.log]
            /\ Goes(t, "collecting")
       ELSE Returns(t, "failed") /\ UNCHANGED <<staged, written>>
    /\ UNCHANGED <<kind, served, late, hostVars, poisoned, torn, diskVars,
                   unlocked, seen>>

\* Fault: the store is read back, and may not answer.
CollectsFromStore(t) ==
    /\ owner = t /\ at[t] = "collecting"
    /\ \/ seen' = [seen EXCEPT ![ask.addr] = served[ask.addr]] /\ Returns(t, "ok")
       \/ UNCHANGED seen /\ Returns(t, "failed")
    /\ UNCHANGED <<storeVars, hostVars, poisoned, torn, diskVars, unlocked, staged>>

\* ReadBack: the log just written, in place of the store's.
Collects(t) ==
    /\ owner = t /\ at[t] = "collecting"
    /\ written # NothingWritten /\ written.addr = ask.addr
    /\ seen' = [seen EXCEPT ![ask.addr] = written.log]
    /\ written' = NothingWritten
    /\ Returns(t, "ok")
    /\ UNCHANGED <<kind, served, exchange, late, hostVars, poisoned, torn,
                   diskVars, unlocked, staged>>

GivesUp(t) ==
    /\ owner = t /\ at[t] \in {"reading", "posting"}
    /\ TimesOut
    /\ Returns(t, "failed")
    /\ UNCHANGED <<kind, served, written, hostVars, poisoned, torn, diskVars, coreVars>>

-----------------------------------------------------------------------------
(* The host.                                                               *)

Close ==
    /\ ~closing
    /\ closing' = TRUE
    /\ UNCHANGED <<storeVars, handle, lockVars, callVars, diskVars, coreVars>>

\* Fault: the calls under way are not waited for.
FreeAtOnce ==
    /\ closing /\ handle # "freed"
    /\ handle' = "freed"
    /\ UNCHANGED <<storeVars, closing, lockVars, callVars, diskVars, coreVars>>

\* The pool is drained first; safe on null.
Free ==
    /\ closing /\ handle # "freed"
    /\ \A t \in Thread : at[t] = "out"
    /\ handle' = "freed"
    /\ UNCHANGED <<storeVars, closing, lockVars, callVars, diskVars, coreVars>>

Runs(t) ==
    \/ RunRefused(t) \/ RunAccounts(t) \/ RunTakes(t) \/ RunImportsHeld(t)
    \/ RunExport(t) \/ RunUnlock(t) \/ RunForget(t) \/ RunObserves(t) \/ RunStages(t)
    \/ Reads(t) \/ HearsLog(t) \/ PostsNothing(t) \/ Posts(t) \/ HearsTaken(t)
    \/ Collects(t) \/ GivesUp(t) \/ RunPanics(t)

Progress(t) == NotEntered(t) \/ Enters(t) \/ Runs(t) \/ Renders(t) \/ StringFree(t)

Elsewhere ==
    OtherEnd /\ UNCHANGED <<hostVars, lockVars, callVars, diskVars, coreVars>>

Next == (\E t \in Thread : Call(t) \/ Progress(t)) \/ Close \/ Free \/ Elsewhere

Spec == Init /\ [][Next]_vars

\* Threads are scheduled, and the destructor goes on once it may.
FairSpec == Spec /\ (\A t \in Thread : WF_vars(Progress(t))) /\ WF_vars(Free)

-----------------------------------------------------------------------------
(* Properties.                                                             *)

Phases == {"inside", "reading", "read", "posting", "collecting"}

CallTypeOK ==
    /\ owner \in Thread \cup {NoThread}
    /\ IF owner = NoThread THEN ask = NoAsk ELSE ask \in Asks
    /\ \A t \in Thread : at[t] \in Phases <=> owner = t
    /\ at \in [Thread -> {"out", "asked", "answered", "rendered"} \cup Phases]
    /\ got \in [Thread -> {"none", "failed", "ok", "key"}]
    /\ heap \in [Thread -> SUBSET {"argument", "value", "reply"}]
    /\ spilled \subseteq {"argument", "value", "reply"}

CoreTypeOK ==
    /\ vault \in [Addr -> {"absent", "open", "sealed"}]
    /\ observed \subseteq Addr /\ unlocked \subseteq Addr /\ staged \subseteq Addr
    /\ seen \in [Addr -> Log]

\* Every variable keeps its type, and whoever is in the core holds its mutex.
TypeOK ==
    /\ StoreTypeOK /\ CallTypeOK /\ CoreTypeOK
    /\ handle \in {"live", "null", "freed"}
    /\ closing \in BOOLEAN /\ poisoned \in BOOLEAN /\ torn \in BOOLEAN

\* "The pool holds a raw handle, so it has to drain before the handle goes"
\* (the backend's destructor): no call is anywhere near a handle that is freed.
HandleOutlivesCalls == handle = "freed" => \A t \in Thread : at[t] = "out"

\* A core a panic left in the middle of a change is never run on again: the
\* mutex is poisoned before anyone else can have it, and every later call is
\* answered without it.
TornNeverRead == torn => owner = NoThread

\* No call frees memory that still holds a key or a password, whichever way
\* it ends: refused, panicked, poisoned, with no handle, or with the reply
\* read and given back.
NoSecretLeft ==
    /\ spilled = {}
    /\ \A t \in Thread : at[t] = "out" => heap[t] = {}

\* "A string that is not UTF-8 is refused, never read as absent"
\* (account_core.h): a key is stored in the clear only where the caller passed
\* no password.
ClearOnlyIfAsked ==
    [][\A a \in Addr :
        (vault[a] # "open" /\ vault'[a] = "open") => ask.password = "null"]_vars

\* The log shown is one the store has had, whoever answered for it and
\* whatever a redirect did to a post.
SeenIsServed == \A a \in Addr : IsPrefix(seen[a], served[a])

\* A read that goes through shows everything the store held as it answered: a
\* server with no such route is no empty account, and half a log no log.  A
\* server that is not chat-store and says 404 in chat-store's way is the
\* exception, and then only for an account of which nothing was ever seen: it
\* takes nothing back.
ReadShowsTheStore ==
    [][\A t \in Thread :
        (/\ at[t] = "reading"
         /\ at'[t] = "read" \/ (at'[t] = "answered" /\ got'[t] = "ok")) =>
            \/ IsPrefix(exchange.response.held, seen'[ask.addr])
            \/ /\ exchange.response.status = "404" /\ exchange.response.told
               /\ seen[ask.addr] = <<>> /\ kind = "chat"]_vars

\* "A write that landed is shown as landed whether or not the store then
\* answers a read" (ReadBack), unless the core panicked in between.
PublishedIsShown ==
    [][\A t \in Thread :
        (at[t] = "collecting" /\ at'[t] = "answered") =>
            poisoned' \/ (got'[t] = "ok" /\ IsPrefix(seen[ask.addr], seen'[ask.addr])
                          /\ seen'[ask.addr] # seen[ask.addr])]_vars

\* The app can always be closed: no store, however slow, and no panic keep
\* the destructor waiting for good.
ClosesInTheEnd == closing ~> handle = "freed"
=============================================================================
