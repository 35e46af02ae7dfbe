---------------------------- MODULE AccountCore -----------------------------
(***************************************************************************)
(* One app's account core (AccountCore in rust-core/src/manager.rs) and    *)
(* what it shares: the vault directory, the store that keeps every         *)
(* account's log, the other devices that publish to it, and the network.   *)
(*                                                                         *)
(* The core is called behind a mutex (rust-core/src/ffi.rs), so one        *)
(* operation runs at a time and an operation that fails on its arguments   *)
(* is no step at all.  A publish is the exception to atomicity: it talks   *)
(* to the store twice, and between its read and the answer to its post the *)
(* store goes on serving other devices.  `post` is that publish.           *)
(*                                                                         *)
(* What is staged is kept as a set.  The code keeps it in the order it was *)
(* staged; no property here depends on that order, so a plan lists the     *)
(* edits in any order that has its revocations first.                      *)
(***************************************************************************)
EXTENDS AccountLog

CONSTANTS
    Addr,         \* accounts
    SharedVault,  \* whether other instances of the app use the same directory
    MaxLate       \* bound: how many posts given up on may still arrive

ASSUME CoreAssumption == SharedVault \in BOOLEAN /\ MaxLate \in Nat

VARIABLES
    store,     \* store[a]: the log the store holds, <<>> when it holds none
    versions,  \* versions[a]: every log it has held, which a late answer can be
    vault,     \* vault[a]: whether a's key is on disk, and in which spelling
    observed,  \* the addresses on the list of observed accounts
    unlocked,  \* the sealed keys opened this session
    record,    \* record[a]: what the resolver holds, <<>> for nothing
    answered,  \* answered[a]: LastRead.at is set
    problem,   \* problem[a]: LastRead.problem
    staged,    \* staged[a]: the edits waiting to be published
    dropped,   \* dropped[a]: staged edits dropped and not yet counted
    post,      \* the publish that waits for the store, or NoPost
    wire       \* posts given up on that the store may still be served

disk   == <<vault, observed>>
read   == <<record, answered, problem>>
edits  == <<staged, dropped>>
remote == <<store, versions, wire>>
vars   == <<store, versions, vault, observed, unlocked, record, answered,
            problem, staged, dropped, post, wire>>

-----------------------------------------------------------------------------
(* Staged edits and the update they plan.                                  *)

AddInstallation(k) == [edit |-> "add", key |-> k]
SetDisplayName(n)  == [edit |-> "rename", name |-> n]
Revoke(i)          == [edit |-> "revoke", index |-> i]

Edit ==
    [edit : {"add"}, key : Key]
        \cup [edit : {"rename"}, name : Name]
        \cup [edit : {"revoke"}, index : Nat]

Renames == {SetDisplayName(n) : n \in Name}

EntryOf(e) ==
    CASE e.edit = "add"    -> Endorsement(e.key)
      [] e.edit = "rename" -> Naming(e.name)
      [] e.edit = "revoke" -> Removal(e.index)

\* What an update made of edits appends: revocations first, since every one
\* targets an entry already published.
Plans(S) ==
    LET revocations == {e \in S : e.edit = "revoke"}
    IN  {[n \in DOMAIN s |-> EntryOf(s[n])] :
            s \in {r \o w : r \in SetToSeqs(revocations),
                            w \in SetToSeqs(S \ revocations)}}

\* Fault: the update is not measured against the budget.
FitsUnmeasured(log, S) == \E plan \in Plans(S) : CanPushAll(log, plan)

\* The update is one the log takes, within its byte budget.
Fits(log, S) ==
    \E plan \in Plans(S) : CanPushAll(log, plan) /\ Size(log \o plan) <= Budget

\* Fault: an endorsement is compared with the keys under its own context only.
PendingBySigner(e, log) ==
    CASE e.edit = "add"    -> \A i \in Live(log) : log[i + 1] # Endorsement(e.key)
      [] e.edit = "rename" -> ~InForce(e.name, log)
      [] e.edit = "revoke" -> e.index \in Live(log)

\* Whether log does not hold e yet, so that e still has to be written.
Pending(e, log) ==
    CASE e.edit = "add"    -> e.key \notin LiveKeys(log)
      [] e.edit = "rename" -> ~InForce(e.name, log)
      [] e.edit = "revoke" -> e.index \in Live(log)

\* Fault: a staged name outlives another device's writing it.
SettledButNames(S, log) ==
    IF log = <<>> \/ ~Readable(log) THEN S
    ELSE {e \in S : e.edit = "rename" \/ Pending(e, log)}

\* What settling S against log leaves: no log or an unreadable one settles
\* nothing.
Settled(S, log) ==
    IF log = <<>> \/ ~Readable(log) THEN S ELSE {e \in S : Pending(e, log)}

-----------------------------------------------------------------------------
(* The core's state.                                                       *)

NoPost == [fate |-> "none"]
Spellings == {"absent", "open", "sealed"}
Problems == {"none", "unverified", "forked", "unanswered"}

Manages(a) == vault[a] # "absent"
Knows(a)   == Manages(a) \/ a \in observed

\* The log the screen and the plans go by: the resolver keeps what it read
\* past a forget, and only a read since makes it count.
Record(a) == IF answered[a] THEN record[a] ELSE <<>>

HasKey(a) == a \in unlocked \/ vault[a] = "open"

Idle == post = NoPost

Init ==
    /\ store = [a \in Addr |-> <<>>]
    /\ versions = [a \in Addr |-> {<<>>}]
    /\ vault = [a \in Addr |-> "absent"]
    /\ observed = {}
    /\ unlocked = {}
    /\ record = [a \in Addr |-> <<>>]
    /\ answered = [a \in Addr |-> FALSE]
    /\ problem = [a \in Addr |-> "none"]
    /\ staged = [a \in Addr |-> {}]
    /\ dropped = [a \in Addr |-> 0]
    /\ post = NoPost
    /\ wire = {}

-----------------------------------------------------------------------------
(* Accounts this app has.                                                  *)

\* A generated key is one no store, list or vault has met.
CreateAccount(a, spelling) ==
    /\ Idle
    /\ ~Knows(a) /\ store[a] = <<>>
    /\ vault' = [vault EXCEPT ![a] = spelling]
    /\ unlocked' = IF spelling = "sealed" THEN unlocked \cup {a} ELSE unlocked
    /\ UNCHANGED <<observed, read, edits, post, remote>>

\* The key is in the vault before the list of observed accounts is written:
\* a list that cannot be written fails the call and leaves the key taken.
ImportAccount(a, spelling) ==
    /\ Idle
    /\ ~Manages(a)
    /\ vault' = [vault EXCEPT ![a] = spelling]
    /\ unlocked' = IF spelling = "sealed" THEN unlocked \cup {a} ELSE unlocked
    /\ \/ observed' = observed \ {a}
       \/ a \in observed /\ UNCHANGED observed
    /\ UNCHANGED <<read, edits, post, remote>>

Unlock(a) ==
    /\ Idle
    /\ vault[a] = "sealed"
    /\ unlocked' = unlocked \cup {a}
    /\ UNCHANGED <<disk, read, edits, post, remote>>

\* Fault: what is staged outlives the key.
ForgetAccountAlone(a) ==
    /\ Idle
    /\ Manages(a)
    /\ vault' = [vault EXCEPT ![a] = "absent"]
    /\ unlocked' = unlocked \ {a}
    /\ dropped' = [dropped EXCEPT ![a] = 0]
    /\ answered' = [answered EXCEPT ![a] = FALSE]
    /\ problem' = [problem EXCEPT ![a] = "none"]
    /\ UNCHANGED <<observed, record, staged, post, remote>>

ForgetAccount(a) ==
    /\ Idle
    /\ Manages(a)
    /\ vault' = [vault EXCEPT ![a] = "absent"]
    /\ unlocked' = unlocked \ {a}
    /\ staged' = [staged EXCEPT ![a] = {}]
    /\ dropped' = [dropped EXCEPT ![a] = 0]
    /\ answered' = [answered EXCEPT ![a] = FALSE]
    /\ problem' = [problem EXCEPT ![a] = "none"]
    /\ UNCHANGED <<observed, record, post, remote>>

Observe(a) ==
    /\ Idle
    /\ ~Knows(a)
    /\ observed' = observed \cup {a}
    /\ UNCHANGED <<vault, unlocked, read, edits, post, remote>>

StopObserving(a) ==
    /\ Idle
    /\ a \in observed
    /\ observed' = observed \ {a}
    /\ answered' = [answered EXCEPT ![a] = FALSE]
    /\ problem' = [problem EXCEPT ![a] = "none"]
    /\ dropped' = [dropped EXCEPT ![a] = 0]
    /\ UNCHANGED <<vault, unlocked, record, staged, post, remote>>

-----------------------------------------------------------------------------
(* Reading the store.                                                      *)

\* Fault: whatever the store serves is adopted.
AdoptableAny(a) == versions[a]

\* The answers the resolver adopts: the log held, or one that extends it.
Adoptable(a) == {log \in versions[a] : Extends(log, record[a])}

ReadLands(a, log) ==
    /\ record' = [record EXCEPT ![a] = log]
    /\ answered' = [answered EXCEPT ![a] = TRUE]
    /\ problem' = [problem EXCEPT ![a] = "none"]

\* Fault: counted as what is left less what was there.
DropsReversed(a, log) ==
    Cardinality(Settled(staged[a], log)) - Cardinality(staged[a])

\* How many of a's staged edits reading log drops.
Drops(a, log) == Cardinality(staged[a] \ Settled(staged[a], log))

\* Fault: a read's count replaces one that no answer has given yet.
OwedOfLastRead(a, log) == Drops(a, log)

\* What the next answer owes once a publish has read log.
Owed(a, log) == dropped[a] + Drops(a, log)

\* A read that fails leaves what was read as it was and says what went wrong.
ReadFails(a) ==
    /\ \/ problem' = [problem EXCEPT ![a] = "unverified"]
       \/ problem' = [problem EXCEPT ![a] = "unanswered"]
       \/ /\ versions[a] # Adoptable(a)
          /\ problem' = [problem EXCEPT ![a] = "forked"]
    /\ UNCHANGED <<disk, unlocked, record, answered, edits, post, remote>>

\* The answer counts every edit dropped since the last one.
Refresh(a, log) ==
    /\ Idle
    /\ Knows(a)
    /\ ReadLands(a, log)
    /\ staged' = [staged EXCEPT ![a] = Settled(staged[a], log)]
    /\ dropped' = [dropped EXCEPT ![a] = 0]
    /\ UNCHANGED <<disk, unlocked, post, remote>>

RefreshFails(a) == Idle /\ Knows(a) /\ ReadFails(a)

-----------------------------------------------------------------------------
(* Staging.  Nothing is staged for a log that cannot be extended, and      *)
(* nothing that makes an update past the budget.                           *)

Restage(a, S) ==
    /\ Fits(Record(a), S)
    /\ staged' = [staged EXCEPT ![a] = S]
    /\ UNCHANGED <<disk, unlocked, read, dropped, post, remote>>

Extendable(a) == Readable(Record(a))

StageAddInstallation(a, k) ==
    /\ Idle /\ Manages(a) /\ Extendable(a)
    /\ k \notin LiveKeys(Record(a))
    /\ AddInstallation(k) \notin staged[a]
    /\ Restage(a, staged[a] \cup {AddInstallation(k)})

\* The name in force, while another is staged, drops the staged one.
StageSetDisplayName(a, n) ==
    /\ Idle /\ Manages(a) /\ Extendable(a)
    /\ LET others == staged[a] \ Renames
       IN  \/ /\ ~InForce(n, Record(a))
              /\ Restage(a, others \cup {SetDisplayName(n)})
           \/ /\ InForce(n, Record(a))
              /\ others # staged[a]
              /\ Restage(a, others)

StageRevoke(a, i) ==
    /\ Idle /\ Manages(a) /\ Extendable(a)
    /\ i \in Live(Record(a))
    /\ Revoke(i) \notin staged[a]
    /\ Restage(a, staged[a] \cup {Revoke(i)})

DiscardPending(a) ==
    /\ Idle /\ Manages(a)
    /\ staged' = [staged EXCEPT ![a] = {}]
    /\ UNCHANGED <<disk, unlocked, read, dropped, post, remote>>

-----------------------------------------------------------------------------
(* Publishing.  A locked account is refused before the store is read, and  *)
(* every publish plans against the log its own read adopted.               *)

MayPublish(a) == Idle /\ Manages(a) /\ staged[a] # {} /\ HasKey(a)

PublishReadFails(a) == MayPublish(a) /\ ReadFails(a)

\* The store already held every staged edit: answered, nothing to write.
PublishNotNeeded(a, log) ==
    /\ MayPublish(a)
    /\ ReadLands(a, log)
    /\ Settled(staged[a], log) = {}
    /\ staged' = [staged EXCEPT ![a] = {}]
    /\ dropped' = [dropped EXCEPT ![a] = 0]
    /\ UNCHANGED <<disk, unlocked, post, remote>>

PublishReads(a, log) ==
    /\ MayPublish(a)
    /\ ReadLands(a, log)
    /\ Settled(staged[a], log) # {}
    /\ staged' = [staged EXCEPT ![a] = Settled(staged[a], log)]
    /\ dropped' = [dropped EXCEPT ![a] = Owed(a, log)]
    /\ UNCHANGED <<disk, unlocked, remote>>

\* The read found a log that cannot be extended, or left no room in it.
PublishRefused(a, log) ==
    /\ PublishReads(a, log)
    /\ ~(Readable(log) /\ Fits(log, Settled(staged[a], log)))
    /\ UNCHANGED post

\* Fault: the first new index is taken before the read.
FirstNewBeforeRead(a, log) == Len(record[a])

\* The first entry the update writes: the length of the log it extends.
FirstNew(a, log) == Len(log)

\* The base is the log just read, so a store that moved on refuses the post.
PublishSends(a, log) ==
    /\ PublishReads(a, log)
    /\ Readable(log)
    /\ Fits(log, Settled(staged[a], log))
    /\ \E plan \in Plans(Settled(staged[a], log)) :
        /\ CanPushAll(log, plan)
        /\ post' = [fate |-> "sent", addr |-> a, firstNew |-> FirstNew(a, log),
                    plan |-> plan, log |-> log \o plan]

\* The store took the post and the core heard so: the log written is read
\* back in place of the store's.
PublishSucceeds ==
    /\ post.fate = "taken"
    /\ staged' = [staged EXCEPT ![post.addr] = {}]
    /\ dropped' = [dropped EXCEPT ![post.addr] = 0]
    /\ record' = [record EXCEPT ![post.addr] = post.log]
    /\ post' = NoPost
    /\ UNCHANGED <<disk, unlocked, answered, problem, remote>>

\* Fault: the edits are taken off the list before the store answers.
PublishDivergesDiscarding ==
    /\ post.fate = "refused"
    /\ post' = NoPost
    /\ staged' = [staged EXCEPT ![post.addr] = {}]
    /\ UNCHANGED <<disk, unlocked, read, dropped, remote>>

\* Fault: the log written is held for the next read before the store answers.
PublishDivergesHolding ==
    /\ post.fate = "refused"
    /\ post' = NoPost
    /\ record' = [record EXCEPT ![post.addr] = post.log]
    /\ UNCHANGED <<disk, unlocked, answered, problem, edits, remote>>

PublishDiverges ==
    /\ post.fate = "refused"
    /\ post' = NoPost
    /\ UNCHANGED <<disk, unlocked, read, edits, remote>>

\* The store answers with an error, or nothing comes within the timeout; what
\* was sent and not yet served may be served later.
PublishFails ==
    /\ post # NoPost
    /\ wire' = IF post.fate = "sent" /\ Cardinality(wire) < MaxLate
               THEN wire \cup {[addr |-> post.addr, log |-> post.log]}
               ELSE wire
    /\ post' = NoPost
    /\ UNCHANGED <<disk, unlocked, read, edits, store, versions>>

-----------------------------------------------------------------------------
(* The store, and everyone else.                                           *)

StoreTakes(a, log) ==
    /\ store' = [store EXCEPT ![a] = log]
    /\ versions' = [versions EXCEPT ![a] = @ \cup {log}]

\* A log is taken only where it extends the one held.
StoreServes ==
    /\ post.fate = "sent"
    /\ IF Extends(post.log, store[post.addr])
       THEN /\ StoreTakes(post.addr, post.log)
            /\ post' = [post EXCEPT !.fate = "taken"]
       ELSE /\ post' = [post EXCEPT !.fate = "refused"]
            /\ UNCHANGED <<store, versions>>
    /\ UNCHANGED <<disk, unlocked, read, edits, wire>>

StoreServesLate(m) ==
    /\ m \in wire
    /\ wire' = wire \ {m}
    /\ IF Extends(m.log, store[m.addr])
       THEN StoreTakes(m.addr, m.log)
       ELSE UNCHANGED <<store, versions>>
    /\ UNCHANGED <<disk, unlocked, read, edits, post>>

RequestLost(m) ==
    /\ m \in wire
    /\ wire' = wire \ {m}
    /\ UNCHANGED <<disk, unlocked, read, edits, post, store, versions>>

\* Another device, with the same key and perhaps a newer build, extends the
\* log the store holds.
OtherDevicePublishes(a, entry) ==
    /\ CanPush(store[a], entry)
    /\ Size(Append(store[a], entry)) <= Budget
    /\ StoreTakes(a, Append(store[a], entry))
    /\ UNCHANGED <<disk, unlocked, read, edits, post, wire>>

\* Another instance of the app, in the same directory, takes or forgets a
\* key, or starts or stops observing.
OtherInstanceWrites(a) ==
    /\ SharedVault
    /\ \/ /\ ~Manages(a)
          /\ \E s \in {"open", "sealed"} : vault' = [vault EXCEPT ![a] = s]
          /\ observed' \in {observed, observed \ {a}}
       \/ /\ Manages(a)
          /\ vault' = [vault EXCEPT ![a] = "absent"]
          /\ UNCHANGED observed
       \/ ~Knows(a) /\ observed' = observed \cup {a} /\ UNCHANGED vault
       \/ observed' = observed \ {a} /\ UNCHANGED vault
    /\ UNCHANGED <<unlocked, read, edits, post, remote>>

-----------------------------------------------------------------------------

\* The entries another device may append now.
OtherEntries(a) ==
    [op : {"key"}, key : Key, signer : BOOLEAN]
        \cup {Naming(n) : n \in Name}
        \cup {Removal(i) : i \in Live(store[a])}
        \cup {Unknown}

Accounts(a) ==
    \/ \E s \in {"open", "sealed"} : CreateAccount(a, s) \/ ImportAccount(a, s)
    \/ Unlock(a)
    \/ ForgetAccount(a)
    \/ Observe(a)
    \/ StopObserving(a)

Reading(a) == RefreshFails(a) \/ \E log \in Adoptable(a) : Refresh(a, log)

Staging(a) ==
    \/ \E k \in Key : StageAddInstallation(a, k)
    \/ \E n \in Name : StageSetDisplayName(a, n)
    \/ \E i \in Live(Record(a)) : StageRevoke(a, i)
    \/ DiscardPending(a)

Publishing(a) ==
    \/ PublishReadFails(a)
    \/ \E log \in Adoptable(a) :
        PublishNotNeeded(a, log) \/ PublishRefused(a, log) \/ PublishSends(a, log)

Others(a) ==
    \/ \E entry \in OtherEntries(a) : OtherDevicePublishes(a, entry)
    \/ OtherInstanceWrites(a)

Next ==
    \/ \E a \in Addr :
        Accounts(a) \/ Reading(a) \/ Staging(a) \/ Publishing(a) \/ Others(a)
    \/ PublishSucceeds \/ PublishDiverges \/ PublishFails
    \/ StoreServes
    \/ \E m \in wire : StoreServesLate(m) \/ RequestLost(m)

Spec == Init /\ [][Next]_vars

-----------------------------------------------------------------------------
(* Properties.                                                             *)

Logs == Seq(Entry)

Post ==
    [fate : {"sent", "taken", "refused"}, addr : Addr, firstNew : Nat,
     plan : Logs, log : Logs]

\* Every variable keeps its type.
TypeOK ==
    /\ store \in [Addr -> Logs]
    /\ versions \in [Addr -> SUBSET Logs]
    /\ vault \in [Addr -> Spellings]
    /\ observed \subseteq Addr
    /\ unlocked \subseteq Addr
    /\ record \in [Addr -> Logs]
    /\ answered \in [Addr -> BOOLEAN]
    /\ problem \in [Addr -> Problems]
    /\ staged \in [Addr -> SUBSET Edit]
    /\ \A a \in Addr : IsFiniteSet(staged[a])
    /\ dropped \in [Addr -> Nat]
    /\ post \in Post \cup {NoPost}
    /\ wire \subseteq [addr : Addr, log : Logs]

\* Every staged edit is still to be written, and at most one of them is a
\* name, wherever the log they are planned against is one this app shows and
\* can extend.
PlanApplies ==
    \A a \in Addr :
        (answered[a] /\ record[a] # <<>> /\ Readable(record[a])) =>
            /\ \A e \in staged[a] : Pending(e, record[a])
            /\ \A e, f \in staged[a] \cap Renames : e = f

\* "Left staged, each would fail the whole update" (settle): whatever other
\* devices wrote since, what is staged never plans an update that the log's
\* own rules refuse, in whichever order its edits are listed.
PlanNeverRefused ==
    \A a \in Addr :
        (answered[a] /\ Readable(record[a])) =>
            \A plan \in Plans(staged[a]) : CanPushAll(record[a], plan)

\* The log held is one the store has had, however late its answers: it never
\* holds an entry the store does not.
RecordWithinStore == \A a \in Addr : Extends(store[a], record[a])

\* The log held is adopted only where it extends the one before it: what was
\* verified once is never taken back by a later read or publish.
RecordNeverRollsBack ==
    [][\A a \in Addr : Extends(record'[a], record[a])]_record

\* The entries of a post the store took are in the store's log from the index
\* the publish answers (Published.first_new_index), whole and in order, and
\* stay there.
TakenWhereSaid ==
    post.fate = "taken" =>
        \A n \in DOMAIN post.plan :
            /\ post.firstNew + n <= Len(store[post.addr])
            /\ store[post.addr][post.firstNew + n] = post.plan[n]

\* What e asks for is what log says.
Holds(log, e) ==
    CASE e.edit = "add"    -> e.key \in LiveKeys(log)
      [] e.edit = "rename" -> InForce(e.name, log)
      [] e.edit = "revoke" -> \E i \in DOMAIN log : log[i] = Removal(e.index)

\* A staged edit is given up only by the person who staged it, or because a
\* log the store took did what it asks.
StagedLeavesOnlyWhenHeld ==
    [][\A a \in Addr : \A e \in staged[a] \ staged'[a] :
        \/ \E log \in versions[a] : Holds(log, e)
        \/ DiscardPending(a)
        \/ ForgetAccount(a)
        \/ \E n \in Name : StageSetDisplayName(a, n)]_vars

KeyLeft(a)   == a \in unlocked /\ vault[a] # "sealed"
EditsLeft(a) == staged[a] # {} /\ ~Manages(a)
ReadLeft(a)  == (answered[a] \/ problem[a] # "none" \/ dropped[a] # 0) /\ ~Knows(a)

\* No call of this app leaves behind a key in memory of an account that it
\* does not hold sealed, edits of one it does not hold, or what was read of
\* one it does not know: an account taken again starts unread, with nothing
\* staged.  Only another instance that writes the directory meanwhile can.
NothingLeftBehind ==
    [][\A a \in Addr :
        Accounts(a) \/ ~OtherInstanceWrites(a) =>
            /\ KeyLeft(a)' => KeyLeft(a)
            /\ EditsLeft(a)' => EditsLeft(a)
            /\ ReadLeft(a)' => ReadLeft(a)]_vars

\* The store's logs, seen from outside, are append-only, well formed and
\* within budget, one whole update at a time.
Service == INSTANCE AccountLogService WITH log <- store
ServiceContract == Service!Spec

\* "Answers how many were dropped since the last answer" (refresh): a count
\* not answered yet is given up only with the account's key, or when the
\* address, managed and observed both, stops being observed.
DropsReachAnAnswer ==
    [][\A a \in Addr :
        dropped'[a] < dropped[a] =>
            \/ \E log \in Adoptable(a) : Refresh(a, log) \/ PublishNotNeeded(a, log)
            \/ PublishSucceeds
            \/ ForgetAccount(a)
            \/ StopObserving(a)]_vars
=============================================================================
