------------------------------ MODULE Backend -------------------------------
(***************************************************************************)
(* The Qt backend (src/AccountLogBackend.cpp): every call of the person's  *)
(* runs on a one-thread pool and comes back through the event loop, where  *)
(* its reply changes what is on screen and may chain further calls.        *)
(*                                                                         *)
(* The pool's queue and the event loop's are first in, first out.  A call  *)
(* runs in one step: what the event loop does meanwhile does not reach the *)
(* core, and what the core does does not reach the screen.                 *)
(*                                                                         *)
(* Of the core this module keeps which accounts it has, managed or         *)
(* observed, how their last reads went, and whether anything is staged or  *)
(* was dropped (AccountCore is about the rest).                            *)
(***************************************************************************)
EXTENDS Integers, Sequences, FiniteSets

CONSTANTS
    Addr,       \* accounts
    Buttons,    \* bound: what the person presses
    Patient,    \* bound: what the person presses only while busy is off
    MaxCalls,   \* bound: how many times
    MaxFaults   \* bound: how many times the vault cannot be read

None == "none"  \* the empty address

ASSUME BackendAssumption ==
    MaxCalls \in Nat /\ MaxFaults \in Nat /\ None \notin Addr

VARIABLES
    held,     \* the accounts the core has
    unread,   \* unread[a]: the last read of a's log from the store failed
    reread,   \* reread[a]: it was read since the last publish that wrote it
    staged,   \* the accounts with edits staged
    owed,     \* those with edits dropped that no call has answered yet
    opened,   \* m_core: whether the core could start
    queue,    \* the pool's calls, the next one first
    replies,  \* the replies queued on the event loop
    inFlight, \* m_inFlight
    busy,     \* the busy property
    ready,    \* m_contextReady
    ui,       \* the properties the screen is drawn from, and m_dropped
    current,  \* whether the listing and the state drawn are still the core's,
              \* and whether an import that failed half way is still unlisted
    presses,  \* how many times the person pressed something
    faults    \* how many times the vault could not be read

core == <<held, unread, reread, staged, owed>>
vars == <<held, unread, reread, staged, owed, opened, queue, replies, inFlight,
          busy, ready, ui, current, presses, faults>>

-----------------------------------------------------------------------------
(* Calls and replies.                                                      *)

\* A call captures its address.  A read of the store captures m_selection too,
\* to ask whether it is the same still: wanted is the answer.
Call(what, a) == [what |-> what, addr |-> a, wanted |-> TRUE]

\* To stage is to add an installation or set a name, in a sheet; to retract is
\* to stage a revocation or discard what is staged, with a button on the log.
Stagings == {"stage", "retract"}
Takings  == {"createAccount", "importAccount", "observeAccount"}
Leavings == {"forgetAccount", "stopObserving"}
Calls == Stagings \cup Takings \cup Leavings
            \cup {"accounts", "state", "refresh", "publish"}
            \cup {"unlock", "exportAccount"}

\* What the library answers a call with: how it went, the accounts listed,
\* whether edits were dropped, whether a publish wrote, whether an account
\* taken was there already.  fresh: the core has not changed since.
Answer(c, how) ==
    [call |-> c, how |-> how, fresh |-> TRUE, listed |-> {},
     dropped |-> FALSE, wrote |-> FALSE, again |-> FALSE]

Quiet == [kind |-> "none", about |-> None]
Notice(kind, a) == [kind |-> kind, about |-> a]

-----------------------------------------------------------------------------
(* What the handlers are made of: each takes what is on screen, u, and says *)
(* what then is, or which calls follow.                                     *)

\* The one way the selection changes.
Select(u, a) ==
    [u EXCEPT !.moved = TRUE, !.selected = a, !.firstNew = None,
              !.notice = IF a \in u.away THEN Notice("dropped", a) ELSE Quiet,
              !.away = @ \ {a}]

ReloadAccounts == <<Call("accounts", None)>>

\* Fault: whatever draws an account's state reads the store again.
ReloadStateAndRead(u) ==
    <<Call("state", u.selected), Call("refresh", u.selected)>>

\* Only where an account is selected.
ReloadState(u) == <<Call("state", u.selected)>>

Read(u) ==
    IF u.selected = None THEN ReloadAccounts
    ELSE <<Call("refresh", u.selected)>>

Reading(u) ==
    IF u.selected = None THEN u ELSE [u EXCEPT !.status = "reading"]

\* Calls made for a selection that u has moved past.
Passed(u, c) ==
    IF u.moved /\ c.what = "refresh" THEN [c EXCEPT !.wanted = FALSE] ELSE c
PassedCalls(u, cs) == [n \in DOMAIN cs |-> Passed(u, cs[n])]
PassedReplies(u, rs) ==
    [n \in DOMAIN rs |-> [rs[n] EXCEPT !.call = Passed(u, @)]]

\* Fault: a newly selected account is not read.
NewlyOnScreenUnread(u) == [screen |-> u, calls |-> ReloadState(u)]

\* An account newly on screen has not been read yet this session.
NewlyOnScreen(u) ==
    IF ready THEN [screen |-> Reading(u), calls |-> ReloadState(u) \o Read(u)]
    ELSE [screen |-> u, calls |-> ReloadState(u)]

\* An edit's notice described the log before it.
Edited(u) == [u EXCEPT !.notice = Quiet]

\* Some calls have nowhere but the banner to say that they failed.
Report(u, c) ==
    IF c.what \in {"retract", "stopObserving"}
    THEN [u EXCEPT !.notice = Notice("error", c.addr)] ELSE u

VaultUnread(u) == [u EXCEPT !.status = "vault", !.vaultProblem = TRUE]

-----------------------------------------------------------------------------
(* The person.  The slots take a call at any time, busy or not.            *)

Init ==
    /\ held \in SUBSET Addr
    /\ unread = [a \in Addr |-> FALSE]
    /\ reread = [a \in Addr |-> TRUE]
    /\ staged = {}
    /\ owed = {}
    /\ opened \in BOOLEAN
    /\ queue = IF opened THEN ReloadAccounts ELSE <<>>
    /\ replies = <<>>
    /\ inFlight = Len(queue)
    /\ busy = opened
    /\ ready = FALSE
    /\ ui = [selected |-> None, moved |-> FALSE, list |-> {}, shown |-> None,
             vaultProblem |-> ~opened, storeProblem |-> FALSE,
             status |-> IF opened THEN "ready" ELSE "vault",
             firstNew |-> None, notice |-> Quiet, away |-> {}]
    /\ current = [list |-> FALSE, shown |-> TRUE, missed |-> FALSE]
    /\ presses = 0
    /\ faults = 0

\* The event loop puts u on screen and gives the pool calls, if there is a
\* core to make them of.
Start(u, calls) ==
    LET made == IF opened THEN calls ELSE <<>>
    IN  /\ ui' = [u EXCEPT !.moved = FALSE]
        /\ queue' = PassedCalls(u, queue) \o made
        /\ replies' = PassedReplies(u, replies)
        /\ inFlight' = inFlight + Len(made)
        /\ busy' = (busy \/ made # <<>>)
        /\ UNCHANGED <<core, opened, current, faults>>

ContextReady ==
    /\ ~ready
    /\ ready' = TRUE
    /\ IF ui.selected # None THEN Start(Reading(ui), Read(ui))
       ELSE Start(ui, <<>>)
    /\ UNCHANGED presses

Press(button, u, calls) ==
    /\ button \in Buttons
    /\ button \in Patient => ~busy
    /\ presses < MaxCalls
    /\ presses' = presses + 1
    /\ Start(u, calls)
    /\ UNCHANGED ready

Refresh == Press("refresh", Reading(ui), Read(ui))

SelectAccount(a) ==
    /\ a \in ui.list /\ a # ui.selected
    /\ LET u == Reading(Select(ui, a))
       IN  Press("selectAccount", u, ReloadState(u) \o Read(u))

Ask(what, a) == Press(what, ui, <<Call(what, a)>>)

CreateAccount    == Ask("createAccount", None)
ImportAccount(a)  == Ask("importAccount", a)
ObserveAccount(a) == Ask("observeAccount", a)

\* What the view asks of a listed account.
Unlock(a)        == a \in ui.list /\ Ask("unlock", a)
ExportAccount(a) == a \in ui.list /\ Ask("exportAccount", a)
ForgetAccount(a) == a \in ui.list /\ Ask("forgetAccount", a)
StopObserving(a) == a \in ui.list /\ Ask("stopObserving", a)

\* What the view asks of the selected one.
Stage   == ui.selected # None /\ Ask("stage", ui.selected)
Retract == ui.selected # None /\ Ask("retract", ui.selected)

\* An index below zero is refused on the spot.
RevokeBeforeFirst ==
    /\ ui.selected # None
    /\ Press("retract", Report(ui, Call("retract", ui.selected)), <<>>)

Publish ==
    /\ ui.selected # None
    /\ Press("publish", [ui EXCEPT !.status = "publishing"],
             <<Call("publish", ui.selected)>>)

DismissNotice ==
    /\ ui.notice # Quiet
    /\ Press("dismissNotice", [ui EXCEPT !.notice = Quiet], <<>>)

Person ==
    \/ ContextReady \/ Refresh \/ CreateAccount \/ Stage \/ Retract
    \/ RevokeBeforeFirst \/ Publish \/ DismissNotice
    \/ \E a \in Addr :
        \/ SelectAccount(a) \/ ImportAccount(a) \/ ObserveAccount(a)
        \/ Unlock(a) \/ ExportAccount(a) \/ ForgetAccount(a) \/ StopObserving(a)

-----------------------------------------------------------------------------
(* The pool: the head of the queue runs against the core.                  *)

Running(what) == queue # <<>> /\ Head(queue).what = what

Answers(r) ==
    /\ queue' = Tail(queue)
    /\ replies' = Append(replies, r)
    /\ UNCHANGED <<opened, inFlight, busy, ready, ui, presses>>

\* The core has not changed.
AnswersAsItIs(r) == Answers(r) /\ UNCHANGED <<core, current, faults>>

\* No listing, and no state of a, made before the core changed a is its last
\* word.
Outdated(rs, a) ==
    [n \in DOMAIN rs |->
        IF \/ rs[n].call.what = "accounts"
           \/ rs[n].call.what = "state" /\ rs[n].call.addr = a
        THEN [rs[n] EXCEPT !.fresh = FALSE] ELSE rs[n]]

\* The core has changed a.
AnswersAfter(a, r) ==
    /\ queue' = Tail(queue)
    /\ replies' = Append(Outdated(replies, a), r)
    /\ current' = [current EXCEPT !.list = FALSE, !.shown = @ /\ ui.shown # a]
    /\ UNCHANGED <<opened, inFlight, busy, ready, ui, presses, faults>>

\* The last read of a went so, and was made since the last publish or not.
ReadSo(a, read, again) ==
    /\ unread' = [unread EXCEPT ![a] = ~read]
    /\ reread' = [reread EXCEPT ![a] = again]
    /\ UNCHANGED held

\* A read of the store for an account since left is not made.
RunSkips ==
    /\ Running("refresh")
    /\ ~Head(queue).wanted
    /\ AnswersAsItIs(Answer(Head(queue), "skipped"))

\* A call can be refused with nothing changed.
RunRefused ==
    /\ queue # <<>>
    /\ Head(queue).what \notin {"accounts", "state", "refresh"}
    /\ AnswersAsItIs(Answer(Head(queue), "refused"))

\* A state or a read is refused of an account that is not there.
RunUnknown ==
    /\ Running("state") \/ Running("refresh")
    /\ Head(queue).wanted
    /\ Head(queue).addr \notin held
    /\ AnswersAsItIs(Answer(Head(queue), "refused"))

\* The vault, or the list of observed accounts, cannot be read.
RunVaultFails ==
    /\ Running("accounts") \/ Running("state") \/ Running("refresh")
    /\ Head(queue).wanted
    /\ faults < MaxFaults
    /\ faults' = faults + 1
    /\ Answers(Answer(Head(queue), "refused"))
    /\ UNCHANGED <<core, current>>

RunAccounts ==
    /\ Running("accounts")
    /\ AnswersAsItIs([Answer(Head(queue), "ok") EXCEPT !.listed = held])

RunState ==
    /\ Running("state")
    /\ Head(queue).addr \in held
    /\ AnswersAsItIs(Answer(Head(queue), "ok"))

\* What the store already holds of the edits staged is dropped.
RunRefresh ==
    /\ Running("refresh")
    /\ Head(queue).wanted
    /\ LET c == Head(queue)
       IN  /\ c.addr \in held
           /\ ReadSo(c.addr, TRUE, TRUE)
           /\ staged' \in {staged, staged \ {c.addr}}
           /\ owed' = owed \ {c.addr}
           /\ \E d \in BOOLEAN :
                /\ (staged' # staged \/ owed' # owed) => d
                /\ d => c.addr \in staged \cup owed
                /\ AnswersAfter(c.addr, [Answer(c, "ok") EXCEPT !.dropped = d])

RunRefreshFails ==
    /\ Running("refresh")
    /\ Head(queue).wanted
    /\ LET c == Head(queue)
       IN  /\ c.addr \in held
           /\ ReadSo(c.addr, FALSE, reread[c.addr])
           /\ AnswersAfter(c.addr, Answer(c, "refused"))
    /\ UNCHANGED <<staged, owed>>

\* A generated key is new; an imported or observed one may be there already.
RunTakes ==
    \E what \in Takings, a \in Addr :
        /\ Running(what)
        /\ what = "createAccount" => a \notin held
        /\ what # "createAccount" => a = Head(queue).addr
        /\ held' = held \cup {a}
        /\ UNCHANGED <<unread, reread, staged, owed>>
        /\ \E again \in BOOLEAN :
            /\ again => a \in held
            /\ AnswersAfter(a, [Answer([Head(queue) EXCEPT !.addr = a], "ok")
                                   EXCEPT !.again = again])

\* The key of an observed account is taken, and the list cannot be written.
RunImportsHalf ==
    /\ Running("importAccount")
    /\ LET c == Head(queue)
       IN  /\ c.addr \in held
           /\ queue' = Tail(queue)
           /\ replies' = Append(Outdated(replies, c.addr), Answer(c, "refused"))
           /\ current' = [list |-> FALSE, missed |-> TRUE,
                          shown |-> current.shown /\ ui.shown # c.addr]
    /\ UNCHANGED <<core, opened, inFlight, busy, ready, ui, presses, faults>>

\* An account both managed and observed stays when it stops being either.
RunLeaves ==
    \E what \in Leavings :
        /\ Running(what)
        /\ LET a == Head(queue).addr
           IN  /\ a \in held
               /\ staged' = IF what = "forgetAccount" THEN staged \ {a} ELSE staged
               /\ held' \in {held, held \ {a}}
               /\ a \in staged' => a \in held'
               /\ unread' = [unread EXCEPT ![a] = FALSE]
               /\ owed' = owed \ {a}
               /\ UNCHANGED reread
               /\ AnswersAfter(a, Answer(Head(queue), "ok"))

RunUnlock ==
    /\ Running("unlock")
    /\ Head(queue).addr \in held
    /\ AnswersAfter(Head(queue).addr, Answer(Head(queue), "ok"))
    /\ UNCHANGED core

\* The key goes to the view, and nothing changes.
RunExport ==
    /\ Running("exportAccount")
    /\ Head(queue).addr \in held
    /\ AnswersAsItIs(Answer(Head(queue), "ok"))

RunEdits ==
    \E what \in Stagings :
        /\ Running(what)
        /\ LET a == Head(queue).addr
           IN  /\ a \in held
               /\ staged' \in {staged \cup {a}, staged \ {a}}
               /\ AnswersAfter(a, Answer(Head(queue), "ok"))
        /\ UNCHANGED <<held, unread, reread, owed>>

\* A publish reads the store, and then writes what is left to write, or
\* answers that nothing is.
RunPublish ==
    /\ Running("publish")
    /\ LET c == Head(queue)
       IN  /\ c.addr \in staged
           /\ staged' = staged \ {c.addr}
           /\ owed' = owed \ {c.addr}
           /\ \E wrote, d \in BOOLEAN :
                /\ (~wrote \/ owed' # owed) => d
                /\ ReadSo(c.addr, TRUE, ~wrote)
                /\ AnswersAfter(c.addr, [Answer(c, "ok")
                        EXCEPT !.wrote = wrote, !.dropped = d])

\* It fails with the store read, and perhaps edits dropped, or not read.
RunPublishFails ==
    /\ Running("publish")
    /\ LET c == Head(queue)
       IN  /\ c.addr \in staged
           /\ \/ /\ ReadSo(c.addr, TRUE, TRUE)
                 /\ owed' \in {owed, owed \cup {c.addr}}
              \/ /\ ReadSo(c.addr, FALSE, reread[c.addr])
                 /\ UNCHANGED owed
           /\ AnswersAfter(c.addr, Answer(c, "refused"))
    /\ UNCHANGED staged

Pool ==
    \/ RunSkips \/ RunRefused \/ RunUnknown \/ RunVaultFails \/ RunAccounts
    \/ RunState \/ RunRefresh \/ RunRefreshFails \/ RunTakes \/ RunImportsHalf
    \/ RunLeaves \/ RunUnlock \/ RunExport \/ RunEdits
    \/ RunPublish \/ RunPublishFails

-----------------------------------------------------------------------------
(* The event loop: the first reply lands.                                  *)

Landing(what, how) ==
    /\ replies # <<>>
    /\ Head(replies).call.what = what
    /\ Head(replies).how = how

\* Fault: the calls a handler chains are not counted.
FinishUncounted(u, calls) ==
    /\ ui' = [u EXCEPT !.moved = FALSE]
    /\ replies' = PassedReplies(u, Tail(replies))
    /\ queue' = PassedCalls(u, queue) \o calls
    /\ inFlight' = inFlight - 1
    /\ busy' = (inFlight' # 0)
    /\ UNCHANGED <<core, opened, ready, presses, faults>>

\* The handler has run; the calls it chained are counted before its own ends.
Finish(u, calls) ==
    /\ ui' = [u EXCEPT !.moved = FALSE]
    /\ replies' = PassedReplies(u, Tail(replies))
    /\ queue' = PassedCalls(u, queue) \o calls
    /\ inFlight' = inFlight + Len(calls) - 1
    /\ busy' = (inFlight' # 0)
    /\ UNCHANGED <<core, opened, ready, presses, faults>>

\* Fault: a call no longer wanted ends without being counted off.
LandSkippedUncounted ==
    /\ Landing("refresh", "skipped")
    /\ replies' = Tail(replies)
    /\ UNCHANGED <<core, opened, queue, inFlight, busy, ready, ui, current,
                   presses, faults>>

LandSkipped ==
    /\ Landing("refresh", "skipped")
    /\ Finish(ui, <<>>)
    /\ UNCHANGED current

\* A listing made since the core last changed has everything in it.
Listed(r) == [current EXCEPT !.list = r.fresh, !.missed = @ /\ ~r.fresh]

\* The selection is held across a listing, and falls to the first account
\* when what was selected is gone, or nothing was.
LandAccounts ==
    /\ Landing("accounts", "ok")
    /\ LET r == Head(replies)
           u == [ui EXCEPT !.list = r.listed, !.vaultProblem = FALSE]
       IN  \/ /\ r.listed = {}
              /\ Finish([Select(u, None) EXCEPT !.shown = None,
                                                !.status = "empty"], <<>>)
              /\ current' = [Listed(r) EXCEPT !.shown = TRUE]
           \/ /\ ui.selected \in r.listed
              /\ Finish(u, ReloadState(u))
              /\ current' = Listed(r)
           \/ /\ ui.selected \notin r.listed
              /\ \E first \in r.listed :
                    LET n == NewlyOnScreen(Select(u, first))
                    IN  Finish(n.screen, n.calls)
              /\ current' = Listed(r)

LandAccountsRefused ==
    /\ Landing("accounts", "refused")
    /\ Finish(VaultUnread(ui), <<>>)
    /\ UNCHANGED current

LandState ==
    /\ Landing("state", "ok")
    /\ LET r == Head(replies)
       IN  IF r.call.addr # ui.selected
           THEN Finish(ui, <<>>) /\ UNCHANGED current
           ELSE /\ Finish([ui EXCEPT !.vaultProblem = FALSE,
                                     !.shown = r.call.addr], <<>>)
                /\ current' = [current EXCEPT !.shown = r.fresh]

LandStateRefused ==
    /\ Landing("state", "refused")
    /\ Finish(IF Head(replies).call.addr # ui.selected THEN ui
              ELSE VaultUnread(ui), <<>>)
    /\ UNCHANGED current

\* What a read dropped is said of the account on screen, and kept for one
\* that is not.
Dropping(u, r) ==
    IF ~r.dropped THEN u
    ELSE IF r.call.addr = u.selected
    THEN [u EXCEPT !.notice = Notice("dropped", u.selected)]
    ELSE [u EXCEPT !.away = @ \cup {r.call.addr}]

LandRefresh ==
    /\ Landing("refresh", "ok")
    /\ LET r == Head(replies)
           u == Dropping(ui, r)
       IN  Finish(IF r.call.wanted
                  THEN [u EXCEPT !.status = "ready", !.storeProblem = FALSE,
                                 !.firstNew = None]
                  ELSE u,
                  ReloadAccounts)
    /\ UNCHANGED current

\* Fault: a read that failed draws nothing again.
LandRefreshRefusedAlone ==
    /\ Landing("refresh", "refused")
    /\ Finish(IF Head(replies).call.wanted
              THEN [ui EXCEPT !.status = "store", !.storeProblem = TRUE] ELSE ui,
              <<>>)
    /\ UNCHANGED current

\* The vault answers whether or not the store does.
LandRefreshRefused ==
    /\ Landing("refresh", "refused")
    /\ Finish(IF Head(replies).call.wanted
              THEN [ui EXCEPT !.status = "store", !.storeProblem = TRUE] ELSE ui,
              ReloadAccounts)
    /\ UNCHANGED current

\* An account taken goes on screen; one that was there already is said to be.
LandTaken ==
    \E what \in Takings :
        /\ Landing(what, "ok")
        /\ LET r == Head(replies)
               s == Select(ui, r.call.addr)
               u == Reading(IF r.again
                            THEN [s EXCEPT !.notice = Notice("held", r.call.addr)]
                            ELSE s)
           IN  Finish(u, ReloadAccounts \o ReloadState(u) \o Read(u))
        /\ UNCHANGED current

LandUnlocked ==
    /\ Landing("unlock", "ok")
    /\ Finish(ui, ReloadAccounts)
    /\ UNCHANGED current

LandExported ==
    /\ Landing("exportAccount", "ok")
    /\ Finish(ui, <<>>)
    /\ UNCHANGED current

LandLeft ==
    \E what \in Leavings :
        /\ Landing(what, "ok")
        /\ LET a == Head(replies).call.addr
               u == [ui EXCEPT !.away = @ \ {a}]
           IN  Finish(IF a = ui.selected THEN Select(u, None) ELSE u,
                      ReloadAccounts)
        /\ UNCHANGED current

LandEdited ==
    \E what \in Stagings :
        /\ Landing(what, "ok")
        /\ Finish(Edited(ui), ReloadAccounts)
        /\ UNCHANGED current

LandRefused ==
    \E what \in Calls \ {"accounts", "state", "refresh", "publish"} :
        /\ Landing(what, "refused")
        /\ Finish(Report(ui, Head(replies).call), <<>>)
        /\ UNCHANGED current

\* Fault: what a publish wrote is marked whatever account is on screen.
PublishedOnAny(u, r) ==
    IF r.wrote THEN [u EXCEPT !.firstNew = r.call.addr,
                              !.notice = Notice("published", r.call.addr)]
    ELSE [u EXCEPT !.notice = Notice("dropped", r.call.addr)]

\* The person may have moved to another account while the store answered.
Published(u, r) ==
    IF r.call.addr # u.selected \/ ~r.wrote THEN Dropping(u, r)
    ELSE [u EXCEPT !.firstNew = r.call.addr,
                   !.notice = Notice("published", r.call.addr)]

LandPublished ==
    /\ Landing("publish", "ok")
    /\ Finish(Published([ui EXCEPT !.status = "ready", !.storeProblem = FALSE],
                        Head(replies)),
              ReloadAccounts)
    /\ UNCHANGED current

\* Fault: a publish refused is never followed by a read.
LandPublishRefusedUnread ==
    /\ Landing("publish", "refused")
    /\ Finish(ui, ReloadAccounts)
    /\ UNCHANGED current

\* A publish refused reads the store again, which says whose refusal it was.
LandPublishRefused ==
    /\ Landing("publish", "refused")
    /\ IF Head(replies).call.addr # ui.selected THEN Finish(ui, ReloadAccounts)
       ELSE Finish(Reading(ui), Read(ui))
    /\ UNCHANGED current

EventLoop ==
    \/ LandSkipped \/ LandAccounts \/ LandAccountsRefused \/ LandState
    \/ LandStateRefused \/ LandRefresh \/ LandRefreshRefused \/ LandTaken
    \/ LandUnlocked \/ LandExported \/ LandLeft \/ LandEdited \/ LandRefused
    \/ LandPublished \/ LandPublishRefused

Next == Person \/ Pool \/ EventLoop

Spec == Init /\ [][Next]_vars

\* The pool's thread and the event loop go on; nobody has to press anything.
FairSpec == Spec /\ WF_vars(Pool) /\ WF_vars(EventLoop)

-----------------------------------------------------------------------------
(* Properties.                                                             *)

MaybeAddr == Addr \cup {None}

CallType == [what : Calls, addr : MaybeAddr, wanted : BOOLEAN]

NoticeType ==
    [kind : {"none", "dropped", "held", "published", "error"}, about : MaybeAddr]

ReplyType ==
    [call : CallType, how : {"ok", "refused", "skipped"}, fresh : BOOLEAN,
     listed : SUBSET Addr, dropped : BOOLEAN, wrote : BOOLEAN, again : BOOLEAN]

ScreenType ==
    [selected : MaybeAddr, moved : BOOLEAN, list : SUBSET Addr,
     shown : MaybeAddr, vaultProblem : BOOLEAN, storeProblem : BOOLEAN,
     status : {"ready", "reading", "publishing", "store", "vault", "empty"},
     firstNew : MaybeAddr, notice : NoticeType, away : SUBSET Addr]

\* Every variable keeps its type: the count of calls in flight never goes
\* below zero.
TypeOK ==
    /\ held \subseteq Addr
    /\ unread \in [Addr -> BOOLEAN]
    /\ reread \in [Addr -> BOOLEAN]
    /\ staged \subseteq held
    /\ owed \subseteq Addr
    /\ queue \in Seq(CallType)
    /\ replies \in Seq(ReplyType)
    /\ inFlight \in Nat
    /\ busy \in BOOLEAN
    /\ opened \in BOOLEAN
    /\ ready \in BOOLEAN
    /\ ui \in ScreenType
    /\ current \in [list : BOOLEAN, shown : BOOLEAN, missed : BOOLEAN]
    /\ presses \in 0..MaxCalls
    /\ faults \in 0..MaxFaults

\* "busy holds across the chain rather than dropping between its links"
\* (call): the buttons are off while anything is queued, running or about to
\* land, and on again as soon as nothing is.
BusyWhileWorking == busy <=> (queue \o replies # <<>>)

\* The chains of reads draw everything again: when the last call has landed,
\* and the vault could be read, the screen lists the accounts the core has,
\* one of them is selected if there is any, and its state is the core's last
\* word on it.  Not so after an import that took the key and then failed: it
\* is answered like one that did nothing, and is listed by the next call.
SettledScreen ==
    (~busy /\ ~ui.vaultProblem /\ ~current.missed) =>
        /\ current.list /\ ui.list = held
        /\ IF held = {} THEN ui.selected = None
           ELSE ui.selected \in held /\ ui.shown = ui.selected /\ current.shown

\* What describes an account (the entries just published, what was dropped,
\* that it was here already) is only ever on screen with that account,
\* whichever moved first.
SaidOfSelected ==
    /\ ui.firstNew \in {None, ui.selected}
    /\ ui.notice.kind \in {"dropped", "held", "published"} =>
           ui.notice.about = ui.selected

\* storeProblem is "why the last read of the store failed": once everything
\* has landed, an account on screen whose last read failed says so.
ReadFailureTold ==
    (~busy /\ ready /\ ui.selected \in held /\ unread[ui.selected]) =>
        ui.storeProblem

\* statusText is "what the app is doing, or last did": once everything has
\* landed it no longer says that the store is being read or written.
StatusSettles ==
    (~busy /\ ready) => ui.status \notin {"reading", "publishing"}

\* firstNewIndex is "-1 once the store is read again": when everything has
\* landed, the entries marked as just published are the last publish's.
MarksAreOurs == (~busy /\ ui.firstNew # None) => ~reread[ui.firstNew]

\* m_dropped is "said once it is back": what was dropped of an account off
\* screen is said on its return, unless the account was given up.
DropsAreSaid ==
    [][\A a \in ui.away \ ui'.away :
        ui'.notice = Notice("dropped", a) \/ LandLeft]_vars

\* Every chain of calls ends: once the person stops, the buttons come back.
CallsSettle == busy ~> ~busy
=============================================================================
