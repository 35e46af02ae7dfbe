-------------------------------- MODULE View --------------------------------
(***************************************************************************)
(* The view (src/qml) against the backend it is a process away from.       *)
(*                                                                         *)
(* The host runs the view, a ui-host child of it runs the backend, and one *)
(* local socket joins them: what the person presses is a call on its way   *)
(* up, what the backend says a message on its way down, each in order and  *)
(* neither at once.  What the view sees of the backend's properties        *)
(* (accountlog_ui.rep) is thus as old as the messages it has heard.        *)
(*                                                                         *)
(* Of the backend this module keeps which account is selected, drawn and   *)
(* listed, whether it is busy, and what it chains to what; Backend is about *)
(* the rest of it.  A refused read of the store, and the signals no part   *)
(* of the view listens for, change nothing here.                           *)
(***************************************************************************)
EXTENDS Naturals, FiniteSets, SequencesExt

CONSTANTS
    Addr,       \* accounts
    MaxPresses, \* bound: the calls the person makes
    MaxUnheard, \* bound: what the view has not heard when the backend goes on
    MayStop     \* whether the ui-host child may stop

None == "none"  \* the empty address, no sheet, no call

ASSUME ViewAssumption ==
    /\ MaxPresses \in Nat /\ MaxUnheard \in Nat /\ MayStop \in BOOLEAN
    /\ None \notin Addr

VARIABLES
    ready,    \* Store.ready: the view believes the backend is there
    seen,     \* the backend's properties, as last heard
    screen,   \* the screen last asked for
    sheet,    \* the sheet that is up, named after the call it makes
    awaiting, \* the call that sheet waits on
    keyUp,    \* whether an exported key is shown, over everything else
    meant,    \* the account drawn as that sheet opened
    up,       \* calls on their way to the backend
    down,     \* what the backend has said, on its way to the view
    alive,    \* the ui-host child runs
    here,     \* the backend's properties
    held,     \* the accounts the core has
    broken,   \* the vault cannot be read
    jobs,     \* the calls in flight, the next one first
    past,     \* how many of those, the first ones, m_selection has moved past
    presses   \* how many calls the person has made

view    == <<ready, seen, screen, sheet, awaiting, keyUp, meant>>
backend == <<alive, here, held, broken, jobs, past>>
vars    == <<view, up, down, backend, presses>>

Sheets == {"observeAccount", "stage", "publish", "unlock", "exportAccount", "forgetAccount"}
Takes  == {"createAccount", "importAccount"}
\* Made of whatever account is selected when the call arrives.
OfSelected == {"stage", "stageRevoke", "discardPending", "publish"}
\* Calls that put another account on screen, or none.
Moves == Takes \cup {"observeAccount", "selectAccount", "forgetAccount", "stopObserving"}
Calls == Sheets \cup OfSelected \cup Moves \cup {"refresh", "accounts", "state"}

Call(what, a) == [what |-> what, addr |-> a, meant |-> None]

Properties == [selected : Addr \cup {None}, shown : Addr \cup {None}, list : SUBSET Addr,
               busy : BOOLEAN, problem : BOOLEAN]

-----------------------------------------------------------------------------
(* What the view derives from what it sees (Store.qml).                    *)

\* Fault: the state held is drawn whosever it is.
DrawnAnyway == IF ready THEN seen.shown ELSE None

\* Until the selected account's state lands, the one held is another's, and
\* nothing on screen may act on it.
Drawn == IF ready /\ seen.shown = seen.selected THEN seen.shown ELSE None

Address == IF ready THEN seen.selected ELSE None
Loading == Address # None /\ Drawn = None
Busy    == (ready /\ seen.busy) \/ Loading

\* A sheet keeps the person off whatever is behind it.
Reachable == ready /\ sheet = None /\ ~keyUp
Usable    == Reachable /\ ~seen.problem
OnPane    == Usable /\ screen = "manage" /\ seen.list # {}
AtDoor    == Usable /\ (screen = "add" \/ (screen = "manage" /\ seen.list = {}))

\* Whether anything on its way, a listing that finds the account gone or a
\* message not heard yet among it, puts another account on screen.
UnderWay(cs) == \E n \in DOMAIN cs : cs[n].what \in Moves
Moving ==
    \/ UnderWay(up) \/ UnderWay(jobs)
    \/ here.selected # seen.selected \/ here.selected \notin held
    \/ \E n \in DOMAIN down : down[n].props.selected # seen.selected
DrawnForGood == IF Moving THEN None ELSE Drawn

-----------------------------------------------------------------------------
(* What the person does.  A call to a backend that has stopped is lost.    *)

Send(c) ==
    /\ presses < MaxPresses
    /\ presses' = presses + 1
    /\ up' = IF alive THEN Append(up, c) ELSE up
    /\ UNCHANGED <<down, backend>>

Stay == UNCHANGED view

\* SwitcherBar: any account listed, busy or not.
Choose(a) ==
    /\ OnPane /\ a \in seen.list
    /\ Send(Call("selectAccount", a))
    /\ Stay

\* InstallationRow's bin is there while a state is drawn, busy or not; the
\* other buttons wait for busy.
PressOnPane(what) ==
    /\ OnPane /\ Drawn # None
    /\ what = "stageRevoke" \/ ~Busy
    /\ Send([what |-> what, meant |-> DrawnForGood,
             addr |-> IF what = "stopObserving" THEN Address ELSE None])
    /\ Stay

\* The store strip or the publish sheet's, where a read of the store is said to
\* have failed, or the one button there is while the vault cannot be read.
ReadAgain ==
    /\ \/ OnPane \/ (Reachable /\ seen.problem)
       \/ ready /\ sheet = "publish" /\ ~keyUp
    /\ ~Busy
    /\ Send(Call("refresh", None))
    /\ Stay

Open(what) ==
    /\ sheet' = what
    /\ awaiting' = None
    /\ meant' = IF what = "observeAccount" THEN None ELSE DrawnForGood
    /\ UNCHANGED <<ready, seen, screen, keyUp>>

OpenSheet(what) ==
    /\ IF what = "observeAccount" THEN OnPane \/ AtDoor
       ELSE what # "publish" /\ OnPane /\ ~Busy
    /\ Open(what)
    /\ UNCHANGED <<up, down, backend, presses>>

\* The store is read first, so that the preview is of what it holds now.
OpenPublish ==
    /\ OnPane /\ ~Busy
    /\ Send(Call("refresh", None))
    /\ Open("publish")

\* Sheet.send, then the call.  Only the publish sheet waits for busy.
Confirm ==
    /\ ready /\ sheet # None /\ awaiting = None /\ ~keyUp
    /\ sheet = "publish" => ~Busy /\ Drawn # None
    /\ \E a \in IF sheet = "observeAccount" THEN Addr
                ELSE IF sheet \in OfSelected THEN {None} ELSE {Address} :
          Send([what |-> sheet, addr |-> a, meant |-> meant])
    /\ awaiting' = sheet
    /\ UNCHANGED <<ready, seen, screen, sheet, keyUp, meant>>

\* The address asked for is one this app holds the key for: it is opened.
OpenHeld(a) ==
    /\ ready /\ sheet = "observeAccount" /\ awaiting = None /\ a \in seen.list
    /\ Send(Call("selectAccount", a))
    /\ sheet' = None /\ meant' = None /\ screen' = "manage"
    /\ UNCHANGED <<ready, seen, awaiting, keyUp>>

\* Fault: a sheet closes while its call runs.
CancelAnyTime ==
    /\ ready /\ sheet # None /\ ~keyUp
    /\ sheet' = None /\ meant' = None /\ awaiting' = None
    /\ UNCHANGED <<ready, seen, screen, keyUp, up, down, backend, presses>>

\* A call once made runs to its end, so nothing closes its sheet meanwhile.
Cancel ==
    /\ ready /\ sheet # None /\ awaiting = None /\ ~keyUp
    /\ sheet' = None /\ meant' = None
    /\ UNCHANGED <<ready, seen, screen, awaiting, keyUp, up, down, backend, presses>>

KeyWrittenDown ==
    /\ keyUp
    /\ keyUp' = FALSE
    /\ UNCHANGED <<ready, seen, screen, sheet, awaiting, meant, up, down, backend, presses>>

\* From the pane to the door, from the door to a screen, and back.
Go(from, to) ==
    /\ \/ from = "manage" /\ OnPane /\ to = "add"
       \/ from = "add" /\ AtDoor /\ to \in Takes
       \/ from = "add" /\ AtDoor /\ to = "manage" /\ seen.list # {}
       \/ from \in Takes /\ Usable /\ screen = from /\ to = "add"
    /\ screen' = to
    /\ UNCHANGED <<ready, seen, sheet, awaiting, keyUp, meant, up, down, backend, presses>>

\* The two screens that take an account send nothing while busy is seen.
Submit(a) ==
    /\ Usable /\ screen \in Takes /\ ~Busy
    /\ Send(Call(screen, a))
    /\ Stay

-----------------------------------------------------------------------------
(* The backend (AccountLogBackend.cpp): every change of a property is a    *)
(* message, every sheet call ends in one that says how it went.            *)

Message(p, signal, what) == [props |-> p, signal |-> signal, what |-> what]

\* The properties one after the other, those that change nothing unsaid.
Said(steps) ==
    LET changes == {n \in DOMAIN steps : steps[n] # IF n = 1 THEN here ELSE steps[n - 1]}
        Nth(k)  == CHOOSE n \in changes : Cardinality({m \in changes : m <= n}) = k
    IN  [k \in 1..Cardinality(changes) |-> Message(steps[Nth(k)], "none", None)]

\* setSelection: what is still in flight then was queued before it.
Selects(inFlight) == past' = Len(inFlight)

\* The call that lands is one fewer of those.
StaysSelected == past' = IF past = 0 THEN 0 ELSE past - 1

\* A slot is called: busy, and the selection before it.
Queues(steps, calls) ==
    LET p == IF steps = <<>> THEN here ELSE Last(steps)
        all == IF calls = <<>> THEN steps ELSE Append(steps, [p EXCEPT !.busy = TRUE])
    IN  /\ jobs' = jobs \o calls
        /\ down' = down \o Said(all)
        /\ here' = IF all = <<>> THEN here ELSE Last(all)

Arrives ==
    /\ alive /\ up # <<>> /\ Len(down) <= MaxUnheard
    /\ up' = Tail(up)
    /\ LET c == Head(up) IN
       \/ /\ c.what = "selectAccount" /\ c.addr = here.selected
          /\ Queues(<<>>, <<>>) /\ past' = past
       \/ /\ c.what = "selectAccount" /\ c.addr # here.selected
          /\ Queues(<<[here EXCEPT !.selected = c.addr]>>,
                    <<Call("state", c.addr), Call("refresh", c.addr)>>)
          /\ Selects(jobs)
       \/ /\ c.what = "refresh"
          /\ Queues(<<>>, <<IF here.selected = None THEN Call("accounts", None)
                            ELSE Call("refresh", here.selected)>>)
          /\ past' = past
       \/ /\ c.what \in OfSelected
          /\ Queues(<<>>, <<[c EXCEPT !.addr = here.selected]>>) /\ past' = past
       \/ /\ c.what \notin OfSelected \cup {"selectAccount", "refresh"}
          /\ Queues(<<>>, <<c>>) /\ past' = past
    /\ UNCHANGED <<view, alive, held, broken, presses>>

\* The call at the head of the queue lands: the properties its handler sets,
\* the calls it chains, the signals the view listens for, and busy once
\* nothing is left.
Lands(steps, calls, signals) ==
    LET rest == Tail(jobs) \o calls
        last == IF steps = <<>> THEN here ELSE Last(steps)
        idle == [last EXCEPT !.busy = rest # <<>>]
    IN  /\ jobs' = rest
        /\ here' = idle
        /\ down' = down \o (Said(steps)
                    \o [n \in DOMAIN signals |-> Message(last, signals[n], Head(jobs).what)]
                    \o IF idle = last THEN <<>> ELSE <<Message(idle, "none", None)>>)
        /\ UNCHANGED <<view, up, alive, broken, presses>>

Landing(what) == /\ alive /\ jobs # <<>> /\ Len(down) <= MaxUnheard
                 /\ Head(jobs).what = what

LandAccounts ==
    /\ Landing("accounts")
    /\ LET read   == [here EXCEPT !.problem = FALSE]
           listed == [read EXCEPT !.list = held]
           kept   == here.selected \in held
       IN IF broken
          THEN Lands(<<[here EXCEPT !.problem = TRUE]>>, <<>>, <<>>) /\ StaysSelected
          ELSE IF held = {}
          THEN /\ Selects(Tail(jobs))
               /\ Lands(<<read, listed, [listed EXCEPT !.selected = None],
                          [listed EXCEPT !.selected = None, !.shown = None]>>, <<>>, <<>>)
          ELSE /\ IF kept THEN StaysSelected ELSE Selects(Tail(jobs))
               /\ \E to \in IF kept THEN {here.selected} ELSE held :
                    Lands(<<read, listed, [listed EXCEPT !.selected = to]>>,
                          <<Call("state", to)>> \o
                              (IF kept THEN <<>> ELSE <<Call("refresh", to)>>), <<>>)
    /\ held' = held

\* Fault: it is not said.
StateRefusedUnsaid == <<>>

\* The state of the selected account is refused: without a word the account
\* would show as loading for good.
StateRefused == <<[here EXCEPT !.problem = TRUE]>>

\* A reply for an account no longer on screen is put aside.
LandState ==
    /\ Landing("state")
    /\ LET a == Head(jobs).addr
           read == [here EXCEPT !.problem = FALSE]
       IN Lands(IF a # here.selected THEN <<>>
                ELSE IF broken \/ a \notin held THEN StateRefused
                ELSE <<read, [read EXCEPT !.shown = a]>>, <<>>, <<>>)
    /\ held' = held /\ StaysSelected

\* Whether the store answers or not, the vault is listed again; but a read of a
\* selection since moved past is skipped where it has not begun.
LandRefresh ==
    /\ Landing("refresh")
    /\ \/ Lands(<<>>, <<Call("accounts", None)>>, <<>>)
       \/ past > 0 /\ Lands(<<>>, <<>>, <<>>)
    /\ held' = held /\ StaysSelected

LandRefused(what) ==
    /\ Landing(what) /\ what \in Calls \ {"accounts", "state", "refresh"}
    /\ Lands(<<>>,
             IF what # "publish" THEN <<>>
             ELSE IF Head(jobs).addr = here.selected THEN <<Call("refresh", here.selected)>>
             ELSE <<Call("accounts", None)>>,
             <<"failed">>)
    /\ held' = held /\ StaysSelected

\* An edit, an unlocking or a publish: listed again.
LandListed(what) ==
    /\ Landing(what) /\ what \in OfSelected \cup {"unlock"}
    /\ Head(jobs).addr \in held
    /\ Lands(<<>>, <<Call("accounts", None)>>, <<"succeeded">>)
    /\ held' = held /\ StaysSelected

LandExported ==
    /\ Landing("exportAccount")
    /\ Head(jobs).addr \in held
    /\ Lands(<<>>, <<>>, <<"exported", "succeeded">>)
    /\ held' = held /\ StaysSelected

LandTaken(what) ==
    /\ Landing(what) /\ what \in Takes \cup {"observeAccount"}
    /\ LET a == Head(jobs).addr IN
       /\ what = "createAccount" => a \notin held
       /\ held' = held \cup {a} /\ Selects(Tail(jobs))
       /\ Lands(<<[here EXCEPT !.selected = a]>>,
                <<Call("accounts", None), Call("state", a), Call("refresh", a)>>,
                <<"succeeded">>)

LandLeft(what) ==
    /\ Landing(what) /\ what \in {"forgetAccount", "stopObserving"}
    /\ LET a == Head(jobs).addr IN
       /\ a \in held
       /\ held' = held \ {a}
       /\ IF a = here.selected THEN Selects(Tail(jobs)) ELSE StaysSelected
       /\ Lands(IF a = here.selected THEN <<[here EXCEPT !.selected = None]>> ELSE <<>>,
                <<Call("accounts", None)>>, <<"succeeded">>)

\* A disk unplugged, or another user's file; and put right.
VaultComesAndGoes ==
    /\ alive /\ broken' = ~broken
    /\ UNCHANGED <<view, up, down, alive, here, held, jobs, past, presses>>

Stops ==
    /\ MayStop /\ alive
    /\ alive' = FALSE /\ jobs' = <<>> /\ past' = 0 /\ up' = <<>>
    /\ UNCHANGED <<view, down, here, held, broken, presses>>

-----------------------------------------------------------------------------
(* What the view hears.                                                    *)

\* The message answers the call the sheet waits on: known by its name.
Answers(m) == m.what = awaiting /\ m.signal \in {"succeeded", "failed"}

\* Fault: a sheet that closes is still waiting.
StillAwaitingClosed(m) ==
    IF Answers(m) /\ m.signal = "failed" THEN None ELSE awaiting

\* Sheet's onSucceeded and onFailed, and close.
StillAwaiting(m) == IF Answers(m) THEN None ELSE awaiting

Receives ==
    /\ down # <<>>
    /\ down' = Tail(down)
    /\ LET m == Head(down)
           closed == Answers(m) /\ m.signal = "succeeded"
       IN /\ seen' = m.props
          /\ screen' = IF \/ m.props.selected \notin {None, seen.selected}
                          \/ m.signal = "succeeded" /\ m.what = "importAccount"
                       THEN "manage" ELSE screen
          /\ awaiting' = StillAwaiting(m)
          /\ sheet' = IF closed THEN None ELSE sheet
          /\ meant' = IF closed THEN None ELSE meant
          /\ keyUp' = (keyUp \/ m.signal = "exported")
    /\ UNCHANGED <<ready, up, backend, presses>>

\* Fault: only the sheets that wait on nothing are closed.
HearsStoppedIdly ==
    /\ ready /\ ~alive
    /\ ready' = FALSE
    /\ sheet' = IF awaiting = None THEN None ELSE sheet
    /\ UNCHANGED <<seen, screen, awaiting, keyUp, meant, up, down, backend, presses>>

\* The host says the module stopped: no sheet is left waiting on it, but the
\* exported key, which is already here, stays.
HearsStopped ==
    /\ ready /\ ~alive
    /\ ready' = FALSE
    /\ sheet' = None /\ awaiting' = None /\ meant' = None
    /\ UNCHANGED <<seen, screen, keyUp, up, down, backend, presses>>

-----------------------------------------------------------------------------

\* The app has started, and what the backend said then has been heard.
Init ==
    /\ ready = TRUE /\ screen = "manage" /\ sheet = None /\ awaiting = None
    /\ keyUp = FALSE /\ meant = None
    /\ held \in SUBSET Addr
    /\ \E a \in IF held = {} THEN {None} ELSE held :
          here = [selected |-> a, shown |-> a, list |-> held, busy |-> FALSE,
                  problem |-> FALSE]
    /\ seen = here
    /\ up = <<>> /\ down = <<>> /\ jobs = <<>> /\ past = 0
    /\ alive = TRUE /\ broken = FALSE /\ presses = 0

LandsNext ==
    \/ LandAccounts \/ LandState \/ LandRefresh \/ LandExported
    \/ \E what \in Calls : LandRefused(what) \/ LandListed(what)
                            \/ LandTaken(what) \/ LandLeft(what)

Presses ==
    \/ \E a \in Addr : Choose(a) \/ OpenHeld(a) \/ Submit(a)
    \/ \E what \in {"stageRevoke", "discardPending", "stopObserving"} : PressOnPane(what)
    \/ \E what \in Sheets : OpenSheet(what)
    \/ ReadAgain \/ OpenPublish \/ Confirm \/ Cancel \/ KeyWrittenDown
    \/ \E from, to \in {"manage", "add"} \cup Takes : Go(from, to)

Next == Presses \/ Arrives \/ LandsNext \/ VaultComesAndGoes \/ Stops \/ Receives \/ HearsStopped

Spec == Init /\ [][Next]_vars

\* The person need press nothing; the socket, the backend and the host go on.
FairSpec ==
    /\ Spec
    /\ WF_vars(Arrives) /\ WF_vars(LandsNext) /\ WF_vars(Receives) /\ WF_vars(HearsStopped)

-----------------------------------------------------------------------------
(* Properties.                                                             *)

Outstanding(cs, what) == {n \in DOMAIN cs : cs[n].what = what}
AnswersTo(what) == {n \in DOMAIN down : down[n].what = what
                                         /\ down[n].signal \in {"succeeded", "failed"}}

\* An account to take is named.
Requests == {c \in [what : Calls, addr : Addr \cup {None}, meant : Addr \cup {None}] :
                c.what \in Takes \cup {"observeAccount"} => c.addr \in Addr}
Messages == [props : Properties, signal : {"none", "succeeded", "failed", "exported"},
             what : Calls \cup {None}]

\* Every variable has its type.
TypeOK ==
    /\ ready \in BOOLEAN /\ alive \in BOOLEAN /\ broken \in BOOLEAN /\ keyUp \in BOOLEAN
    /\ seen \in Properties /\ here \in Properties /\ held \in SUBSET Addr
    /\ screen \in {"manage", "add"} \cup Takes
    /\ sheet \in Sheets \cup {None} /\ awaiting \in {None, sheet}
    /\ meant \in Addr \cup {None}
    /\ up \in Seq(Requests) /\ jobs \in Seq(Requests) /\ down \in Seq(Messages)
    /\ past \in 0..Len(jobs) /\ presses \in 0..MaxPresses

\* An answer is known by the name of its call alone (Sheet.qml:97-107), so the
\* one a sheet hears is its own: of each call a sheet makes there is one on
\* its way, there or back, while the sheet waits on it, and none otherwise.
HearsItsOwn ==
    alive => \A what \in Sheets :
        Cardinality(Outstanding(up, what)) + Cardinality(Outstanding(jobs, what))
            + Cardinality(AnswersTo(what)) = IF awaiting = what THEN 1 ELSE 0

\* "Until the new account's state lands, the one held is another account's,
\* and nothing on screen may act on it" (Store.qml:34-35): what is pressed on an
\* account's state, or in a sheet opened over it, acts on that account, unless
\* another one was on its way to the screen as it was pressed.
ActsOnWhatIsDrawn ==
    \A n \in DOMAIN jobs : jobs[n].meant \in {None, jobs[n].addr}

\* No sheet waits for good, whatever becomes of the backend
\* (AccountLogView.qml:104-118).
SheetsAnswered == awaiting # None ~> awaiting = None

Settled == alive /\ ready /\ up = <<>> /\ down = <<>> /\ jobs = <<>>

\* A listing or a state that could not be read is said with a button that reads
\* again, and the button works: "Without it the account would show as loading
\* for good" (AccountLogBackend.cpp:234), and nothing can be pressed while it
\* does.
FailureCanBeRetried ==
    Settled /\ seen.problem => ~Busy

\* An account on screen is drawn once everything has landed, or the vault is
\* said not to be readable.
DrawnInTheEnd ==
    Settled => Drawn = Address \/ seen.problem

=============================================================================
