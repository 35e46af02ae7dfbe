--------------------------- MODULE BackendProofs ----------------------------
(***************************************************************************)
(* Theorems about Backend for any accounts, buttons and bounds.            *)
(***************************************************************************)
EXTENDS Backend, SequenceTheorems, TLAPS

\* What is said of an account on the screen u is said of the one selected.
Own(u) ==
    /\ u.firstNew \in {None, u.selected}
    /\ u.notice.kind \in {"dropped", "held", "published"} =>
           u.notice.about = u.selected

Drawn(u) == u \in ScreenType /\ Own(u)

\* Every call made is queued or has its reply queued, and counts as one.
Counted ==
    /\ inFlight = Len(queue) + Len(replies)
    /\ busy <=> inFlight # 0

\* Only a read or a publish of an account says that edits were dropped.
Reply == {r \in ReplyType : r.dropped => r.call.addr \in Addr}

BackendInv == TypeOK /\ replies \in Seq(Reply) /\ Own(ui) /\ Counted

-----------------------------------------------------------------------------
(* Screens: every handler puts a screen in the place of one.               *)

LEMMA QuietIsNotice == Quiet \in NoticeType
  BY DEF Quiet, NoticeType, MaybeAddr

LEMMA NoticeTyped ==
  ASSUME NEW kind \in {"none", "dropped", "held", "published", "error"},
         NEW a \in MaybeAddr
  PROVE  /\ Notice(kind, a) \in NoticeType
         /\ Notice(kind, a).kind = kind
         /\ Notice(kind, a).about = a
  BY DEF Notice, NoticeType

\* Whatever was on screen, after a selection it is the new account's.
LEMMA SelectDraws ==
  ASSUME NEW u \in ScreenType, NEW a \in MaybeAddr
  PROVE  Drawn(Select(u, a)) /\ Select(u, a).selected = a
<1> DEFINE n == IF a \in u.away THEN Notice("dropped", a) ELSE Quiet
<1>1. n \in NoticeType /\ (n.kind = "dropped" => n.about = a)
      /\ n.kind \notin {"held", "published"}
  BY QuietIsNotice, NoticeTyped DEF Quiet
<1>2. Select(u, a) = [u EXCEPT !.moved = TRUE, !.selected = a, !.firstNew = None,
                               !.notice = n, !.away = u.away \ {a}]
  BY DEF Select, ScreenType
<1> HIDE DEF n
<1>3. None \in MaybeAddr
  BY DEF MaybeAddr
<1> QED
  BY <1>1, <1>2, <1>3 DEF Drawn, Own, ScreenType

LEMMA StatusDraws ==
  ASSUME NEW u, Drawn(u),
         NEW s \in {"ready", "reading", "publishing", "store", "vault", "empty"}
  PROVE  Drawn([u EXCEPT !.status = s])
  BY DEF Drawn, Own, ScreenType

LEMMA ReadingDraws ==
  ASSUME NEW u, Drawn(u)
  PROVE  Drawn(Reading(u)) /\ Reading(u).selected = u.selected
<1>1. Drawn([u EXCEPT !.status = "reading"])
  BY StatusDraws
<1>2. [u EXCEPT !.status = "reading"].selected = u.selected
  BY DEF Drawn, ScreenType
<1> QED
  BY <1>1, <1>2 DEF Reading

\* A notice about the selected account may take the place of any other.
LEMMA NoticeDraws ==
  ASSUME NEW u, Drawn(u), NEW n \in NoticeType,
         n.kind \in {"dropped", "held", "published"} => n.about = u.selected
  PROVE  Drawn([u EXCEPT !.notice = n])
  BY DEF Drawn, Own, ScreenType

LEMMA ReportDraws ==
  ASSUME NEW u, Drawn(u), NEW c \in CallType
  PROVE  Drawn(Report(u, c))
<1>1. c.addr \in MaybeAddr
  BY DEF CallType
<1>2. Drawn([u EXCEPT !.notice = Notice("error", c.addr)])
  BY <1>1, NoticeTyped, NoticeDraws
<1> QED
  BY <1>2 DEF Report

LEMMA DroppingDraws ==
  ASSUME NEW u, Drawn(u), NEW r \in Reply
  PROVE  Drawn(Dropping(u, r))
<1>0. CASE ~r.dropped
  BY <1>0 DEF Dropping
<1> SUFFICES ASSUME r.dropped PROVE Drawn(Dropping(u, r))
  BY <1>0
<1>a. r.call.addr \in Addr
  BY DEF Reply
<1>1. CASE r.call.addr = u.selected
  <2>1. u.selected \in MaybeAddr
    BY DEF Drawn, ScreenType
  <2>2. Drawn([u EXCEPT !.notice = Notice("dropped", u.selected)])
    BY <2>1, NoticeTyped, NoticeDraws
  <2> QED
    BY <1>1, <2>2 DEF Dropping
<1>2. CASE r.call.addr # u.selected
  <2>1. Drawn([u EXCEPT !.away = u.away \cup {r.call.addr}])
    BY <1>a DEF Drawn, Own, ScreenType
  <2> QED
    BY <1>2, <2>1 DEF Dropping, Drawn, ScreenType
<1> QED
  BY <1>1, <1>2

-----------------------------------------------------------------------------
(* Calls and replies: marking what a selection has passed leaves them typed *)
(* and as many.                                                            *)

LEMMA CallTyped ==
  ASSUME NEW what \in Calls, NEW a \in MaybeAddr
  PROVE  Call(what, a) \in CallType
  BY DEF Call, CallType

LEMMA CallsConcat ==
  ASSUME NEW c \in Seq(CallType), NEW d \in Seq(CallType)
  PROVE  c \o d \in Seq(CallType) /\ Len(c \o d) = Len(c) + Len(d)
  BY ConcatProperties

LEMMA PassedTyped ==
  ASSUME NEW u, NEW c \in CallType
  PROVE  Passed(u, c) \in CallType /\ Passed(u, c).addr = c.addr
  BY DEF Passed, CallType

LEMMA PassedCallsTyped ==
  ASSUME NEW u, NEW cs \in Seq(CallType)
  PROVE  PassedCalls(u, cs) \in Seq(CallType) /\ Len(PassedCalls(u, cs)) = Len(cs)
<1>1. \A n \in 1 .. Len(cs) : Passed(u, cs[n]) \in CallType
  BY PassedTyped
<1> QED
  BY <1>1 DEF PassedCalls

LEMMA PassedRepliesTyped ==
  ASSUME NEW u, NEW rs \in Seq(Reply)
  PROVE  PassedReplies(u, rs) \in Seq(Reply) /\ Len(PassedReplies(u, rs)) = Len(rs)
<1> DEFINE m(r) == [r EXCEPT !.call = Passed(u, r.call)]
<1>1. \A r \in Reply : m(r) \in Reply
  BY PassedTyped DEF Reply, ReplyType
<1>2. PassedReplies(u, rs) = [n \in DOMAIN rs |-> m(rs[n])]
  BY DEF PassedReplies
<1> HIDE DEF m
<1> QED
  BY <1>1, <1>2

\* What the core has since changed is marked too.
LEMMA OutdatedTyped ==
  ASSUME NEW rs \in Seq(Reply), NEW a
  PROVE  Outdated(rs, a) \in Seq(Reply) /\ Len(Outdated(rs, a)) = Len(rs)
<1> DEFINE stale(r) == \/ r.call.what = "accounts"
                       \/ r.call.what = "state" /\ r.call.addr = a
           m(r) == IF stale(r) THEN [r EXCEPT !.fresh = FALSE] ELSE r
<1>1. \A r \in Reply : m(r) \in Reply
  BY DEF Reply, ReplyType
<1>2. Outdated(rs, a) = [n \in DOMAIN rs |-> m(rs[n])]
  BY DEF Outdated
<1> HIDE DEF m
<1> QED
  BY <1>1, <1>2

LEMMA ReloadsTyped ==
  ASSUME NEW u \in ScreenType
  PROVE  /\ ReloadAccounts \in Seq(CallType)
         /\ ReloadState(u) \in Seq(CallType)
         /\ Read(u) \in Seq(CallType)
<1>1. u.selected \in MaybeAddr /\ None \in MaybeAddr
  BY DEF ScreenType, MaybeAddr
<1>2. {"accounts", "state", "refresh"} \subseteq Calls
  BY DEF Calls
<1>3. /\ Call("accounts", None) \in CallType
      /\ Call("state", u.selected) \in CallType
      /\ Call("refresh", u.selected) \in CallType
  BY <1>1, <1>2, CallTyped
<1> QED
  BY <1>3 DEF ReloadAccounts, ReloadState, Read

LEMMA NewlyOnScreenDraws ==
  ASSUME NEW u, Drawn(u)
  PROVE  /\ Drawn(NewlyOnScreen(u).screen)
         /\ NewlyOnScreen(u).calls \in Seq(CallType)
<1>1. u \in ScreenType
  BY DEF Drawn
<1>2. ReloadState(u) \in Seq(CallType) /\ Read(u) \in Seq(CallType)
  BY <1>1, ReloadsTyped
<1>3. ReloadState(u) \o Read(u) \in Seq(CallType)
  BY <1>2
<1> QED
  BY <1>2, <1>3, ReadingDraws DEF NewlyOnScreen

-----------------------------------------------------------------------------
(* The two ways the event loop makes calls.                                *)

\* What the event loop does to the queues and the screen.
LEMMA StartKeeps ==
  ASSUME BackendInv, NEW u, Drawn(u), NEW calls \in Seq(CallType),
         Start(u, calls), presses' \in 0 .. MaxCalls, ready' \in BOOLEAN
  PROVE  BackendInv'
<1> DEFINE made == IF opened THEN calls ELSE <<>>
<1>1. made \in Seq(CallType)
  OBVIOUS
<1>2. /\ ui' = [u EXCEPT !.moved = FALSE]
      /\ queue' = PassedCalls(u, queue) \o made
      /\ replies' = PassedReplies(u, replies)
      /\ inFlight' = inFlight + Len(made)
      /\ busy' = (busy \/ made # <<>>)
      /\ UNCHANGED <<held, unread, reread, staged, owed, opened, current, faults>>
  BY DEF Start, core
<1> HIDE DEF made
<1>3. Drawn(ui')
  BY <1>2 DEF Drawn, Own, ScreenType
<1>4. queue' \in Seq(CallType) /\ Len(queue') = Len(queue) + Len(made)
  <2>1. PassedCalls(u, queue) \in Seq(CallType)
        /\ Len(PassedCalls(u, queue)) = Len(queue)
    BY PassedCallsTyped DEF BackendInv, TypeOK
  <2> QED
    BY <1>1, <1>2, <2>1, CallsConcat
<1>5. replies' \in Seq(Reply) /\ Len(replies') = Len(replies)
  BY <1>2, PassedRepliesTyped DEF BackendInv
<1>6. Counted'
  <2>1. made # <<>> <=> Len(made) # 0
    BY <1>1
  <2>2. Len(made) \in Nat /\ inFlight \in Nat
    BY <1>1 DEF BackendInv, TypeOK
  <2>3. queue \in Seq(CallType) /\ replies \in Seq(Reply)
    BY DEF BackendInv, TypeOK
  <2>4. Len(queue) \in Nat /\ Len(replies) \in Nat
    BY <2>3
  <2>5. inFlight' = Len(queue') + Len(replies')
    BY <1>2, <1>4, <1>5, <2>2, <2>4 DEF BackendInv, Counted
  <2>6. busy' <=> inFlight' # 0
    <3>1. inFlight' # 0 <=> inFlight # 0 \/ Len(made) # 0
      BY <1>2, <2>2
    <3>2. busy <=> inFlight # 0
      BY DEF BackendInv, Counted
    <3>3. busy' <=> busy \/ made # <<>>
      BY <1>2, Zenon
    <3> QED
      BY <2>1, <3>1, <3>2, <3>3, Zenon
  <2> QED
    BY <2>5, <2>6 DEF Counted
<1>7. replies' \in Seq(ReplyType)
  BY <1>5 DEF Reply
<1>8. inFlight' \in Nat /\ busy' \in BOOLEAN
  BY <1>1, <1>2 DEF BackendInv, TypeOK
<1>9. TypeOK'
  BY <1>2, <1>3, <1>4, <1>7, <1>8 DEF BackendInv, TypeOK, Drawn
<1> QED
  BY <1>3, <1>5, <1>6, <1>9 DEF BackendInv, Drawn

\* A reply is taken off, and the calls its handler chains are added.
LEMMA FinishKeeps ==
  ASSUME BackendInv, replies # <<>>, NEW u, Drawn(u), NEW calls \in Seq(CallType),
         Finish(u, calls),
         current' \in [list : BOOLEAN, shown : BOOLEAN, missed : BOOLEAN]
  PROVE  BackendInv'
<1>1. /\ ui' = [u EXCEPT !.moved = FALSE]
      /\ queue' = PassedCalls(u, queue) \o calls
      /\ replies' = PassedReplies(u, Tail(replies))
      /\ inFlight' = inFlight + Len(calls) - 1
      /\ busy' = (inFlight' # 0)
      /\ UNCHANGED <<held, unread, reread, staged, owed, opened, ready, presses,
                     faults>>
  BY DEF Finish, core
<1>2. Drawn(ui')
  BY <1>1 DEF Drawn, Own, ScreenType
<1>3. queue \in Seq(CallType) /\ replies \in Seq(Reply)
  BY DEF BackendInv, TypeOK
<1>4. queue' \in Seq(CallType) /\ Len(queue') = Len(queue) + Len(calls)
  <2>1. PassedCalls(u, queue) \in Seq(CallType)
        /\ Len(PassedCalls(u, queue)) = Len(queue)
    BY <1>3, PassedCallsTyped
  <2> QED
    BY <1>1, <2>1, CallsConcat
<1>5. replies' \in Seq(Reply) /\ Len(replies') = Len(replies) - 1
  <2>1. Tail(replies) \in Seq(Reply) /\ Len(Tail(replies)) = Len(replies) - 1
    BY <1>3, HeadTailProperties
  <2> QED
    BY <1>1, <2>1, PassedRepliesTyped
<1>6. Len(replies) # 0 /\ Len(replies) \in Nat /\ Len(queue) \in Nat
      /\ Len(calls) \in Nat
  BY <1>3, EmptySeq
<1>7. inFlight' = Len(queue') + Len(replies') /\ inFlight' \in Nat
  <2>1. inFlight = Len(queue) + Len(replies)
    BY DEF BackendInv, Counted
  <2>2. inFlight' = inFlight + Len(calls) - 1
    BY <1>1
  <2>3. Len(queue') = Len(queue) + Len(calls) /\ Len(replies') = Len(replies) - 1
    BY <1>4, <1>5
  <2> QED
    BY <1>6, <2>1, <2>2, <2>3
<1>8. Counted' /\ busy' \in BOOLEAN
  BY <1>1, <1>7, Zenon DEF Counted
<1>9. replies' \in Seq(ReplyType)
  BY <1>5 DEF Reply
<1>10. TypeOK'
  BY <1>1, <1>2, <1>4, <1>7, <1>8, <1>9 DEF BackendInv, TypeOK, Drawn
<1> QED
  BY <1>2, <1>5, <1>8, <1>10 DEF BackendInv, Drawn

\* The pool takes a call off its queue and puts a reply on the event loop's.
LEMMA AnswerKeeps ==
  ASSUME BackendInv, queue # <<>>, NEW r \in Reply, NEW rs \in Seq(Reply),
         Len(rs) = Len(replies),
         queue' = Tail(queue), replies' = Append(rs, r),
         UNCHANGED <<opened, inFlight, busy, ready, ui, presses>>,
         held' \subseteq Addr, unread' \in [Addr -> BOOLEAN],
         reread' \in [Addr -> BOOLEAN], staged' \subseteq held',
         owed' \subseteq Addr, faults' \in 0 .. MaxFaults,
         current' \in [list : BOOLEAN, shown : BOOLEAN, missed : BOOLEAN]
  PROVE  BackendInv'
<1>1. queue \in Seq(CallType) /\ replies \in Seq(Reply)
  BY DEF BackendInv, TypeOK
<1>2. queue' \in Seq(CallType) /\ Len(queue') = Len(queue) - 1
  BY <1>1, HeadTailProperties
<1>3. replies' \in Seq(Reply) /\ Len(replies') = Len(replies) + 1
  BY AppendProperties
<1>4. Len(queue) \in Nat /\ Len(replies) \in Nat
  BY <1>1
<1>5. inFlight' = Len(queue') + Len(replies')
  BY <1>2, <1>3, <1>4 DEF BackendInv, Counted
<1>6. Counted'
  BY <1>5 DEF BackendInv, Counted
<1>7. replies' \in Seq(ReplyType)
  BY <1>3 DEF Reply
<1>8. TypeOK'
  BY <1>2, <1>7 DEF BackendInv, TypeOK
<1> QED
  BY <1>3, <1>6, <1>8 DEF BackendInv

-----------------------------------------------------------------------------
(* Steps.                                                                  *)

\* Whatever the person presses puts a screen drawn as it should be in the
\* place of this one, and makes calls.
LEMMA PersonKeeps ==
  ASSUME BackendInv, Person
  PROVE  BackendInv'
<1>0. /\ Drawn(ui) /\ ui \in ScreenType /\ ui.selected \in MaybeAddr
      /\ None \in MaybeAddr /\ ui.list \subseteq MaybeAddr
      /\ <<>> \in Seq(CallType)
      /\ presses \in 0 .. MaxCalls /\ ready \in BOOLEAN
  BY DEF BackendInv, TypeOK, Drawn, ScreenType, MaybeAddr
<1>1. ASSUME NEW button, NEW u, Drawn(u), NEW calls \in Seq(CallType),
             Press(button, u, calls)
      PROVE  BackendInv'
  <2>1. Start(u, calls) /\ presses' \in 0 .. MaxCalls /\ ready' \in BOOLEAN
    BY <1>0, <1>1, BackendAssumption DEF Press
  <2> QED
    BY <1>1, <2>1, StartKeeps
<1>2. ASSUME NEW what \in Calls, NEW a \in MaybeAddr, Ask(what, a)
      PROVE  BackendInv'
  <2>1. <<Call(what, a)>> \in Seq(CallType)
    BY CallTyped
  <2> QED
    BY <1>0, <1>1, <1>2, <2>1 DEF Ask
<1>3. Drawn(Reading(ui)) /\ Read(ui) \in Seq(CallType)
  BY <1>0, ReadingDraws, ReloadsTyped
<1>4. CASE ContextReady
  <2>1. presses' \in 0 .. MaxCalls /\ ready' \in BOOLEAN
    BY <1>0, <1>4 DEF ContextReady
  <2>2. Start(Reading(ui), Read(ui)) \/ Start(ui, <<>>)
    BY <1>4 DEF ContextReady
  <2> QED
    BY <1>0, <1>3, <2>1, <2>2, StartKeeps
<1>5. CASE Refresh
  BY <1>1, <1>3, <1>5 DEF Refresh
<1>6. CASE \E a \in Addr : SelectAccount(a)
  <2> PICK a \in Addr : SelectAccount(a)
    BY <1>6
  <2> DEFINE u == Reading(Select(ui, a))
  <2>1. Drawn(Select(ui, a))
    BY <1>0, SelectDraws DEF MaybeAddr
  <2>2. Drawn(u) /\ u \in ScreenType
    BY <2>1, ReadingDraws DEF Drawn
  <2>3. ReloadState(u) \o Read(u) \in Seq(CallType)
    BY <2>2, ReloadsTyped, CallsConcat
  <2>4. Press("selectAccount", u, ReloadState(u) \o Read(u))
    BY DEF SelectAccount
  <2> HIDE DEF u
  <2> QED
    BY <1>1, <2>2, <2>3, <2>4
<1>7. CASE \/ CreateAccount \/ Stage \/ Retract
           \/ \E a \in Addr : \/ ImportAccount(a) \/ ObserveAccount(a)
                             \/ Unlock(a) \/ ExportAccount(a)
                             \/ ForgetAccount(a) \/ StopObserving(a)
  <2>1. \E what \in Calls, a \in MaybeAddr : Ask(what, a)
    BY <1>0, <1>7 DEF CreateAccount, Stage, Retract, ImportAccount, ObserveAccount,
       Unlock, ExportAccount, ForgetAccount, StopObserving, Calls, Stagings,
       Takings, Leavings, MaybeAddr
  <2> QED
    BY <1>2, <2>1
<1>8. CASE RevokeBeforeFirst
  <2>1. Call("retract", ui.selected) \in CallType
    BY <1>0, CallTyped DEF Calls, Stagings
  <2> QED
    BY <1>0, <1>1, <1>8, <2>1, ReportDraws DEF RevokeBeforeFirst
<1>9. CASE Publish
  <2>1. <<Call("publish", ui.selected)>> \in Seq(CallType)
    BY <1>0, CallTyped DEF Calls
  <2>2. Drawn([ui EXCEPT !.status = "publishing"])
    BY <1>0, StatusDraws
  <2> QED
    BY <1>1, <1>9, <2>1, <2>2 DEF Publish
<1>10. CASE DismissNotice
  <2>1. Drawn([ui EXCEPT !.notice = Quiet])
    BY <1>0, QuietIsNotice, NoticeDraws DEF Quiet
  <2> QED
    BY <1>0, <1>1, <1>10, <2>1 DEF DismissNotice
<1> QED
  BY <1>4, <1>5, <1>6, <1>7, <1>8, <1>9, <1>10 DEF Person

\* A reply lands: its handler puts a screen drawn as it should be in the place
\* of this one, and chains calls.
LEMMA EventLoopKeeps ==
  ASSUME BackendInv, EventLoop
  PROVE  BackendInv'
<1> DEFINE r == Head(replies)
           CurrentType == [list : BOOLEAN, shown : BOOLEAN, missed : BOOLEAN]
<1>a. replies # <<>>
  BY DEF EventLoop, Landing, LandSkipped, LandAccounts, LandAccountsRefused,
     LandState, LandStateRefused, LandRefresh, LandRefreshRefused, LandTaken,
     LandUnlocked, LandExported, LandLeft, LandEdited, LandRefused,
     LandPublished, LandPublishRefused
<1>b. r \in Reply
  BY <1>a, HeadTailProperties DEF BackendInv
<1>c. /\ r.call \in CallType /\ r.call.addr \in MaybeAddr
      /\ r.listed \subseteq Addr /\ r.fresh \in BOOLEAN
  BY <1>b DEF Reply, ReplyType, CallType
<1>d. /\ Drawn(ui) /\ ui \in ScreenType /\ ui.selected \in MaybeAddr
      /\ None \in MaybeAddr /\ current \in CurrentType
      /\ <<>> \in Seq(CallType)
  BY DEF BackendInv, TypeOK, Drawn, ScreenType, MaybeAddr
<1>e. /\ ReloadAccounts \in Seq(CallType) /\ ReloadState(ui) \in Seq(CallType)
      /\ Read(ui) \in Seq(CallType)
  BY <1>d, ReloadsTyped
<1> HIDE DEF r, CurrentType
<1>f. ASSUME NEW u, Drawn(u), NEW calls \in Seq(CallType), Finish(u, calls),
             current' \in CurrentType
      PROVE  BackendInv'
  BY <1>a, <1>f, FinishKeeps DEF CurrentType
<1>g. ASSUME NEW u, Drawn(u), NEW calls \in Seq(CallType), Finish(u, calls),
             UNCHANGED current
      PROVE  BackendInv'
  BY <1>d, <1>f, <1>g
<1>1. CASE \/ LandSkipped \/ LandExported
  BY <1>d, <1>g, <1>1 DEF LandSkipped, LandExported
<1>2. CASE LandAccounts
  <2> DEFINE u == [ui EXCEPT !.list = r.listed, !.vaultProblem = FALSE]
             n(a) == NewlyOnScreen(Select(u, a))
  <2>1. Drawn(u) /\ u \in ScreenType
    BY <1>c, <1>d DEF Drawn, Own, ScreenType
  <2>2. Listed(r) \in CurrentType /\ [Listed(r) EXCEPT !.shown = TRUE] \in CurrentType
    BY <1>c, <1>d DEF Listed, CurrentType
  <2> DEFINE none == [Select(u, None) EXCEPT !.shown = None, !.status = "empty"]
  <2>3. Drawn(none)
    <3>1. Drawn(Select(u, None))
      BY <1>d, <2>1, SelectDraws
    <3> DEFINE s == Select(u, None)
    <3> HIDE DEF s
    <3>2. Drawn(s) => Drawn([s EXCEPT !.shown = None, !.status = "empty"])
      BY <1>d DEF Drawn, Own, ScreenType
    <3> QED
      BY <3>1, <3>2 DEF s
  <2>4. ReloadState(u) \in Seq(CallType)
    BY <2>1, ReloadsTyped
  <2>5. ASSUME NEW a \in Addr
        PROVE  Drawn(n(a).screen) /\ n(a).calls \in Seq(CallType)
    <3>1. Drawn(Select(u, a))
      BY <2>1, SelectDraws DEF MaybeAddr
    <3> QED
      BY <3>1, NewlyOnScreenDraws
  <2>6. \/ Finish(none, <<>>) /\ current' = [Listed(r) EXCEPT !.shown = TRUE]
        \/ Finish(u, ReloadState(u)) /\ current' = Listed(r)
        \/ /\ \E a \in r.listed : Finish(n(a).screen, n(a).calls)
           /\ current' = Listed(r)
    BY <1>2 DEF LandAccounts, r
  <2> HIDE DEF u, n, none
  <2>7. CASE Finish(none, <<>>) /\ current' = [Listed(r) EXCEPT !.shown = TRUE]
    BY <1>d, <1>f, <2>2, <2>3, <2>7
  <2>8. CASE Finish(u, ReloadState(u)) /\ current' = Listed(r)
    BY <1>f, <2>1, <2>2, <2>4, <2>8
  <2>9. CASE /\ \E a \in r.listed : Finish(n(a).screen, n(a).calls)
             /\ current' = Listed(r)
    BY <1>c, <1>f, <2>2, <2>5, <2>9
  <2> QED
    BY <2>6, <2>7, <2>8, <2>9
<1>3. Drawn(VaultUnread(ui))
  BY <1>d DEF VaultUnread, Drawn, Own, ScreenType
<1>4. CASE LandAccountsRefused
  BY <1>3, <1>d, <1>g, <1>4 DEF LandAccountsRefused
<1>5. CASE LandState
  <2> DEFINE u == [ui EXCEPT !.vaultProblem = FALSE, !.shown = r.call.addr]
  <2>1. Drawn(u)
    BY <1>c, <1>d DEF Drawn, Own, ScreenType
  <2>2. [current EXCEPT !.shown = r.fresh] \in CurrentType
    BY <1>c, <1>d DEF CurrentType
  <2>3. \/ Finish(ui, <<>>) /\ UNCHANGED current
        \/ Finish(u, <<>>) /\ current' = [current EXCEPT !.shown = r.fresh]
    BY <1>5 DEF LandState, r
  <2> HIDE DEF u
  <2> QED
    BY <1>d, <1>f, <1>g, <2>1, <2>2, <2>3
<1>6. CASE LandStateRefused
  <2>1. Drawn(IF r.call.addr # ui.selected THEN ui ELSE VaultUnread(ui))
    BY <1>3, <1>d
  <2> QED
    BY <1>d, <1>g, <1>6, <2>1 DEF LandStateRefused, r
<1>7. CASE LandRefresh
  <2> DEFINE d == Dropping(ui, r)
             u == IF r.call.wanted
                  THEN [d EXCEPT !.status = "ready", !.storeProblem = FALSE,
                                 !.firstNew = None]
                  ELSE d
  <2>1. Drawn(d)
    BY <1>b, <1>d, DroppingDraws
  <2>2. Finish(u, ReloadAccounts) /\ UNCHANGED current
    BY <1>7 DEF LandRefresh, r
  <2> HIDE DEF d
  <2>3. Drawn(u)
    BY <1>d, <2>1 DEF Drawn, Own, ScreenType
  <2> QED
    BY <1>e, <1>g, <2>2, <2>3
<1>8. CASE LandRefreshRefused
  <2>1. Drawn(IF r.call.wanted
              THEN [ui EXCEPT !.status = "store", !.storeProblem = TRUE] ELSE ui)
    BY <1>d DEF Drawn, Own, ScreenType
  <2> QED
    BY <1>e, <1>g, <1>8, <2>1 DEF LandRefreshRefused, r
<1>9. CASE LandTaken
  <2> DEFINE s == Select(ui, r.call.addr)
             h == IF r.again THEN [s EXCEPT !.notice = Notice("held", r.call.addr)]
                  ELSE s
             u == Reading(h)
  <2>1. Drawn(s) /\ s.selected = r.call.addr
    BY <1>c, <1>d, SelectDraws
  <2>2. Finish(u, ReloadAccounts \o ReloadState(u) \o Read(u)) /\ UNCHANGED current
    BY <1>9 DEF LandTaken, r
  <2> HIDE DEF s
  <2>3. Drawn(h)
    BY <1>c, <2>1, NoticeTyped, NoticeDraws
  <2> HIDE DEF h
  <2>4. Drawn(u) /\ u \in ScreenType
    BY <2>3, ReadingDraws DEF Drawn
  <2> HIDE DEF u
  <2>5. ReloadState(u) \in Seq(CallType) /\ Read(u) \in Seq(CallType)
    BY <2>4, ReloadsTyped
  <2>6. ReloadAccounts \o ReloadState(u) \in Seq(CallType)
    BY <1>e, <2>5, CallsConcat
  <2>7. ReloadAccounts \o ReloadState(u) \o Read(u) \in Seq(CallType)
    BY <2>5, <2>6, CallsConcat
  <2> QED
    BY <1>g, <2>2, <2>4, <2>7
<1>10. CASE LandUnlocked
  BY <1>d, <1>e, <1>g, <1>10 DEF LandUnlocked
<1>11. CASE LandLeft
  <2> DEFINE b == [ui EXCEPT !.away = ui.away \ {r.call.addr}]
             u == IF r.call.addr = ui.selected THEN Select(b, None) ELSE b
  <2>1. Drawn(b) /\ b \in ScreenType
    BY <1>d DEF Drawn, Own, ScreenType
  <2>2. Finish(u, ReloadAccounts) /\ UNCHANGED current
    BY <1>11 DEF LandLeft, r
  <2> HIDE DEF b
  <2>3. Drawn(u)
    BY <1>d, <2>1, SelectDraws
  <2> QED
    BY <1>e, <1>g, <2>2, <2>3
<1>12. CASE LandEdited
  <2>1. Drawn(Edited(ui))
    BY <1>d, QuietIsNotice, NoticeDraws DEF Edited, Quiet
  <2> QED
    BY <1>e, <1>g, <1>12, <2>1 DEF LandEdited
<1>13. CASE LandRefused
  <2>1. Drawn(Report(ui, r.call))
    BY <1>c, <1>d, ReportDraws
  <2> QED
    BY <1>d, <1>g, <1>13, <2>1 DEF LandRefused, r
<1>14. CASE LandPublished
  <2> DEFINE u == [ui EXCEPT !.status = "ready", !.storeProblem = FALSE]
  <2>1. Drawn(u)
    BY <1>d DEF Drawn, Own, ScreenType
  <2>2. Finish(Published(u, r), ReloadAccounts) /\ UNCHANGED current
    BY <1>14 DEF LandPublished, r
  <2> HIDE DEF u
  <2>3. Drawn(Dropping(u, r))
    BY <1>b, <2>1, DroppingDraws
  <2>4. Notice("published", r.call.addr) \in NoticeType
        /\ Notice("published", r.call.addr).about = r.call.addr
    BY <1>c, NoticeTyped
  <2>5. ASSUME r.call.addr = u.selected
        PROVE  Drawn([u EXCEPT !.firstNew = r.call.addr,
                               !.notice = Notice("published", r.call.addr)])
    BY <1>c, <2>1, <2>4, <2>5 DEF Drawn, Own, ScreenType
  <2>6. Drawn(Published(u, r))
    BY <2>3, <2>5 DEF Published
  <2> QED
    BY <1>e, <1>g, <2>2, <2>6
<1>15. CASE LandPublishRefused
  <2>1. Drawn(Reading(ui))
    BY <1>d, ReadingDraws
  <2>2. /\ Finish(ui, ReloadAccounts) \/ Finish(Reading(ui), Read(ui))
        /\ UNCHANGED current
    BY <1>15 DEF LandPublishRefused
  <2> QED
    BY <1>d, <1>e, <1>g, <2>1, <2>2
<1> QED
  BY <1>1, <1>2, <1>4, <1>5, <1>6, <1>7, <1>8, <1>9, <1>10, <1>11, <1>12, <1>13,
     <1>14, <1>15 DEF EventLoop

LEMMA AnswerTyped ==
  ASSUME NEW c \in CallType, NEW how \in {"ok", "refused", "skipped"}
  PROVE  /\ Answer(c, how) \in Reply
         /\ \A l \in SUBSET Addr : [Answer(c, how) EXCEPT !.listed = l] \in Reply
         /\ \A b \in BOOLEAN : [Answer(c, how) EXCEPT !.again = b] \in Reply
         /\ c.addr \in Addr =>
              \A w, d \in BOOLEAN :
                /\ [Answer(c, how) EXCEPT !.dropped = d] \in Reply
                /\ [Answer(c, how) EXCEPT !.wrote = w, !.dropped = d] \in Reply
  BY DEF Answer, Reply, ReplyType

\* A call runs: its reply is one the event loop can handle, and the core is as
\* it was but for the call's account.
LEMMA PoolKeeps ==
  ASSUME BackendInv, Pool
  PROVE  BackendInv'
<1> DEFINE c == Head(queue)
           CurrentType == [list : BOOLEAN, shown : BOOLEAN, missed : BOOLEAN]
<1>a. queue # <<>>
  BY DEF Pool, Running, RunSkips, RunRefused, RunUnknown, RunVaultFails,
     RunAccounts, RunState, RunRefresh, RunRefreshFails, RunTakes, RunImportsHalf,
     RunLeaves, RunUnlock, RunExport, RunEdits, RunPublish, RunPublishFails
<1>b. c \in CallType
  BY <1>a, HeadTailProperties DEF BackendInv, TypeOK
<1>c. /\ held \subseteq Addr /\ unread \in [Addr -> BOOLEAN]
      /\ reread \in [Addr -> BOOLEAN] /\ staged \subseteq held
      /\ owed \subseteq Addr /\ faults \in 0 .. MaxFaults
      /\ current \in CurrentType
      /\ replies \in Seq(Reply)
  BY DEF BackendInv, TypeOK
<1> HIDE DEF c, CurrentType
<1>d. ASSUME NEW r \in Reply, Answers(r), UNCHANGED <<core, current>>,
             faults' \in 0 .. MaxFaults
      PROVE  BackendInv'
  BY <1>a, <1>c, <1>d, AnswerKeeps DEF Answers, core, CurrentType
<1>e. ASSUME NEW r \in Reply, AnswersAsItIs(r)
      PROVE  BackendInv'
  BY <1>c, <1>d, <1>e DEF AnswersAsItIs
<1>f. ASSUME NEW r \in Reply, NEW a, AnswersAfter(a, r),
             held' \subseteq Addr, unread' \in [Addr -> BOOLEAN],
             reread' \in [Addr -> BOOLEAN], staged' \subseteq held',
             owed' \subseteq Addr
      PROVE  BackendInv'
  <2>1. Outdated(replies, a) \in Seq(Reply)
        /\ Len(Outdated(replies, a)) = Len(replies)
    BY <1>c, OutdatedTyped
  <2>2. current' \in CurrentType
    BY <1>c, <1>f DEF AnswersAfter, CurrentType
  <2> QED
    BY <1>a, <1>c, <1>f, <2>1, <2>2, AnswerKeeps DEF AnswersAfter, CurrentType
<1>1. CASE RunSkips \/ RunRefused \/ RunUnknown \/ RunState \/ RunExport
  BY <1>1, <1>b, <1>e, AnswerTyped DEF RunSkips, RunRefused, RunUnknown, RunState,
     RunExport, c
<1>2. CASE RunVaultFails
  <2>1. faults' \in 0 .. MaxFaults
    BY <1>2, <1>c, BackendAssumption DEF RunVaultFails
  <2> QED
    BY <1>2, <1>b, <1>d, <2>1, AnswerTyped DEF RunVaultFails, c
<1>3. CASE RunAccounts
  BY <1>3, <1>b, <1>c, <1>e, AnswerTyped DEF RunAccounts, c
<1>4. CASE RunRefresh
  <2>1. /\ c.addr \in held /\ ReadSo(c.addr, TRUE, TRUE)
        /\ staged' \in {staged, staged \ {c.addr}}
        /\ owed' = owed \ {c.addr}
        /\ \E d \in BOOLEAN :
              AnswersAfter(c.addr, [Answer(c, "ok") EXCEPT !.dropped = d])
    BY <1>4 DEF RunRefresh, c
  <2>2. /\ held' \subseteq Addr /\ unread' \in [Addr -> BOOLEAN]
        /\ reread' \in [Addr -> BOOLEAN] /\ staged' \subseteq held'
        /\ owed' \subseteq Addr
    BY <1>c, <2>1 DEF ReadSo
  <2> QED
    BY <1>b, <1>c, <1>f, <2>1, <2>2, AnswerTyped
<1>5. CASE RunRefreshFails
  <2>1. /\ c.addr \in held /\ ReadSo(c.addr, FALSE, reread[c.addr])
        /\ AnswersAfter(c.addr, Answer(c, "refused"))
        /\ UNCHANGED <<staged, owed>>
    BY <1>5 DEF RunRefreshFails, c
  <2>2. /\ held' \subseteq Addr /\ unread' \in [Addr -> BOOLEAN]
        /\ reread' \in [Addr -> BOOLEAN] /\ staged' \subseteq held'
        /\ owed' \subseteq Addr
    BY <1>c, <2>1 DEF ReadSo
  <2> QED
    BY <1>b, <1>f, <2>1, <2>2, AnswerTyped
<1>6. CASE RunTakes
  <2>1. PICK a \in Addr, again \in BOOLEAN :
          /\ held' = held \cup {a}
          /\ UNCHANGED <<unread, reread, staged, owed>>
          /\ AnswersAfter(a, [Answer([c EXCEPT !.addr = a], "ok")
                                 EXCEPT !.again = again])
    BY <1>6 DEF RunTakes, c
  <2>2. [c EXCEPT !.addr = a] \in CallType
    BY <1>b DEF CallType, MaybeAddr
  <2>3. [Answer([c EXCEPT !.addr = a], "ok") EXCEPT !.again = again] \in Reply
    BY <2>2, AnswerTyped
  <2> QED
    BY <1>c, <1>f, <2>1, <2>3
<1>7. CASE RunImportsHalf
  <2>1. /\ replies' = Append(Outdated(replies, c.addr), Answer(c, "refused"))
        /\ queue' = Tail(queue)
        /\ current' = [list |-> FALSE, missed |-> TRUE,
                        shown |-> current.shown /\ ui.shown # c.addr]
        /\ UNCHANGED <<held, unread, reread, staged, owed, opened, inFlight, busy,
                       ready, ui, presses, faults>>
    BY <1>7 DEF RunImportsHalf, c, core
  <2>2. Outdated(replies, c.addr) \in Seq(Reply)
        /\ Len(Outdated(replies, c.addr)) = Len(replies)
    BY <1>c, OutdatedTyped
  <2>3. current' \in CurrentType /\ Answer(c, "refused") \in Reply
    BY <1>b, <1>c, <2>1, AnswerTyped DEF CurrentType
  <2> QED
    BY <1>a, <1>c, <2>1, <2>2, <2>3, AnswerKeeps DEF CurrentType
<1>8. CASE RunLeaves
  <2>1. /\ staged' \subseteq staged /\ held' \in {held, held \ {c.addr}}
        /\ c.addr \in staged' => c.addr \in held'
        /\ unread' = [unread EXCEPT ![c.addr] = FALSE]
        /\ owed' = owed \ {c.addr} /\ UNCHANGED reread
        /\ AnswersAfter(c.addr, Answer(c, "ok"))
    BY <1>8 DEF RunLeaves, c
  <2>2. /\ held' \subseteq Addr /\ unread' \in [Addr -> BOOLEAN]
        /\ reread' \in [Addr -> BOOLEAN] /\ staged' \subseteq held'
        /\ owed' \subseteq Addr
    BY <1>c, <2>1
  <2> QED
    BY <1>b, <1>f, <2>1, <2>2, AnswerTyped
<1>9. CASE RunUnlock
  BY <1>9, <1>b, <1>c, <1>f, AnswerTyped DEF RunUnlock, c, core
<1>10. CASE RunEdits
  <2>1. /\ c.addr \in held
        /\ staged' \in {staged \cup {c.addr}, staged \ {c.addr}}
        /\ AnswersAfter(c.addr, Answer(c, "ok"))
        /\ UNCHANGED <<held, unread, reread, owed>>
    BY <1>10 DEF RunEdits, c
  <2> QED
    BY <1>b, <1>c, <1>f, <2>1, AnswerTyped
<1>11. CASE RunPublish
  <2>1. PICK wrote \in BOOLEAN, d \in BOOLEAN :
          /\ c.addr \in staged /\ staged' = staged \ {c.addr}
          /\ owed' = owed \ {c.addr} /\ ReadSo(c.addr, TRUE, ~wrote)
          /\ AnswersAfter(c.addr, [Answer(c, "ok")
                EXCEPT !.wrote = wrote, !.dropped = d])
    BY <1>11 DEF RunPublish, c
  <2>2. /\ held' \subseteq Addr /\ unread' \in [Addr -> BOOLEAN]
        /\ reread' \in [Addr -> BOOLEAN] /\ staged' \subseteq held'
        /\ owed' \subseteq Addr
    BY <1>c, <2>1 DEF ReadSo
  <2> QED
    BY <1>b, <1>c, <1>f, <2>1, <2>2, AnswerTyped
<1>12. CASE RunPublishFails
  <2>1. /\ c.addr \in staged
        /\ \/ /\ ReadSo(c.addr, TRUE, TRUE)
              /\ owed' \in {owed, owed \cup {c.addr}}
           \/ /\ ReadSo(c.addr, FALSE, reread[c.addr])
              /\ UNCHANGED owed
        /\ AnswersAfter(c.addr, Answer(c, "refused"))
        /\ UNCHANGED staged
    BY <1>12 DEF RunPublishFails, c
  <2>2. /\ held' \subseteq Addr /\ unread' \in [Addr -> BOOLEAN]
        /\ reread' \in [Addr -> BOOLEAN] /\ staged' \subseteq held'
        /\ owed' \subseteq Addr
    <3>1. c.addr \in Addr /\ reread[c.addr] \in BOOLEAN
      BY <1>c, <2>1
    <3>2. PICK read \in BOOLEAN, again \in BOOLEAN : ReadSo(c.addr, read, again)
      BY <2>1, <3>1
    <3>3. owed' \subseteq Addr /\ staged' = staged
      BY <1>c, <2>1, <3>1
    <3> QED
      BY <1>c, <3>2, <3>3 DEF ReadSo
  <2> QED
    BY <1>b, <1>f, <2>1, <2>2, AnswerTyped
<1> QED
  BY <1>1, <1>2, <1>3, <1>4, <1>5, <1>6, <1>7, <1>8, <1>9, <1>10, <1>11, <1>12
     DEF Pool

-----------------------------------------------------------------------------
(* Theorems.                                                               *)

LEMMA InitInv ==
  ASSUME Init
  PROVE  BackendInv
<1>1. None \in MaybeAddr /\ Quiet \in NoticeType
  BY QuietIsNotice DEF MaybeAddr
<1>2. ui \in ScreenType /\ Own(ui)
  BY <1>1 DEF Init, ScreenType, Own, Quiet
<1>3. ReloadAccounts \in Seq(CallType) /\ Len(ReloadAccounts) = 1
  BY <1>2, ReloadsTyped DEF ReloadAccounts
<1>4. <<>> \in Seq(CallType) /\ <<>> \in Seq(ReplyType) /\ <<>> \in Seq(Reply)
      /\ Len(<<>>) = 0
  OBVIOUS
<1>5. queue \in Seq(CallType) /\ Len(queue) = IF opened THEN 1 ELSE 0
  <2>1. CASE opened
    BY <1>3, <2>1 DEF Init
  <2>2. CASE ~opened
    BY <1>4, <2>2 DEF Init
  <2> QED
    BY <2>1, <2>2
<1>6. replies \in Seq(ReplyType) /\ replies \in Seq(Reply) /\ Len(replies) = 0
  BY <1>4 DEF Init
<1>7. inFlight \in Nat /\ inFlight = Len(queue) + Len(replies)
  BY <1>5, <1>6 DEF Init
<1>8. inFlight # 0 <=> opened
  BY <1>5, <1>6, <1>7
<1>9. Counted
  BY <1>7, <1>8, Zenon DEF Init, Counted
<1>10. TypeOK
  <2>1. presses \in 0 .. MaxCalls /\ faults \in 0 .. MaxFaults
    BY BackendAssumption DEF Init
  <2>2. busy \in BOOLEAN /\ opened \in BOOLEAN /\ ready \in BOOLEAN
    BY DEF Init
  <2>3. /\ held \subseteq Addr /\ unread \in [Addr -> BOOLEAN]
        /\ reread \in [Addr -> BOOLEAN] /\ staged \subseteq held
        /\ owed \subseteq Addr
        /\ current \in [list : BOOLEAN, shown : BOOLEAN, missed : BOOLEAN]
    BY DEF Init
  <2> QED
    BY <1>2, <1>5, <1>6, <1>7, <2>1, <2>2, <2>3 DEF TypeOK
<1> QED
  BY <1>2, <1>6, <1>9, <1>10 DEF BackendInv

\* The inductive invariant: the types, that the count of calls is the calls
\* queued and the replies queued, and that the screen is the selected account's.
THEOREM Invariant == Spec => []BackendInv
<1>1. Init => BackendInv
  BY InitInv
<1>2. BackendInv /\ [Next]_vars => BackendInv'
  <2> SUFFICES ASSUME BackendInv, [Next]_vars PROVE BackendInv'
    OBVIOUS
  <2>1. CASE Person
    BY <2>1, PersonKeeps
  <2>2. CASE Pool
    BY <2>2, PoolKeeps
  <2>3. CASE EventLoop
    BY <2>3, EventLoopKeeps
  <2>4. CASE UNCHANGED vars
    BY <2>4 DEF vars, BackendInv, TypeOK, Own, Counted
  <2> QED
    BY <2>1, <2>2, <2>3, <2>4 DEF Next
<1> QED
  BY <1>1, <1>2, PTL DEF Spec

\* Every variable of the backend keeps its type; the count of calls in flight
\* (m_inFlight) never goes below zero.
THEOREM TypeCorrect == Spec => []TypeOK
<1>1. BackendInv => TypeOK
  BY DEF BackendInv
<1> QED
  BY <1>1, Invariant, PTL

\* busy is on exactly while a call is queued, running or about to land,
\* however long the chains of calls that handlers start (call, finish).
THEOREM BusyIsRight == Spec => []BusyWhileWorking
<1>1. BackendInv => BusyWhileWorking
  <2> SUFFICES ASSUME BackendInv PROVE BusyWhileWorking
    OBVIOUS
  <2>1. queue \in Seq(CallType) /\ replies \in Seq(ReplyType)
    BY DEF BackendInv, TypeOK
  <2>2. inFlight # 0 <=> ~(queue = <<>> /\ replies = <<>>)
    BY <2>1, EmptySeq DEF BackendInv, Counted
  <2>3. queue \o replies # <<>> <=> ~(queue = <<>> /\ replies = <<>>)
    BY <2>1
  <2>4. busy <=> inFlight # 0
    BY DEF BackendInv, Counted
  <2> QED
    BY <2>2, <2>3, <2>4, Zenon DEF BusyWhileWorking
<1> QED
  BY <1>1, Invariant, PTL

\* What describes an account is never on screen with another, whatever is
\* pressed and in whatever order replies come back to a screen that has moved.
THEOREM SaysOfSelected == Spec => []SaidOfSelected
<1>1. BackendInv => SaidOfSelected
  BY DEF BackendInv, Own, SaidOfSelected
<1> QED
  BY <1>1, Invariant, PTL
=============================================================================
