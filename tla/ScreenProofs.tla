---------------------------- MODULE ScreenProofs ----------------------------
(***************************************************************************)
(* What Backend's screen comes to once everything has landed, for any      *)
(* accounts, buttons and bounds.                                           *)
(***************************************************************************)
EXTENDS BackendProofs

\* The calls that have not landed, the next to land first: those answered, and
\* after them those still queued.
Item == [call : CallType, how : {"ok", "refused", "skipped", "queued"},
         fresh : BOOLEAN, listed : SUBSET Addr, dropped : BOOLEAN,
         wrote : BOOLEAN, again : BOOLEAN]

Queued(c) == Answer(c, "queued")

Line == [n \in 1 .. Len(replies) + Len(queue) |->
            IF n <= Len(replies) THEN replies[n]
            ELSE Queued(queue[n - Len(replies)])]

Length == Len(replies) + Len(queue)

\* One of the items after the n-th is in W.
Has(n, W) == \E m \in n + 1 .. Length : Line[m] \in W

\* What a selection does to an item it passes.
Mark(u, i) == [i EXCEPT !.call = Passed(u, i.call)]

\* The event loop takes d items off the line and puts u on screen, and calls at
\* the end of the line.
Moves(u, d, calls) ==
    /\ ui' = [u EXCEPT !.moved = FALSE]
    /\ Length' = Length - d + Len(calls)
    /\ \A n \in d + 1 .. Length : Line'[n - d] = Mark(u, Line[n])
    /\ \A n \in 1 .. Len(calls) : Line'[Length - d + n] = Queued(calls[n])
    /\ UNCHANGED <<core, opened>>

\* The pool answers the first call queued with r, and what was answered before
\* is now rs.
Runs(k, rs, r) ==
    /\ k = Len(replies) + 1 /\ k <= Length
    /\ Line[k] = Queued(Head(queue))
    /\ Length' = Length
    /\ Line'[k] = r
    /\ \A n \in 1 .. k - 1 : Line[n] = replies[n] /\ Line'[n] = rs[n]
    /\ \A n \in k + 1 .. Length : Line'[n] = Line[n] /\ Line[n].how = "queued"

-----------------------------------------------------------------------------
(* The line, step by step.                                                 *)

LEMMA QueuedItem ==
  ASSUME NEW c \in CallType
  PROVE  /\ Queued(c) \in Item /\ Queued(c).call = c /\ Queued(c).how = "queued"
         /\ Queued(c).fresh
  BY DEF Queued, Answer, Item

LEMMA MarkQueued ==
  ASSUME NEW u, NEW c \in CallType
  PROVE  Mark(u, Queued(c)) = Queued(Passed(u, c))
<1> DEFINE d == Passed(u, c)
           i == Queued(c)
           j == Queued(d)
<1>1. d \in CallType
  BY PassedTyped
<1> HIDE DEF d
<1>2. i \in Item /\ j \in Item /\ i.call = c /\ j.call = d
  BY <1>1, QueuedItem
<1>3. /\ i.how = j.how /\ i.fresh = j.fresh /\ i.listed = j.listed
      /\ i.dropped = j.dropped /\ i.wrote = j.wrote /\ i.again = j.again
  BY DEF Queued, Answer
<1> HIDE DEF i, j
<1>4. [i EXCEPT !.call = d] = j
  BY <1>1, <1>2, <1>3 DEF Item
<1> QED
  BY <1>2, <1>4 DEF Mark, i, j, d

LEMMA PassedReply ==
  ASSUME NEW u, NEW rs \in Seq(Reply)
  PROVE  \A n \in 1 .. Len(rs) : PassedReplies(u, rs)[n] = Mark(u, rs[n])
<1> DEFINE m(n) == [rs[n] EXCEPT !.call = Passed(u, @)]
<1>1. \A n : m(n) = Mark(u, rs[n])
  BY DEF Mark
<1>2. PassedReplies(u, rs) = [n \in DOMAIN rs |-> m(n)]
  BY DEF PassedReplies
<1>3. DOMAIN rs = 1 .. Len(rs)
  OBVIOUS
<1> HIDE DEF m
<1> QED
  BY <1>1, <1>2, <1>3

LEMMA LineTyped ==
  ASSUME BackendInv
  PROVE  /\ Length \in Nat /\ Len(replies) \in Nat /\ Len(queue) \in Nat
         /\ \A n \in 1 .. Length : Line[n] \in Item
         /\ \A n \in 1 .. Len(replies) : Line[n] = replies[n] /\ Line[n] \in Reply
         /\ \A n \in Len(replies) + 1 .. Length :
                Line[n] = Queued(queue[n - Len(replies)])
                /\ queue[n - Len(replies)] \in CallType
<1>1. replies \in Seq(Reply) /\ queue \in Seq(CallType)
  BY DEF BackendInv, TypeOK
<1>2. Len(replies) \in Nat /\ Len(queue) \in Nat
  BY <1>1
<1>3. \A n \in 1 .. Len(replies) : replies[n] \in Reply
  BY <1>1
<1>4. \A n \in Len(replies) + 1 .. Length : queue[n - Len(replies)] \in CallType
  <2> SUFFICES ASSUME NEW n \in Len(replies) + 1 .. Length
               PROVE  queue[n - Len(replies)] \in CallType
    OBVIOUS
  <2>1. n - Len(replies) \in 1 .. Len(queue)
    BY <1>2 DEF Length
  <2> QED
    BY <1>1, <2>1
<1>5. \A n \in 1 .. Len(replies) : Line[n] = replies[n]
  BY <1>2 DEF Line
<1>6. \A n \in Len(replies) + 1 .. Length : Line[n] = Queued(queue[n - Len(replies)])
  BY <1>2 DEF Line, Length
<1>7. Reply \subseteq Item
  BY DEF Reply, ReplyType, Item
<1>8. \A n \in 1 .. Length : Line[n] \in Item
  <2> SUFFICES ASSUME NEW n \in 1 .. Length PROVE Line[n] \in Item
    OBVIOUS
  <2>1. CASE n <= Len(replies)
    <3>1. n \in 1 .. Len(replies)
      BY <1>2, <2>1 DEF Length
    <3> QED
      BY <1>3, <1>5, <1>7, <3>1
  <2>2. CASE n > Len(replies)
    <3>1. n \in Len(replies) + 1 .. Length
      BY <1>2, <2>2 DEF Length
    <3> QED
      BY <1>4, <1>6, <3>1, QueuedItem
  <2> QED
    BY <1>2, <2>1, <2>2 DEF Length
<1> QED
  BY <1>2, <1>3, <1>4, <1>5, <1>6, <1>8 DEF Length

\* The line is empty when nothing is queued and nothing is about to land.
LEMMA LineEmpty ==
  ASSUME BackendInv
  PROVE  busy <=> Length # 0
<1>1. inFlight = Len(queue) + Len(replies) /\ (busy <=> inFlight # 0)
  BY DEF BackendInv, Counted
<1>2. Len(queue) + Len(replies) = Length
  BY LineTyped DEF Length
<1> QED
  BY <1>1, <1>2

Joins(j, s, t) ==
    /\ Len(j) = Len(s) + Len(t)
    /\ \A n \in 1 .. Len(s) : j[n] = s[n]
    /\ \A n \in 1 .. Len(t) : j[Len(s) + n] = t[n]

LEMMA Joined ==
  ASSUME NEW S, NEW s \in Seq(S), NEW t \in Seq(S)
  PROVE  Joins(s \o t, s, t)
<1>1. Len(s) \in Nat /\ Len(t) \in Nat
  OBVIOUS
<1>2. Len(s \o t) = Len(s) + Len(t)
  OBVIOUS
<1>3. \A n \in 1 .. Len(s) : (s \o t)[n] = s[n]
  BY <1>1
<1>4. ASSUME NEW n \in 1 .. Len(t)
      PROVE  (s \o t)[Len(s) + n] = t[n]
  <2>1. Len(s) + n \in Len(s) + 1 .. Len(s) + Len(t)
        /\ ~(Len(s) + n <= Len(s)) /\ Len(s) + n - Len(s) = n
    BY <1>1
  <2>2. Len(s) + n \in 1 .. Len(s) + Len(t)
    BY <1>1, <2>1
  <2> QED
    BY <2>1, <2>2
<1> QED
  BY <1>2, <1>3, <1>4 DEF Joins

LEMMA CallsMade ==
  ASSUME NEW u, NEW cs \in Seq(CallType), NEW calls \in Seq(CallType)
  PROVE  /\ Len(PassedCalls(u, cs) \o calls) = Len(cs) + Len(calls)
         /\ \A n \in 1 .. Len(cs) :
                (PassedCalls(u, cs) \o calls)[n] = Passed(u, cs[n])
         /\ \A n \in 1 .. Len(calls) :
                (PassedCalls(u, cs) \o calls)[Len(cs) + n] = calls[n]
<1> DEFINE q == PassedCalls(u, cs)
<1>0. q \in Seq(CallType)
  BY PassedCallsTyped
<1>1. Len(q) = Len(cs)
  BY PassedCallsTyped
<1>2. \A n \in 1 .. Len(cs) : q[n] = Passed(u, cs[n])
  BY DEF PassedCalls
<1> HIDE DEF q
<1>3. Joins(q \o calls, q, calls)
  BY <1>0, Joined
<1> QED
  BY <1>1, <1>2, <1>3 DEF q, Joins

\* Both ways the event loop makes calls queue them alike.
LEMMA QueueMade ==
  ASSUME BackendInv, NEW u, NEW calls \in Seq(CallType),
         queue' = PassedCalls(u, queue) \o calls
  PROVE  /\ Len(queue') = Len(queue) + Len(calls)
         /\ \A n \in 1 .. Len(queue) : queue'[n] = Passed(u, queue[n])
         /\ \A n \in 1 .. Len(calls) : queue'[Len(queue) + n] = calls[n]
<1>1. queue \in Seq(CallType)
  BY DEF BackendInv, TypeOK
<1> QED
  BY <1>1, CallsMade

LEMMA PlaceKept ==
  ASSUME NEW R \in Nat, NEW Q \in Nat, NEW C \in Nat, NEW d \in {0, 1}, d <= R,
         NEW R1, NEW Q1, R1 = R - d, Q1 = Q + C, NEW L, L = R + Q,
         NEW n \in d + 1 .. L
  PROVE  /\ n - d \in 1 .. R1 + Q1 /\ n \in 1 .. R + Q
         /\ (n - d <= R1 <=> n <= R) /\ (n - d) - R1 = n - R
<1>1. CASE d = 0
  BY <1>1
<1>2. CASE d = 1
  BY <1>2
<1> QED
  BY <1>1, <1>2

LEMMA PlaceNew ==
  ASSUME NEW R \in Nat, NEW Q \in Nat, NEW C \in Nat, NEW d \in {0, 1}, d <= R,
         NEW R1, NEW Q1, R1 = R - d, Q1 = Q + C, NEW L, L = R + Q,
         NEW n \in 1 .. C
  PROVE  /\ L - d + n \in 1 .. R1 + Q1 /\ ~(L - d + n <= R1)
         /\ (L - d + n) - R1 = Q + n
<1>1. CASE d = 0
  BY <1>1
<1>2. CASE d = 1
  BY <1>2
<1> QED
  BY <1>1, <1>2

Shifts(u, d, calls) ==
    /\ d <= Len(replies)
    /\ ui' = [u EXCEPT !.moved = FALSE]
    /\ UNCHANGED <<core, opened>>
    /\ queue' = PassedCalls(u, queue) \o calls
    /\ Len(replies') = Len(replies) - d
    /\ \A n \in d + 1 .. Len(replies) : replies'[n - d] = Mark(u, replies[n])

LEMMA LineMoves ==
  ASSUME BackendInv, NEW u, NEW d \in {0, 1}, NEW calls \in Seq(CallType),
         Shifts(u, d, calls)
  PROVE  Moves(u, d, calls)
<1>1. replies \in Seq(Reply) /\ queue \in Seq(CallType)
  BY DEF BackendInv, TypeOK
<1>2. /\ Len(replies) \in Nat /\ Len(queue) \in Nat /\ Len(calls) \in Nat
      /\ d \in Nat
  BY <1>1
<1>3. /\ Len(queue') = Len(queue) + Len(calls)
      /\ \A n \in 1 .. Len(queue) : queue'[n] = Passed(u, queue[n])
      /\ \A n \in 1 .. Len(calls) : queue'[Len(queue) + n] = calls[n]
  BY QueueMade DEF Shifts
<1>a. /\ Len(queue') = Len(queue) + Len(calls) /\ Len(replies') = Len(replies) - d
      /\ d <= Len(replies)
  BY <1>3 DEF Shifts
<1> DEFINE R == Len(replies)
           Q == Len(queue)
           R1 == Len(replies')
           Q1 == Len(queue')
           C == Len(calls)
<1>b. /\ R \in Nat /\ Q \in Nat /\ C \in Nat /\ d \in Nat /\ d <= R
      /\ R1 = R - d /\ Q1 = Q + C /\ Length = R + Q /\ Length' = R1 + Q1
  BY <1>2, <1>a DEF Length
<1> HIDE DEF R, Q, R1, Q1, C
<1>4. Length' = Length - d + C /\ Length \in Nat
  BY <1>b
<1>5. ASSUME NEW n \in d + 1 .. Length
      PROVE  Line'[n - d] = Mark(u, Line[n])
  <2> DEFINE m == n - d
  <2>0. /\ m \in 1 .. R1 + Q1 /\ n \in 1 .. R + Q
        /\ (m <= R1 <=> n <= R) /\ m - R1 = n - R
    <3>1. /\ R \in Nat /\ Q \in Nat /\ C \in Nat /\ d <= R /\ R1 = R - d
          /\ Q1 = Q + C /\ Length = R + Q
      BY <1>b
    <3> QED
      BY <3>1, PlaceKept
  <2> DEFINE p == n - R
  <2>1. CASE n <= R
    <3>1. n \in d + 1 .. R
      BY <1>b, <2>1
    <3>2. replies'[m] = Mark(u, replies[n])
      BY <3>1 DEF R, Shifts
    <3> HIDE DEF m
    <3>3. Line[n] = replies[n] /\ Line'[m] = replies'[m]
      BY <2>0, <2>1 DEF Line, R, Q, R1, Q1
    <3> QED
      BY <3>2, <3>3 DEF m
  <2>2. CASE ~(n <= R)
    <3>1. p \in 1 .. Q
      BY <1>b, <2>2
    <3>2. queue[p] \in CallType
      BY <1>1, <3>1 DEF Q
    <3>3. queue'[p] = Passed(u, queue[p])
      BY <1>3, <3>1 DEF Q
    <3> HIDE DEF m
    <3>4. Line[n] = Queued(queue[p]) /\ Line'[m] = Queued(queue'[m - R1])
      BY <2>0, <2>2 DEF Line, R, Q, R1, Q1
    <3>5. m - R1 = p
      BY <2>0
    <3> HIDE DEF p
    <3>6. Mark(u, Queued(queue[p])) = Queued(Passed(u, queue[p]))
      BY <3>2, MarkQueued
    <3> QED
      BY <3>3, <3>4, <3>5, <3>6 DEF m
  <2> QED
    BY <2>1, <2>2
<1>6. ASSUME NEW n \in 1 .. C
      PROVE  Line'[Length - d + n] = Queued(calls[n])
  <2> DEFINE m == Length - d + n
             p == m - R1
  <2>1. /\ m \in 1 .. R1 + Q1
        /\ ~(m <= R1) /\ p = Q + n
    <3>1. /\ R \in Nat /\ Q \in Nat /\ C \in Nat /\ d <= R /\ R1 = R - d
          /\ Q1 = Q + C /\ Length = R + Q
      BY <1>b
    <3> QED
      BY <3>1, PlaceNew
  <2> HIDE DEF m
  <2>2. Line'[m] = Queued(queue'[p])
    BY <2>1 DEF Line, R1, Q1
  <2> HIDE DEF p
  <2>3. queue'[p] = calls[n]
    BY <1>3, <2>1 DEF Q, C
  <2> QED
    BY <2>2, <2>3 DEF m
<1> QED
  BY <1>4, <1>5, <1>6 DEF Moves, Shifts, C

LEMMA LineStarts ==
  ASSUME BackendInv, NEW u, NEW calls \in Seq(CallType), Start(u, calls)
  PROVE  Moves(u, 0, IF opened THEN calls ELSE <<>>)
<1> DEFINE made == IF opened THEN calls ELSE <<>>
<1>1. made \in Seq(CallType)
  OBVIOUS
<1>2. /\ ui' = [u EXCEPT !.moved = FALSE]
      /\ queue' = PassedCalls(u, queue) \o made
      /\ replies' = PassedReplies(u, replies)
      /\ UNCHANGED <<core, opened>>
  BY DEF Start
<1> HIDE DEF made
<1>3. replies \in Seq(Reply)
  BY DEF BackendInv
<1>4. /\ Len(replies) \in Nat /\ Len(replies') = Len(replies) - 0
      /\ 0 <= Len(replies)
  BY <1>2, <1>3, PassedRepliesTyped
<1>5. \A n \in 0 + 1 .. Len(replies) : replies'[n - 0] = Mark(u, replies[n])
  BY <1>2, <1>3, <1>4, PassedReply
<1>6. Moves(u, 0, made)
  BY <1>1, <1>2, <1>4, <1>5, LineMoves DEF Shifts
<1> QED
  BY <1>6 DEF made

LEMMA LineFinishes ==
  ASSUME BackendInv, replies # <<>>, NEW u, NEW calls \in Seq(CallType),
         Finish(u, calls)
  PROVE  Moves(u, 1, calls)
<1>1. /\ ui' = [u EXCEPT !.moved = FALSE]
      /\ queue' = PassedCalls(u, queue) \o calls
      /\ replies' = PassedReplies(u, Tail(replies))
      /\ UNCHANGED <<core, opened>>
  BY DEF Finish
<1>2. replies \in Seq(Reply)
  BY DEF BackendInv
<1> DEFINE t == Tail(replies)
<1>3. /\ t \in Seq(Reply) /\ Len(t) = Len(replies) - 1
      /\ \A n \in 1 .. Len(t) : t[n] = replies[n + 1]
  BY <1>2, HeadTailProperties
<1> HIDE DEF t
<1>4. Len(replies) \in Nat /\ Len(replies) # 0
  BY <1>2, EmptySeq
<1>5. Len(replies') = Len(replies) - 1 /\ 1 <= Len(replies)
  <2>1. replies' = PassedReplies(u, t)
    BY <1>1 DEF t
  <2>2. Len(replies') = Len(t)
    BY <1>3, <2>1, PassedRepliesTyped
  <2> QED
    BY <1>3, <1>4, <2>2
<1>6. ASSUME NEW n \in 1 + 1 .. Len(replies)
      PROVE  replies'[n - 1] = Mark(u, replies[n])
  <2>1. n - 1 \in 1 .. Len(t) /\ (n - 1) + 1 = n
    BY <1>3, <1>4
  <2>2. replies'[n - 1] = Mark(u, t[n - 1])
    BY <1>1, <1>3, <2>1, PassedReply DEF t
  <2> QED
    BY <1>3, <2>1, <2>2
<1> QED
  BY <1>1, <1>5, <1>6, LineMoves DEF Shifts

LEMMA LineRuns ==
  ASSUME BackendInv, queue # <<>>, NEW rs \in Seq(Reply), Len(rs) = Len(replies),
         NEW r \in Reply, queue' = Tail(queue), replies' = Append(rs, r)
  PROVE  Runs(Len(replies) + 1, rs, r)
<1> DEFINE k == Len(replies) + 1
<1>1. queue \in Seq(CallType) /\ replies \in Seq(Reply)
  BY DEF BackendInv, TypeOK
<1>2. Len(queue) \in Nat /\ Len(replies) \in Nat /\ Len(queue) # 0
  BY <1>1, EmptySeq
<1>3. /\ Len(queue') = Len(queue) - 1 /\ Head(queue) = queue[1]
      /\ \A n \in 1 .. Len(queue) - 1 : queue'[n] = queue[n + 1]
  BY <1>1, HeadTailProperties
<1>4. /\ Len(replies') = Len(replies) + 1 /\ replies'[k] = r
      /\ \A n \in 1 .. Len(replies) : replies'[n] = rs[n]
  BY AppendProperties
<1>5. Length' = Length /\ k <= Length /\ k \in 1 .. Length /\ Length \in Nat
  BY <1>2, <1>3, <1>4 DEF Length
<1>6. Line[k] = Queued(Head(queue))
  <2>1. k \in 1 .. Len(replies) + Len(queue) /\ ~(k <= Len(replies))
        /\ k - Len(replies) = 1
    BY <1>2
  <2> HIDE DEF k
  <2>2. Line[k] = Queued(queue[k - Len(replies)])
    BY <2>1 DEF Line
  <2> QED
    BY <1>3, <2>1, <2>2
<1>7. Line'[k] = r
  <2>1. k \in 1 .. Len(replies') + Len(queue') /\ k <= Len(replies')
    BY <1>2, <1>3, <1>4
  <2> HIDE DEF k
  <2> QED
    BY <1>4, <2>1 DEF Line
<1>8. ASSUME NEW n \in 1 .. k - 1
      PROVE  Line[n] = replies[n] /\ Line'[n] = rs[n]
  <2>1. /\ n \in 1 .. Len(replies') + Len(queue') /\ n <= Len(replies')
        /\ n \in 1 .. Len(replies) + Len(queue) /\ n <= Len(replies)
        /\ n \in 1 .. Len(replies)
    BY <1>2, <1>3, <1>4
  <2> QED
    BY <1>4, <2>1 DEF Line
<1>9. ASSUME NEW n \in k + 1 .. Length
      PROVE  Line'[n] = Line[n] /\ Line[n].how = "queued"
  <2> DEFINE p == n - Len(replies)
             q == n - Len(replies')
  <2>1. /\ n \in 1 .. Len(replies') + Len(queue') /\ ~(n <= Len(replies'))
        /\ n \in 1 .. Len(replies) + Len(queue) /\ ~(n <= Len(replies))
        /\ p \in 1 .. Len(queue) /\ q \in 1 .. Len(queue) - 1 /\ p = q + 1
    BY <1>2, <1>3, <1>4 DEF Length
  <2>2. Line[n] = Queued(queue[p]) /\ Line'[n] = Queued(queue'[q])
    BY <2>1 DEF Line
  <2> HIDE DEF p, q
  <2>3. queue'[q] = queue[p]
    BY <1>3, <2>1
  <2>4. Line[n].how = "queued"
    BY <2>2 DEF Queued, Answer
  <2> QED
    BY <2>2, <2>3, <2>4
<1> QED
  BY <1>5, <1>6, <1>7, <1>8, <1>9 DEF Runs

-----------------------------------------------------------------------------
(* What the event loop's steps come to, by what the screen shows after them *)
(* and which calls they make.  u is the screen they put in the place of ui. *)

\* A core that could not open has nothing to show and gets no calls.
Closed ==
    ~opened => Length = 0 /\ ui.selected = None /\ ui.list = {} /\ ui.vaultProblem

\* An account taken is known by its address.
Named ==
    \A n \in 1 .. Length :
        Line[n].call.what \in Takings /\ Line[n].how = "ok" =>
            Line[n].call.addr \in Addr

ScreenInv == BackendInv /\ Closed /\ Named /\ ~ui.moved

\* The calls that neither draw nor read nor write.
Asks == Calls \ {"accounts", "state", "refresh", "publish"}

Still(u) ==
    /\ ~u.moved /\ u.selected = ui.selected /\ u.list = ui.list
    /\ u.shown = ui.shown /\ u.vaultProblem = ui.vaultProblem

Alike(u) ==
    Still(u) /\ u.storeProblem = ui.storeProblem /\ u.status = ui.status

\* Another account is selected.
Turned(u) ==
    /\ u.moved /\ u.list = ui.list /\ u.shown = ui.shown
    /\ u.vaultProblem = ui.vaultProblem /\ u.storeProblem = ui.storeProblem

\* The first item is the answer how to what.
First(what, how) ==
    /\ 1 <= Len(replies) /\ Line[1] \in Reply
    /\ Line[1].call.what = what /\ Line[1].how = how

Pressed(u, d, calls) ==
    /\ d = 0 /\ Alike(u) /\ UNCHANGED current
    /\ UNCHANGED ready \/ (ready' /\ u.selected = None)
    /\ calls = <<>> \/ \E c \in CallType : c.what \in Asks /\ calls = <<c>>

\* The account on screen is read again: asked for, or because the store
\* refused a publish of it.
ReadsAgain(u, d, calls) ==
    /\ d = 0 \/ (First("publish", "refused") /\ UNCHANGED ready)
    /\ ready => ready'
    /\ Still(u) /\ u.storeProblem = ui.storeProblem /\ u.status = "reading"
    /\ UNCHANGED current
    /\ u.selected # None /\ calls = <<Call("refresh", u.selected)>>

Selects(u, d, calls) ==
    /\ d = 0 /\ u.selected \in ui.list
    /\ Turned(u) /\ u.status = "reading" /\ UNCHANGED <<ready, current>>
    /\ calls = <<Call("state", u.selected), Call("refresh", u.selected)>>

Writes(u, d, calls) ==
    /\ d = 0 /\ Still(u) /\ u.storeProblem = ui.storeProblem
    /\ u.status = "publishing" /\ UNCHANGED <<ready, current>>
    /\ u.selected # None /\ calls = <<Call("publish", u.selected)>>

LandsQuietly(u, d, calls) ==
    /\ d = 1 /\ Alike(u) /\ UNCHANGED <<ready, current>> /\ calls = <<>>
    /\ \/ First("refresh", "skipped")
       \/ First("exportAccount", "ok")
       \/ First("state", "ok") /\ Line[1].call.addr # ui.selected
       \/ First("state", "refused") /\ Line[1].call.addr # ui.selected
       \/ \E what \in Asks : First(what, "refused")

\* The accounts are listed again, and nothing else changes.
ListsAgain(u, d, calls) ==
    /\ Alike(u) /\ UNCHANGED <<ready, current>> /\ calls = ReloadAccounts
    /\ \/ d = 0 /\ u.selected = None
       \/ /\ d = 1
          /\ \/ First("unlock", "ok")
             \/ \E what \in Stagings : First(what, "ok")
             \/ \E what \in Leavings :
                    First(what, "ok") /\ Line[1].call.addr # ui.selected
             \/ First("refresh", "ok") /\ ~Line[1].call.wanted
             \/ First("refresh", "refused") /\ ~Line[1].call.wanted
             \/ /\ First("publish", "refused")
                /\ Line[1].call.addr # ui.selected \/ u.selected = None

\* The store was read, or written.
ReadsWell(u, d, calls) ==
    /\ d = 1 /\ Still(u) /\ ~u.storeProblem /\ u.status = "ready"
    /\ UNCHANGED <<ready, current>> /\ calls = ReloadAccounts
    /\ \/ First("refresh", "ok") /\ Line[1].call.wanted
       \/ First("publish", "ok")

ReadsBadly(u, d, calls) ==
    /\ d = 1 /\ Still(u) /\ u.storeProblem /\ u.status = "store"
    /\ UNCHANGED <<ready, current>> /\ calls = ReloadAccounts
    /\ First("refresh", "refused") /\ Line[1].call.wanted

\* There is no account to list.
ListsNone(u, d, calls) ==
    /\ d = 1 /\ First("accounts", "ok") /\ Line[1].listed = {}
    /\ u.moved /\ u.selected = None /\ u.list = {} /\ u.shown = None
    /\ ~u.vaultProblem /\ u.storeProblem = ui.storeProblem /\ u.status = "empty"
    /\ UNCHANGED ready /\ current' = [Listed(Line[1]) EXCEPT !.shown = TRUE]
    /\ calls = <<>>

\* The accounts are listed, the one selected among them.
ListsOn(u, d, calls) ==
    /\ d = 1 /\ First("accounts", "ok") /\ ui.selected \in Line[1].listed
    /\ ~u.moved /\ u.selected = ui.selected /\ u.list = Line[1].listed
    /\ u.shown = ui.shown /\ ~u.vaultProblem
    /\ u.storeProblem = ui.storeProblem /\ u.status = ui.status
    /\ UNCHANGED ready /\ current' = Listed(Line[1])
    /\ calls = <<Call("state", u.selected)>>

\* The accounts are listed, and the first of them is selected.
ListsFirst(u, d, calls) ==
    /\ d = 1 /\ First("accounts", "ok")
    /\ u.moved /\ u.selected \in Line[1].listed /\ u.list = Line[1].listed
    /\ u.shown = ui.shown /\ ~u.vaultProblem
    /\ u.storeProblem = ui.storeProblem
    /\ UNCHANGED ready /\ current' = Listed(Line[1])
    /\ IF ready
       THEN /\ u.status = "reading"
            /\ calls = <<Call("state", u.selected), Call("refresh", u.selected)>>
       ELSE calls = <<Call("state", u.selected)>>

VaultFails(u, d, calls) ==
    /\ d = 1
    /\ \/ First("accounts", "refused")
       \/ First("state", "refused") /\ Line[1].call.addr = ui.selected
    /\ ~u.moved /\ u.selected = ui.selected /\ u.list = ui.list
    /\ u.shown = ui.shown /\ u.vaultProblem
    /\ u.storeProblem = ui.storeProblem /\ u.status = "vault"
    /\ UNCHANGED <<ready, current>> /\ calls = <<>>

Draws(u, d, calls) ==
    /\ d = 1 /\ First("state", "ok") /\ Line[1].call.addr = ui.selected
    /\ ~u.moved /\ u.selected = ui.selected /\ u.list = ui.list
    /\ u.shown = ui.selected /\ ~u.vaultProblem
    /\ u.storeProblem = ui.storeProblem /\ u.status = ui.status
    /\ UNCHANGED ready /\ current' = [current EXCEPT !.shown = Line[1].fresh]
    /\ calls = <<>>

Takes(u, d, calls) ==
    /\ d = 1 /\ \E what \in Takings : First(what, "ok")
    /\ Turned(u) /\ UNCHANGED <<ready, current>>
    /\ u.selected = Line[1].call.addr /\ u.selected \in Addr
    /\ u.status = "reading"
    /\ calls = <<Call("accounts", None), Call("state", u.selected),
                 Call("refresh", u.selected)>>

LetsGo(u, d, calls) ==
    /\ d = 1 /\ \E what \in Leavings : First(what, "ok")
    /\ Turned(u) /\ u.status = ui.status /\ UNCHANGED <<ready, current>>
    /\ u.selected = None /\ calls = ReloadAccounts

Event(u, d, calls) ==
    /\ u \in ScreenType /\ calls \in Seq(CallType) /\ d \in {0, 1}
    /\ d <= Len(replies) /\ (opened \/ calls = <<>>)
    /\ Moves(u, d, calls)
    /\ \/ Pressed(u, d, calls) \/ ReadsAgain(u, d, calls) \/ Selects(u, d, calls)
       \/ Writes(u, d, calls) \/ LandsQuietly(u, d, calls)
       \/ ListsAgain(u, d, calls) \/ ReadsWell(u, d, calls)
       \/ ReadsBadly(u, d, calls) \/ ListsNone(u, d, calls)
       \/ ListsOn(u, d, calls) \/ ListsFirst(u, d, calls)
       \/ VaultFails(u, d, calls) \/ Draws(u, d, calls) \/ Takes(u, d, calls)
       \/ LetsGo(u, d, calls)

LEMMA SelectShows ==
  ASSUME NEW u \in ScreenType, NEW a \in MaybeAddr
  PROVE  LET s == Select(u, a)
         IN  /\ s \in ScreenType /\ s.moved /\ s.selected = a
             /\ s.list = u.list /\ s.shown = u.shown /\ s.status = u.status
             /\ s.vaultProblem = u.vaultProblem /\ s.storeProblem = u.storeProblem
<1> DEFINE n == IF a \in u.away THEN Notice("dropped", a) ELSE Quiet
           s == Select(u, a)
<1>1. s \in ScreenType
  BY SelectDraws DEF Drawn
<1>2. s = [u EXCEPT !.moved = TRUE, !.selected = a, !.firstNew = None,
                    !.notice = n, !.away = u.away \ {a}]
  BY DEF Select, ScreenType
<1> HIDE DEF n, s
<1>3. /\ s.moved /\ s.selected = a
      /\ s.list = u.list /\ s.shown = u.shown /\ s.status = u.status
      /\ s.vaultProblem = u.vaultProblem /\ s.storeProblem = u.storeProblem
  BY <1>2 DEF ScreenType
<1> QED
  BY <1>1, <1>3 DEF s

LEMMA ReadingShows ==
  ASSUME NEW u \in ScreenType, u.selected # None
  PROVE  LET s == Reading(u)
         IN  /\ s \in ScreenType /\ s.moved = u.moved /\ s.selected = u.selected
             /\ s.list = u.list /\ s.shown = u.shown /\ s.status = "reading"
             /\ s.vaultProblem = u.vaultProblem /\ s.storeProblem = u.storeProblem
  BY DEF Reading, ScreenType

\* A notice changes nothing else that is drawn.
LEMMA NoticeShows ==
  ASSUME NEW u \in ScreenType, NEW n \in NoticeType
  PROVE  LET s == [u EXCEPT !.notice = n]
         IN  /\ s \in ScreenType /\ s.moved = u.moved /\ s.selected = u.selected
             /\ s.list = u.list /\ s.shown = u.shown /\ s.status = u.status
             /\ s.vaultProblem = u.vaultProblem /\ s.storeProblem = u.storeProblem
  BY DEF ScreenType

LEMMA DroppingShows ==
  ASSUME NEW u \in ScreenType, NEW r \in Reply
  PROVE  LET s == Dropping(u, r)
         IN  /\ s \in ScreenType /\ s.moved = u.moved /\ s.selected = u.selected
             /\ s.list = u.list /\ s.shown = u.shown /\ s.status = u.status
             /\ s.vaultProblem = u.vaultProblem /\ s.storeProblem = u.storeProblem
<1>1. CASE ~r.dropped
  BY <1>1 DEF Dropping
<1>2. CASE r.dropped /\ r.call.addr = u.selected
  <2>1. Notice("dropped", u.selected) \in NoticeType
    BY NoticeTyped DEF ScreenType
  <2> QED
    BY <1>2, <2>1, NoticeShows DEF Dropping
<1>3. CASE r.dropped /\ r.call.addr # u.selected
  <2>1. r.call.addr \in Addr
    BY <1>3 DEF Reply
  <2>2. Dropping(u, r) = [u EXCEPT !.away = u.away \cup {r.call.addr}]
    BY <1>3 DEF Dropping, ScreenType
  <2> QED
    BY <2>1, <2>2 DEF ScreenType
<1> QED
  BY <1>1, <1>2, <1>3

LEMMA ReportShows ==
  ASSUME NEW u \in ScreenType, NEW c \in CallType
  PROVE  LET s == Report(u, c)
         IN  /\ s \in ScreenType /\ s.moved = u.moved /\ s.selected = u.selected
             /\ s.list = u.list /\ s.shown = u.shown /\ s.status = u.status
             /\ s.vaultProblem = u.vaultProblem /\ s.storeProblem = u.storeProblem
<1>1. Notice("error", c.addr) \in NoticeType
  BY NoticeTyped DEF CallType
<1> QED
  BY <1>1, NoticeShows DEF Report

LEMMA OneMore ==
  ASSUME NEW S, NEW s \in Seq(S), NEW x \in S, NEW t \in Seq(S),
         Len(t) = Len(s) + 1, \A n \in 1 .. Len(s) : t[n] = s[n],
         t[Len(s) + 1] = x
  PROVE  s \o <<x>> = t
<1> DEFINE o == <<x>>
<1>1. o \in Seq(S) /\ Len(o) = 1 /\ o[1] = x
  OBVIOUS
<1> HIDE DEF o
<1>2. Len(s) \in Nat
  OBVIOUS
<1>3. /\ s \o o \in Seq(S) /\ Len(s \o o) = Len(s) + 1
      /\ \A n \in 1 .. Len(s) + 1 :
            (s \o o)[n] = IF n <= Len(s) THEN s[n] ELSE o[n - Len(s)]
  <2>1. /\ s \o o \in Seq(S) /\ Len(s \o o) = Len(s) + Len(o)
        /\ \A n \in 1 .. Len(s) + Len(o) :
              (s \o o)[n] = IF n <= Len(s) THEN s[n] ELSE o[n - Len(s)]
    BY <1>1, ConcatProperties, Zenon
  <2> QED
    BY <1>1, <2>1
<1>4. ASSUME NEW n \in 1 .. Len(s) + 1
      PROVE  (s \o o)[n] = t[n]
  <2>1. CASE n <= Len(s)
    BY <1>2, <1>3, <2>1
  <2>2. CASE ~(n <= Len(s))
    <3>1. n = Len(s) + 1 /\ n - Len(s) = 1
      BY <1>2, <2>2
    <3> QED
      BY <1>1, <1>3, <2>2, <3>1
  <2> QED
    BY <2>1, <2>2
<1> QED
  BY <1>3, <1>4, SeqEqual DEF o

LEMMA OneAfterOne ==
  ASSUME NEW x, NEW y, NEW z
  PROVE  <<x>> \o <<y>> = <<x, y>> /\ <<x, y>> \o <<z>> = <<x, y, z>>
<1> DEFINE S == {x, y, z}
           a == <<x>>
           b == <<x, y>>
           c == <<x, y, z>>
<1>1. /\ a \in Seq(S) /\ b \in Seq(S) /\ c \in Seq(S)
      /\ Len(a) = 1 /\ Len(b) = 2 /\ Len(c) = 3
      /\ a[1] = x /\ b[1] = x /\ b[2] = y /\ c[1] = x /\ c[2] = y /\ c[3] = z
      /\ y \in S /\ z \in S
  OBVIOUS
<1> HIDE DEF S, a, b, c
<1>2. a \o <<y>> = b
  <2>1. /\ Len(b) = Len(a) + 1 /\ \A n \in 1 .. Len(a) : b[n] = a[n]
        /\ b[Len(a) + 1] = y
    BY <1>1
  <2> QED
    BY <1>1, <2>1, OneMore, Zenon
<1>3. b \o <<z>> = c
  <2>1. /\ Len(c) = Len(b) + 1 /\ \A n \in 1 .. Len(b) : c[n] = b[n]
        /\ c[Len(b) + 1] = z
    BY <1>1
  <2> QED
    BY <1>1, <2>1, OneMore, Zenon
<1> QED
  BY <1>2, <1>3 DEF a, b, c

LEMMA ReadCalls ==
  ASSUME NEW u \in ScreenType, u.selected # None
  PROVE  /\ Read(u) = <<Call("refresh", u.selected)>>
         /\ ReloadState(u) = <<Call("state", u.selected)>>
         /\ ReloadState(u) \o Read(u)
              = <<Call("state", u.selected), Call("refresh", u.selected)>>
         /\ ReloadAccounts \o ReloadState(u) \o Read(u)
              = <<Call("accounts", None), Call("state", u.selected),
                  Call("refresh", u.selected)>>
<1> DEFINE c == Call("accounts", None)
           s == Call("state", u.selected)
           r == Call("refresh", u.selected)
<1>1. ReloadAccounts = <<c>> /\ ReloadState(u) = <<s>> /\ Read(u) = <<r>>
  BY DEF ReloadAccounts, ReloadState, Read
<1> HIDE DEF c, s, r
<1>2. <<s>> \o <<r>> = <<s, r>>
  BY OneAfterOne
<1>3. <<c>> \o <<s>> = <<c, s>> /\ <<c, s>> \o <<r>> = <<c, s, r>>
  BY OneAfterOne
<1> QED
  BY <1>1, <1>2, <1>3 DEF c, s, r

LEMMA PersonMoves ==
  ASSUME ScreenInv, Person
  PROVE  \E u \in ScreenType, calls \in Seq(CallType) : Event(u, 0, calls)
<1>0. /\ BackendInv /\ Closed /\ ~ui.moved /\ ui \in ScreenType
      /\ ui.selected \in MaybeAddr /\ None \in MaybeAddr /\ ui.list \subseteq Addr
      /\ <<>> \in Seq(CallType) /\ 0 <= Len(replies) /\ Len(replies) \in Nat
  BY LineTyped DEF ScreenInv, BackendInv, TypeOK, ScreenType, MaybeAddr
<1>1. ASSUME NEW u \in ScreenType, NEW calls \in Seq(CallType), Start(u, calls)
      PROVE  /\ Moves(u, 0, IF opened THEN calls ELSE <<>>) /\ UNCHANGED current
             /\ (IF opened THEN calls ELSE <<>>) \in Seq(CallType)
  <2>1. Moves(u, 0, IF opened THEN calls ELSE <<>>)
    BY <1>0, <1>1, LineStarts
  <2> QED
    BY <1>0, <1>1, <2>1 DEF Start
<1>2. ASSUME NEW button, NEW u \in ScreenType, NEW calls \in Seq(CallType),
             Press(button, u, calls)
      PROVE  /\ Moves(u, 0, IF opened THEN calls ELSE <<>>)
             /\ (IF opened THEN calls ELSE <<>>) \in Seq(CallType)
             /\ UNCHANGED <<ready, current>>
  BY <1>1, <1>2 DEF Press
<1>3. ASSUME NEW u \in ScreenType, Alike(u), NEW c \in CallType, c.what \in Asks,
             Moves(u, 0, IF opened THEN <<c>> ELSE <<>>), UNCHANGED <<ready, current>>
      PROVE  \E calls \in Seq(CallType) : Event(u, 0, calls)
  <2> DEFINE made == IF opened THEN <<c>> ELSE <<>>
  <2>1. /\ made \in Seq(CallType) /\ (made = <<>> \/ made = <<c>>)
        /\ opened \/ made = <<>>
    BY <1>0
  <2> HIDE DEF made
  <2>2. Pressed(u, 0, made)
    BY <1>3, <2>1 DEF Pressed
  <2>3. Moves(u, 0, made)
    BY <1>3 DEF made
  <2>4. Event(u, 0, made)
    BY <1>0, <2>1, <2>2, <2>3 DEF Event
  <2> QED
    BY <2>1, <2>4
<1>4. Alike(ui)
  BY <1>0 DEF Alike, Still
<1>5. ASSUME NEW u \in ScreenType, Alike(u), Moves(u, 0, <<>>), UNCHANGED current,
             UNCHANGED ready \/ (ready' /\ u.selected = None)
      PROVE  Event(u, 0, <<>>)
  BY <1>0, <1>5 DEF Event, Pressed
<1>6. ASSUME NEW what \in Asks, NEW a \in MaybeAddr, Ask(what, a)
      PROVE  \E calls \in Seq(CallType) : Event(ui, 0, calls)
  <2> DEFINE c == Call(what, a)
  <2>1. c \in CallType /\ c.what \in Asks
    BY CallTyped DEF Asks, Call
  <2> HIDE DEF c
  <2>2. <<c>> \in Seq(CallType)
    BY <2>1
  <2>3. Press(what, ui, <<c>>)
    BY <1>6 DEF Ask, c
  <2>4. Moves(ui, 0, IF opened THEN <<c>> ELSE <<>>) /\ UNCHANGED <<ready, current>>
    BY <1>0, <1>2, <2>2, <2>3
  <2> QED
    BY <1>0, <1>3, <1>4, <2>1, <2>4
<1>7. ASSUME ui.selected # None
      PROVE  /\ opened /\ Reading(ui) \in ScreenType
             /\ Read(ui) = <<Call("refresh", ui.selected)>>
             /\ Read(ui) \in Seq(CallType)
             /\ Still(Reading(ui)) /\ Reading(ui).selected = ui.selected
             /\ Reading(ui).storeProblem = ui.storeProblem
             /\ Reading(ui).status = "reading"
  <2>1. /\ Reading(ui) \in ScreenType /\ Still(Reading(ui))
        /\ Reading(ui).storeProblem = ui.storeProblem
        /\ Reading(ui).selected = ui.selected /\ Reading(ui).status = "reading"
    BY <1>0, <1>7, ReadingShows DEF Still
  <2> QED
    BY <1>0, <1>7, <2>1, ReadCalls, ReloadsTyped DEF Closed
<1>8. ASSUME ui.selected # None, Moves(Reading(ui), 0, Read(ui)), UNCHANGED current,
             ready => ready'
      PROVE  Event(Reading(ui), 0, Read(ui))
  <2>1. ReadsAgain(Reading(ui), 0, Read(ui))
    BY <1>7, <1>8 DEF ReadsAgain
  <2> QED
    BY <1>0, <1>7, <1>8, <2>1 DEF Event
<1>9. ASSUME ui.selected = None
      PROVE  Reading(ui) = ui /\ Read(ui) = ReloadAccounts
             /\ ReloadAccounts \in Seq(CallType)
  BY <1>0, <1>9, ReloadsTyped DEF Reading, Read
<1>10. CASE ContextReady
  <2>1. CASE ui.selected # None
    <3>1. Start(Reading(ui), Read(ui))
      BY <1>10, <2>1 DEF ContextReady
    <3>2. Moves(Reading(ui), 0, Read(ui)) /\ UNCHANGED current
      BY <1>1, <1>7, <2>1, <3>1
    <3> QED
      BY <1>7, <1>8, <1>10, <2>1, <3>2 DEF ContextReady
  <2>2. CASE ui.selected = None
    <3>1. Start(ui, <<>>)
      BY <1>10, <2>2 DEF ContextReady
    <3>2. Moves(ui, 0, <<>>) /\ UNCHANGED current
      BY <1>0, <1>1, <3>1
    <3> QED
      BY <1>0, <1>4, <1>5, <1>10, <2>2, <3>2 DEF ContextReady
  <2> QED
    BY <2>1, <2>2
<1>11. CASE Refresh
  <2>0. Press("refresh", Reading(ui), Read(ui))
    BY <1>11 DEF Refresh
  <2>1. CASE ui.selected # None
    <3>1. Moves(Reading(ui), 0, Read(ui)) /\ UNCHANGED <<ready, current>>
      BY <1>2, <1>7, <2>0, <2>1
    <3> QED
      BY <1>7, <1>8, <2>1, <3>1
  <2>2. CASE ui.selected = None
    <3>1. /\ Moves(ui, 0, IF opened THEN ReloadAccounts ELSE <<>>)
          /\ UNCHANGED <<ready, current>>
      BY <1>0, <1>2, <1>9, <2>0, <2>2
    <3>2. CASE opened
      <4>1. Moves(ui, 0, ReloadAccounts)
        BY <3>1, <3>2
      <4>2. ListsAgain(ui, 0, ReloadAccounts)
        BY <1>4, <2>2, <3>1 DEF ListsAgain
      <4>3. Event(ui, 0, ReloadAccounts)
        BY <1>0, <1>9, <2>2, <3>2, <4>1, <4>2 DEF Event
      <4> QED
        BY <1>0, <1>9, <2>2, <4>3
    <3>3. CASE ~opened
      BY <1>0, <1>4, <1>5, <3>1, <3>3
    <3> QED
      BY <3>2, <3>3
  <2> QED
    BY <2>1, <2>2
<1>12. CASE \E a \in Addr : SelectAccount(a)
  <2> PICK a \in Addr : SelectAccount(a)
    BY <1>12
  <2> DEFINE s == Select(ui, a)
             u == Reading(s)
  <2>1. /\ s \in ScreenType /\ s.moved /\ s.selected = a /\ s.list = ui.list
        /\ s.shown = ui.shown /\ s.vaultProblem = ui.vaultProblem
        /\ s.storeProblem = ui.storeProblem /\ a # None
    BY <1>0, SelectShows, BackendAssumption DEF MaybeAddr
  <2>2. /\ a \in ui.list /\ Press("selectAccount", u, ReloadState(u) \o Read(u))
    BY DEF SelectAccount
  <2> HIDE DEF s
  <2>3. /\ u \in ScreenType /\ u.selected = a /\ Turned(u) /\ u.status = "reading"
    BY <2>1, ReadingShows DEF Turned
  <2> HIDE DEF u
  <2> DEFINE calls == <<Call("state", u.selected), Call("refresh", u.selected)>>
  <2>4. ReloadState(u) \o Read(u) = calls /\ calls \in Seq(CallType)
    <3>1. ReloadState(u) \o Read(u) = calls
      BY <2>1, <2>3, ReadCalls
    <3>2. ReloadState(u) \in Seq(CallType) /\ Read(u) \in Seq(CallType)
      BY <2>3, ReloadsTyped
    <3> HIDE DEF calls
    <3>3. ReloadState(u) \o Read(u) \in Seq(CallType)
      BY <3>2, CallsConcat
    <3> QED
      BY <3>1, <3>3
  <2>5. opened
    BY <1>0, <2>2 DEF Closed
  <2> HIDE DEF calls
  <2>6. Moves(u, 0, calls) /\ UNCHANGED <<ready, current>>
    BY <1>2, <2>2, <2>3, <2>4, <2>5
  <2>7. Selects(u, 0, calls)
    BY <2>2, <2>3, <2>6 DEF Selects, calls
  <2>8. Event(u, 0, calls)
    BY <1>0, <2>3, <2>4, <2>5, <2>6, <2>7 DEF Event
  <2> QED
    BY <2>3, <2>4, <2>8
<1>13. CASE \/ CreateAccount \/ Stage \/ Retract
            \/ \E a \in Addr : \/ ImportAccount(a) \/ ObserveAccount(a)
                              \/ Unlock(a) \/ ExportAccount(a)
                              \/ ForgetAccount(a) \/ StopObserving(a)
  <2>1. \E what \in Asks, a \in MaybeAddr : Ask(what, a)
    BY <1>0, <1>13 DEF CreateAccount, Stage, Retract, ImportAccount, ObserveAccount,
       Unlock, ExportAccount, ForgetAccount, StopObserving, Asks, Calls, Stagings,
       Takings, Leavings, MaybeAddr
  <2> QED
    BY <1>0, <1>6, <2>1
<1>14. CASE RevokeBeforeFirst
  <2> DEFINE u == Report(ui, Call("retract", ui.selected))
  <2>1. Call("retract", ui.selected) \in CallType
    BY <1>0, CallTyped DEF Calls, Stagings
  <2>2. u \in ScreenType /\ Alike(u)
    BY <1>0, <2>1, ReportShows DEF Alike, Still
  <2>3. \E button : Press(button, u, <<>>)
    BY <1>14 DEF RevokeBeforeFirst
  <2> HIDE DEF u
  <2>4. Moves(u, 0, <<>>) /\ UNCHANGED <<ready, current>>
    BY <1>0, <1>2, <2>2, <2>3
  <2> QED
    BY <1>0, <1>5, <2>2, <2>4
<1>15. CASE DismissNotice
  <2> DEFINE u == [ui EXCEPT !.notice = Quiet]
  <2>1. u \in ScreenType /\ Alike(u)
    BY <1>0, QuietIsNotice, NoticeShows DEF Alike, Still
  <2>2. \E button : Press(button, u, <<>>)
    BY <1>15 DEF DismissNotice
  <2> HIDE DEF u
  <2>3. Moves(u, 0, <<>>) /\ UNCHANGED <<ready, current>>
    BY <1>0, <1>2, <2>1, <2>2
  <2> QED
    BY <1>0, <1>5, <2>1, <2>3
<1>16. CASE Publish
  <2> DEFINE u == [ui EXCEPT !.status = "publishing"]
             calls == <<Call("publish", u.selected)>>
  <2>1. /\ u \in ScreenType /\ Still(u) /\ u.storeProblem = ui.storeProblem
        /\ u.status = "publishing" /\ u.selected = ui.selected
    BY <1>0 DEF Still, ScreenType
  <2>2. ui.selected # None /\ Press("publish", u, calls)
    BY <1>16, <2>1 DEF Publish
  <2>3. calls \in Seq(CallType)
    <3>1. Call("publish", u.selected) \in CallType
      BY <1>0, <2>1, CallTyped DEF Calls
    <3> QED
      BY <3>1
  <2>4. opened
    BY <1>0, <2>2 DEF Closed
  <2> HIDE DEF u, calls
  <2>5. Moves(u, 0, calls) /\ UNCHANGED <<ready, current>>
    BY <1>2, <2>1, <2>2, <2>3, <2>4
  <2>6. Writes(u, 0, calls)
    BY <2>1, <2>2, <2>5 DEF Writes, calls
  <2>7. Event(u, 0, calls)
    BY <1>0, <2>1, <2>3, <2>4, <2>5, <2>6 DEF Event
  <2> QED
    BY <2>1, <2>3, <2>7
<1> QED
  BY <1>10, <1>11, <1>12, <1>13, <1>14, <1>15, <1>16 DEF Person

LEMMA Kinds ==
  /\ \A what \in Asks : what \notin {"accounts", "state", "refresh", "publish"}
  /\ Stagings \subseteq Asks /\ Takings \subseteq Asks /\ Leavings \subseteq Asks
  /\ {"unlock", "exportAccount"} \subseteq Asks /\ Asks \subseteq Calls
  BY DEF Asks, Calls, Stagings, Takings, Leavings

\* A reply landed: what its handler shows and calls, of one of the kinds above.
LEMMA Ends ==
  ASSUME ScreenInv, replies # <<>>
  PROVE  /\ 1 <= Len(replies) /\ Head(replies) \in Reply /\ Line[1] = Head(replies)
         /\ opened
         /\ \A what, how : Landing(what, how) => First(what, how)
<1>1. /\ replies \in Seq(Reply) /\ Len(replies) \in Nat /\ Len(replies) # 0
      /\ \A n \in 1 .. Len(replies) : Line[n] = replies[n] /\ Line[n] \in Reply
  BY LineTyped, EmptySeq DEF ScreenInv, BackendInv
<1>2. 1 <= Len(replies) /\ Line[1] = Head(replies) /\ Line[1] \in Reply
  BY <1>1, HeadTailProperties
<1>3. opened
  BY <1>1, LineTyped DEF ScreenInv, Closed, Length
<1> QED
  BY <1>2, <1>3 DEF Landing, First

LEMMA AccountsLand ==
  ASSUME ScreenInv, replies # <<>>, LandAccounts
  PROVE  \E u \in ScreenType, calls \in Seq(CallType) : Event(u, 1, calls)
<1> DEFINE r == Head(replies)
           u == [ui EXCEPT !.list = r.listed, !.vaultProblem = FALSE]
<1>0. /\ BackendInv /\ ~ui.moved /\ ui \in ScreenType
      /\ ui.selected \in MaybeAddr /\ None \in MaybeAddr
      /\ <<>> \in Seq(CallType)
      /\ 1 <= Len(replies) /\ r \in Reply /\ Line[1] = r
      /\ First("accounts", "ok") /\ Landing("accounts", "ok")
  BY Ends DEF ScreenInv, BackendInv, TypeOK, ScreenType, MaybeAddr, LandAccounts
<1>1. r.listed \subseteq Addr /\ current \in [list : BOOLEAN, shown : BOOLEAN, missed : BOOLEAN]
  BY <1>0 DEF Reply, ReplyType, BackendInv, TypeOK
<1>2. /\ u \in ScreenType /\ ~u.moved /\ u.selected = ui.selected
      /\ u.list = r.listed /\ u.shown = ui.shown /\ ~u.vaultProblem
      /\ u.storeProblem = ui.storeProblem /\ u.status = ui.status
  BY <1>0, <1>1 DEF ScreenType
<1>3. \/ /\ r.listed = {}
         /\ Finish([Select(u, None) EXCEPT !.shown = None, !.status = "empty"], <<>>)
         /\ current' = [Listed(r) EXCEPT !.shown = TRUE]
      \/ /\ ui.selected \in r.listed
         /\ Finish(u, ReloadState(u))
         /\ current' = Listed(r)
      \/ /\ \E first \in r.listed :
              LET n == NewlyOnScreen(Select(u, first))
              IN  Finish(n.screen, n.calls)
         /\ current' = Listed(r)
  BY DEF LandAccounts
<1> HIDE DEF u, r
<1>4. CASE /\ r.listed = {}
           /\ Finish([Select(u, None) EXCEPT !.shown = None, !.status = "empty"], <<>>)
           /\ current' = [Listed(r) EXCEPT !.shown = TRUE]
  <2> DEFINE s == Select(u, None)
             v == [s EXCEPT !.shown = None, !.status = "empty"]
  <2>1. /\ s \in ScreenType /\ s.moved /\ s.selected = None /\ s.list = u.list
        /\ ~s.vaultProblem /\ s.storeProblem = u.storeProblem
    BY <1>0, <1>2, SelectShows
  <2> HIDE DEF s
  <2>2. /\ v \in ScreenType /\ v.moved /\ v.selected = None /\ v.list = {}
        /\ v.shown = None /\ ~v.vaultProblem /\ v.status = "empty"
        /\ v.storeProblem = ui.storeProblem
    BY <1>0, <1>2, <1>4, <2>1 DEF ScreenType
  <2>3. Finish(v, <<>>)
    BY <1>4 DEF s
  <2> HIDE DEF v
  <2>4. Moves(v, 1, <<>>) /\ UNCHANGED ready
    BY <1>0, <2>3, LineFinishes DEF Finish
  <2>5. ListsNone(v, 1, <<>>)
    BY <1>0, <1>4, <2>2, <2>4 DEF ListsNone
  <2>6. Event(v, 1, <<>>)
    BY <1>0, <2>2, <2>4, <2>5, Ends DEF Event
  <2> QED
    BY <1>0, <2>2, <2>6
<1>5. CASE ui.selected \in r.listed /\ Finish(u, ReloadState(u)) /\ current' = Listed(r)
  <2>1. ReloadState(u) = <<Call("state", u.selected)>> /\ ReloadState(u) \in Seq(CallType)
    BY <1>2, ReloadsTyped DEF ReloadState
  <2>2. Moves(u, 1, ReloadState(u)) /\ UNCHANGED ready
    BY <1>0, <1>5, <2>1, LineFinishes DEF Finish
  <2>3. ListsOn(u, 1, ReloadState(u))
    BY <1>0, <1>2, <1>5, <2>1, <2>2 DEF ListsOn
  <2>4. Event(u, 1, ReloadState(u))
    BY <1>0, <1>2, <2>1, <2>2, <2>3, Ends DEF Event
  <2> QED
    BY <1>2, <2>1, <2>4
<1>6. CASE /\ \E first \in r.listed :
                LET n == NewlyOnScreen(Select(u, first))
                IN  Finish(n.screen, n.calls)
           /\ current' = Listed(r)
  <2>1. PICK a \in r.listed : Finish(NewlyOnScreen(Select(u, a)).screen,
                                     NewlyOnScreen(Select(u, a)).calls)
    BY <1>6
  <2> DEFINE s == Select(u, a)
             n == NewlyOnScreen(s)
             st == Call("state", s.selected)
             re == Call("refresh", s.selected)
  <2>2. /\ s \in ScreenType /\ s.moved /\ s.selected = a /\ s.list = r.listed
        /\ s.shown = ui.shown /\ ~s.vaultProblem /\ a \in Addr /\ a # None
        /\ s.storeProblem = ui.storeProblem
    BY <1>1, <1>2, SelectShows, BackendAssumption DEF MaybeAddr
  <2>a. Finish(n.screen, n.calls)
    BY <2>1
  <2> HIDE DEF s
  <2>3. /\ ready => n.screen = Reading(s) /\ n.calls = <<st, re>>
        /\ ~ready => n.screen = s /\ n.calls = <<st>>
    BY <2>2, ReadCalls DEF NewlyOnScreen
  <2>4. n.calls \in Seq(CallType)
    <3>1. ReloadState(s) \in Seq(CallType) /\ Read(s) \in Seq(CallType)
      BY <2>2, ReloadsTyped
    <3>2. ReloadState(s) \o Read(s) \in Seq(CallType)
      BY <3>1, CallsConcat
    <3> QED
      BY <3>1, <3>2 DEF NewlyOnScreen
  <2>5. /\ n.screen \in ScreenType /\ n.screen.moved /\ n.screen.selected = a
        /\ n.screen.list = r.listed /\ n.screen.shown = ui.shown
        /\ ~n.screen.vaultProblem /\ n.screen.storeProblem = ui.storeProblem
        /\ ready => n.screen.status = "reading"
    BY <2>2, <2>3, ReadingShows
  <2> DEFINE v == n.screen
             calls == n.calls
  <2> HIDE DEF n
  <2>6. v \in ScreenType /\ calls \in Seq(CallType) /\ Finish(v, calls)
    BY <2>4, <2>5, <2>a
  <2>7. Moves(v, 1, calls) /\ UNCHANGED ready
    BY <1>0, <2>6, LineFinishes DEF Finish
  <2>8. ListsFirst(v, 1, calls)
    BY <1>0, <1>6, <2>2, <2>3, <2>5, <2>7 DEF ListsFirst
  <2>9. Event(v, 1, calls)
    BY <1>0, <2>6, <2>7, <2>8, Ends DEF Event
  <2> QED
    BY <2>6, <2>9
<1> QED
  BY <1>3, <1>4, <1>5, <1>6

LEMMA TakenLands ==
  ASSUME ScreenInv, replies # <<>>, LandTaken
  PROVE  \E u \in ScreenType, calls \in Seq(CallType) : Event(u, 1, calls)
<1> DEFINE r == Head(replies)
           s == Select(ui, r.call.addr)
           h == IF r.again THEN [s EXCEPT !.notice = Notice("held", r.call.addr)]
                ELSE s
           u == Reading(h)
           calls == ReloadAccounts \o ReloadState(u) \o Read(u)
<1>0. /\ BackendInv /\ ui \in ScreenType /\ ~ui.moved
      /\ 1 <= Len(replies) /\ r \in Reply /\ Line[1] = r
  BY Ends DEF ScreenInv, BackendInv, TypeOK
<1>1. PICK what \in Takings : Landing(what, "ok")
  BY DEF LandTaken
<1>2. Finish(u, calls) /\ UNCHANGED current
  BY DEF LandTaken
<1>3. First(what, "ok")
  BY <1>1, Ends
<1>4. r.call.addr \in Addr /\ r.call.addr \in MaybeAddr /\ r.call.addr # None
  <2>1. 1 \in 1 .. Length
    BY <1>0, LineTyped DEF Length
  <2>2. r.call.addr \in Addr
    BY <1>0, <1>3, <2>1 DEF First, ScreenInv, Named
  <2> QED
    BY <2>2, BackendAssumption DEF MaybeAddr
<1> HIDE DEF r
<1>5. /\ s \in ScreenType /\ s.moved /\ s.selected = r.call.addr /\ s.list = ui.list
      /\ s.shown = ui.shown /\ s.vaultProblem = ui.vaultProblem
      /\ s.storeProblem = ui.storeProblem
  BY <1>0, <1>4, SelectShows
<1> HIDE DEF s
<1>6. /\ h \in ScreenType /\ h.moved /\ h.selected = r.call.addr /\ h.list = ui.list
      /\ h.shown = ui.shown /\ h.vaultProblem = ui.vaultProblem
      /\ h.storeProblem = ui.storeProblem
  BY <1>4, <1>5, NoticeTyped, NoticeShows
<1> HIDE DEF h
<1>7. /\ u \in ScreenType /\ Turned(u) /\ u.selected = r.call.addr
      /\ u.status = "reading"
  BY <1>4, <1>6, ReadingShows DEF Turned
<1> HIDE DEF u
<1>8. calls = <<Call("accounts", None), Call("state", u.selected),
                Call("refresh", u.selected)>>
  BY <1>4, <1>7, ReadCalls
<1>9. calls \in Seq(CallType)
  <2>1. /\ ReloadAccounts \in Seq(CallType) /\ ReloadState(u) \in Seq(CallType)
        /\ Read(u) \in Seq(CallType)
    BY <1>7, ReloadsTyped
  <2>2. ReloadAccounts \o ReloadState(u) \in Seq(CallType)
    BY <2>1, CallsConcat
  <2> QED
    BY <2>1, <2>2, CallsConcat
<1> HIDE DEF calls
<1>10. Moves(u, 1, calls) /\ UNCHANGED ready
  BY <1>0, <1>2, <1>7, <1>9, LineFinishes DEF Finish
<1>11. Takes(u, 1, calls)
  BY <1>0, <1>1, <1>2, <1>3, <1>4, <1>7, <1>8, <1>10 DEF Takes
<1>12. Event(u, 1, calls)
  BY <1>0, <1>7, <1>9, <1>10, <1>11, Ends DEF Event
<1> QED
  BY <1>7, <1>9, <1>12

LEMMA EventLoopMoves ==
  ASSUME ScreenInv, EventLoop
  PROVE  \E u \in ScreenType, calls \in Seq(CallType) : Event(u, 1, calls)
<1>a. replies # <<>>
  BY DEF EventLoop, Landing, LandSkipped, LandAccounts, LandAccountsRefused,
     LandState, LandStateRefused, LandRefresh, LandRefreshRefused, LandTaken,
     LandUnlocked, LandExported, LandLeft, LandEdited, LandRefused,
     LandPublished, LandPublishRefused
<1> DEFINE r == Head(replies)
<1>0. /\ BackendInv /\ ui \in ScreenType /\ ~ui.moved
      /\ ui.selected \in MaybeAddr /\ None \in MaybeAddr
      /\ <<>> \in Seq(CallType) /\ ReloadAccounts \in Seq(CallType)
      /\ 1 <= Len(replies) /\ r \in Reply /\ r.call \in CallType /\ Line[1] = r
      /\ \A what, how : Landing(what, how) => First(what, how)
  <2>1. r \in Reply /\ Line[1] = r /\ 1 <= Len(replies)
        /\ \A what, how : Landing(what, how) => First(what, how)
    BY <1>a, Ends
  <2>2. r.call \in CallType
    BY <2>1 DEF Reply, ReplyType
  <2>3. BackendInv /\ ui \in ScreenType /\ ~ui.moved
    BY DEF ScreenInv, BackendInv, TypeOK
  <2> QED
    BY <2>1, <2>2, <2>3, ReloadsTyped DEF ScreenType, MaybeAddr
<1>b. Alike(ui)
  BY <1>0 DEF Alike, Still
<1> HIDE DEF r
<1>c. ASSUME NEW u \in ScreenType, NEW calls \in Seq(CallType), Finish(u, calls)
      PROVE  Moves(u, 1, calls) /\ UNCHANGED ready
  BY <1>a, <1>0, <1>c, LineFinishes DEF Finish
<1>d. ASSUME NEW u \in ScreenType, NEW calls \in Seq(CallType), Finish(u, calls),
             \/ LandsQuietly(u, 1, calls) \/ ListsAgain(u, 1, calls)
             \/ ReadsWell(u, 1, calls) \/ ReadsBadly(u, 1, calls)
             \/ VaultFails(u, 1, calls) \/ Draws(u, 1, calls)
             \/ LetsGo(u, 1, calls) \/ ReadsAgain(u, 1, calls)
      PROVE  \E v \in ScreenType, cs \in Seq(CallType) : Event(v, 1, cs)
  <2>1. Moves(u, 1, calls)
    BY <1>c, <1>d
  <2>2. Event(u, 1, calls)
    BY <1>0, <1>d, <2>1, Ends DEF Event
  <2> QED
    BY <2>2
<1>1. CASE LandSkipped
  <2>1. Finish(ui, <<>>) /\ UNCHANGED current /\ First("refresh", "skipped")
    BY <1>0, <1>1 DEF LandSkipped
  <2>2. LandsQuietly(ui, 1, <<>>)
    BY <1>0, <1>b, <1>c, <2>1 DEF LandsQuietly
  <2> QED
    BY <1>0, <1>d, <2>1, <2>2
<1>2. CASE LandAccounts
  BY <1>2, <1>a, AccountsLand
<1>3. ASSUME Finish(VaultUnread(ui), <<>>), UNCHANGED current,
             \/ First("accounts", "refused")
             \/ First("state", "refused") /\ Line[1].call.addr = ui.selected
      PROVE  \E v \in ScreenType, cs \in Seq(CallType) : Event(v, 1, cs)
  <2> DEFINE u == VaultUnread(ui)
  <2>1. /\ u \in ScreenType /\ ~u.moved /\ u.selected = ui.selected /\ u.list = ui.list
        /\ u.shown = ui.shown /\ u.vaultProblem
        /\ u.storeProblem = ui.storeProblem /\ u.status = "vault"
    BY <1>0 DEF VaultUnread, ScreenType
  <2> HIDE DEF u
  <2>2. VaultFails(u, 1, <<>>)
    BY <1>0, <1>3, <1>c, <2>1 DEF VaultFails, u
  <2> QED
    BY <1>0, <1>3, <1>d, <2>1, <2>2 DEF u
<1>4. CASE LandAccountsRefused
  BY <1>4, <1>0, <1>3 DEF LandAccountsRefused
<1>5. CASE LandState
  <2>1. First("state", "ok")
    BY <1>0, <1>5 DEF LandState
  <2>2. CASE r.call.addr # ui.selected
    <3>1. Finish(ui, <<>>) /\ UNCHANGED current
      BY <1>5, <2>2 DEF LandState, r
    <3>2. LandsQuietly(ui, 1, <<>>)
      BY <1>0, <1>b, <1>c, <2>1, <2>2, <3>1 DEF LandsQuietly
    <3> QED
      BY <1>0, <1>d, <3>1, <3>2
  <2>3. CASE r.call.addr = ui.selected
    <3> DEFINE u == [ui EXCEPT !.vaultProblem = FALSE, !.shown = r.call.addr]
    <3>1. Finish(u, <<>>) /\ current' = [current EXCEPT !.shown = r.fresh]
      BY <1>5, <2>3 DEF LandState, r
    <3>2. /\ u \in ScreenType /\ ~u.moved /\ u.selected = ui.selected
          /\ u.list = ui.list /\ u.shown = ui.selected /\ ~u.vaultProblem
          /\ u.storeProblem = ui.storeProblem /\ u.status = ui.status
      BY <1>0, <2>3 DEF ScreenType
    <3> HIDE DEF u
    <3>3. Draws(u, 1, <<>>)
      BY <1>0, <1>c, <2>1, <2>3, <3>1, <3>2 DEF Draws
    <3> QED
      BY <1>0, <1>d, <3>1, <3>2, <3>3
  <2> QED
    BY <2>2, <2>3
<1>6. CASE LandStateRefused
  <2>1. First("state", "refused") /\ UNCHANGED current
    BY <1>0, <1>6 DEF LandStateRefused
  <2>2. CASE r.call.addr # ui.selected
    <3>1. Finish(ui, <<>>)
      BY <1>6, <2>2 DEF LandStateRefused, r
    <3>2. LandsQuietly(ui, 1, <<>>)
      BY <1>0, <1>b, <1>c, <2>1, <2>2, <3>1 DEF LandsQuietly
    <3> QED
      BY <1>0, <1>d, <3>1, <3>2
  <2>3. CASE r.call.addr = ui.selected
    <3>1. Finish(VaultUnread(ui), <<>>)
      BY <1>6, <2>3 DEF LandStateRefused, r
    <3> QED
      BY <1>0, <1>3, <2>1, <2>3, <3>1
  <2> QED
    BY <2>2, <2>3
<1>7. CASE LandRefresh
  <2> DEFINE b == Dropping(ui, r)
             u == IF r.call.wanted
                  THEN [b EXCEPT !.status = "ready", !.storeProblem = FALSE,
                                 !.firstNew = None]
                  ELSE b
  <2>1. b \in ScreenType /\ Alike(b)
    BY <1>0, DroppingShows DEF Alike, Still
  <2>2. Finish(u, ReloadAccounts) /\ UNCHANGED current
    BY <1>7 DEF LandRefresh, r
  <2>3. First("refresh", "ok")
    BY <1>0, <1>7 DEF LandRefresh
  <2> HIDE DEF b
  <2>4. /\ u \in ScreenType
        /\ r.call.wanted => Still(u) /\ ~u.storeProblem /\ u.status = "ready"
        /\ ~r.call.wanted => Alike(u)
    BY <1>0, <2>1 DEF ScreenType, Alike, Still
  <2> HIDE DEF u
  <2>5. UNCHANGED ready
    BY <1>0, <1>c, <2>2, <2>4
  <2>6. ReadsWell(u, 1, ReloadAccounts) \/ ListsAgain(u, 1, ReloadAccounts)
    BY <1>0, <2>2, <2>3, <2>4, <2>5 DEF ReadsWell, ListsAgain
  <2> QED
    BY <1>0, <1>d, <2>2, <2>4, <2>6
<1>8. CASE LandRefreshRefused
  <2> DEFINE u == IF r.call.wanted
                  THEN [ui EXCEPT !.status = "store", !.storeProblem = TRUE] ELSE ui
  <2>1. Finish(u, ReloadAccounts) /\ UNCHANGED current
    BY <1>8 DEF LandRefreshRefused, r
  <2>2. First("refresh", "refused")
    BY <1>0, <1>8 DEF LandRefreshRefused
  <2>3. /\ u \in ScreenType
        /\ r.call.wanted => Still(u) /\ u.storeProblem /\ u.status = "store"
        /\ ~r.call.wanted => Alike(u)
    BY <1>0, <1>b DEF ScreenType, Alike, Still
  <2> HIDE DEF u
  <2>4. UNCHANGED ready
    BY <1>0, <1>c, <2>1, <2>3
  <2>5. ReadsBadly(u, 1, ReloadAccounts) \/ ListsAgain(u, 1, ReloadAccounts)
    BY <1>0, <2>1, <2>2, <2>3, <2>4 DEF ReadsBadly, ListsAgain
  <2> QED
    BY <1>0, <1>d, <2>1, <2>3, <2>5
<1>9. CASE LandTaken
  BY <1>9, <1>a, TakenLands
<1>10. CASE LandUnlocked \/ LandEdited
  <2> DEFINE u == Edited(ui)
  <2>1. u \in ScreenType /\ Alike(u)
    BY <1>0, QuietIsNotice, NoticeShows DEF Edited, Alike, Still
  <2> HIDE DEF u
  <2>2. /\ Finish(ui, ReloadAccounts) \/ Finish(u, ReloadAccounts)
        /\ UNCHANGED current
        /\ First("unlock", "ok") \/ \E what \in Stagings : First(what, "ok")
    BY <1>0, <1>10 DEF LandUnlocked, LandEdited, u
  <2>3. PICK v \in {ui, u} : Finish(v, ReloadAccounts)
    BY <2>2
  <2>4. v \in ScreenType /\ Alike(v)
    BY <1>0, <1>b, <2>1, <2>3
  <2>5. ListsAgain(v, 1, ReloadAccounts)
    BY <1>0, <1>c, <2>2, <2>3, <2>4 DEF ListsAgain
  <2> QED
    BY <1>0, <1>d, <2>3, <2>4, <2>5
<1>11. CASE LandExported
  <2>1. Finish(ui, <<>>) /\ UNCHANGED current /\ First("exportAccount", "ok")
    BY <1>0, <1>11 DEF LandExported
  <2>2. LandsQuietly(ui, 1, <<>>)
    BY <1>0, <1>b, <1>c, <2>1 DEF LandsQuietly
  <2> QED
    BY <1>0, <1>d, <2>1, <2>2
<1>12. CASE LandLeft
  <2> DEFINE b == [ui EXCEPT !.away = ui.away \ {r.call.addr}]
             u == IF r.call.addr = ui.selected THEN Select(b, None) ELSE b
  <2>1. b \in ScreenType /\ Alike(b)
    BY <1>0 DEF ScreenType, Alike, Still
  <2>2. /\ Finish(u, ReloadAccounts) /\ UNCHANGED current
        /\ \E what \in Leavings : First(what, "ok")
    BY <1>0, <1>12 DEF LandLeft, r
  <2> HIDE DEF b
  <2>3. CASE r.call.addr = ui.selected
    <3>1. /\ u \in ScreenType /\ Turned(u) /\ u.status = ui.status
          /\ u.selected = None
      BY <1>0, <2>1, <2>3, SelectShows DEF Alike, Still, Turned
    <3> HIDE DEF u
    <3>2. LetsGo(u, 1, ReloadAccounts)
      BY <1>0, <1>c, <2>2, <3>1 DEF LetsGo
    <3> QED
      BY <1>0, <1>d, <2>2, <3>1, <3>2
  <2>4. CASE r.call.addr # ui.selected
    <3>1. Finish(b, ReloadAccounts)
      BY <2>2, <2>4
    <3>2. ListsAgain(b, 1, ReloadAccounts)
      BY <1>0, <1>c, <2>1, <2>2, <2>4, <3>1 DEF ListsAgain
    <3> QED
      BY <1>0, <1>d, <2>1, <3>1, <3>2
  <2> QED
    BY <2>3, <2>4
<1>13. CASE LandRefused
  <2> DEFINE u == Report(ui, r.call)
  <2>1. u \in ScreenType /\ Alike(u)
    BY <1>0, ReportShows DEF Alike, Still
  <2>2. /\ Finish(u, <<>>) /\ UNCHANGED current
        /\ \E what \in Asks : First(what, "refused")
    BY <1>0, <1>13 DEF LandRefused, r, Asks
  <2> HIDE DEF u
  <2>3. LandsQuietly(u, 1, <<>>)
    BY <1>0, <1>c, <2>1, <2>2 DEF LandsQuietly
  <2> QED
    BY <1>0, <1>d, <2>1, <2>2, <2>3
<1>14. CASE LandPublished
  <2> DEFINE b == [ui EXCEPT !.status = "ready", !.storeProblem = FALSE]
             u == Published(b, r)
  <2>1. /\ b \in ScreenType /\ ~b.moved /\ b.selected = ui.selected
        /\ b.list = ui.list /\ b.shown = ui.shown
        /\ b.vaultProblem = ui.vaultProblem /\ ~b.storeProblem /\ b.status = "ready"
    BY <1>0 DEF ScreenType
  <2>2. Finish(u, ReloadAccounts) /\ UNCHANGED current /\ First("publish", "ok")
    BY <1>0, <1>14 DEF LandPublished, r
  <2> HIDE DEF b
  <2>3. u \in ScreenType /\ Still(u) /\ ~u.storeProblem /\ u.status = "ready"
    <3>1. CASE r.call.addr # b.selected \/ ~r.wrote
      <4>1. u = Dropping(b, r)
        BY <3>1 DEF Published
      <4> QED
        BY <1>0, <2>1, <4>1, DroppingShows DEF Still
    <3>2. CASE ~(r.call.addr # b.selected \/ ~r.wrote)
      <4> DEFINE n == Notice("published", r.call.addr)
      <4>1. n \in NoticeType /\ r.call.addr \in MaybeAddr
        BY <1>0, NoticeTyped DEF CallType
      <4>2. u = [b EXCEPT !.firstNew = r.call.addr, !.notice = n]
        BY <3>2 DEF Published
      <4> HIDE DEF n
      <4> QED
        BY <2>1, <4>1, <4>2 DEF ScreenType, Still
    <3> QED
      BY <3>1, <3>2
  <2> HIDE DEF u
  <2>4. ReadsWell(u, 1, ReloadAccounts)
    BY <1>0, <1>c, <2>2, <2>3 DEF ReadsWell
  <2> QED
    BY <1>0, <1>d, <2>2, <2>3, <2>4
<1>15. CASE LandPublishRefused
  <2>1. First("publish", "refused") /\ UNCHANGED current
    BY <1>0, <1>15 DEF LandPublishRefused
  <2>2. CASE r.call.addr # ui.selected \/ ui.selected = None
    <3>1. Finish(ui, ReloadAccounts)
      BY <1>15, <2>2 DEF LandPublishRefused, Reading, Read, r
    <3>2. ListsAgain(ui, 1, ReloadAccounts)
      BY <1>0, <1>b, <1>c, <2>1, <2>2, <3>1 DEF ListsAgain
    <3> QED
      BY <1>0, <1>d, <3>1, <3>2
  <2>3. CASE r.call.addr = ui.selected /\ ui.selected # None
    <3> DEFINE u == Reading(ui)
    <3>1. Finish(u, Read(ui))
      BY <1>15, <2>3 DEF LandPublishRefused, r
    <3>2. /\ u \in ScreenType /\ Still(u) /\ u.storeProblem = ui.storeProblem
          /\ u.selected = ui.selected /\ u.status = "reading"
      BY <1>0, <2>3, ReadingShows DEF Still
    <3>3. Read(ui) = <<Call("refresh", u.selected)>> /\ Read(ui) \in Seq(CallType)
      BY <1>0, <2>3, <3>2, ReadCalls, ReloadsTyped
    <3> HIDE DEF u
    <3>4. ReadsAgain(u, 1, Read(ui))
      BY <1>0, <1>c, <2>1, <2>3, <3>1, <3>2, <3>3 DEF ReadsAgain
    <3> QED
      BY <1>d, <3>1, <3>2, <3>3, <3>4
  <2> QED
    BY <2>2, <2>3
<1> QED
  BY <1>1, <1>2, <1>4, <1>5, <1>6, <1>7, <1>8, <1>9, <1>10, <1>11, <1>12, <1>13,
     <1>14, <1>15 DEF EventLoop

-----------------------------------------------------------------------------
(* What the pool's steps come to: the call at the head of its queue is      *)
(* answered with r, and the answers before it are now rs.                   *)

\* Only an account's own read, write or leaving says how its last read went.
ReadTo(a, read) == UNCHANGED held /\ unread' = [unread EXCEPT ![a] = ~read]

AsItIs(rs, r) ==
    LET c == Head(queue)
    IN  /\ rs = replies /\ UNCHANGED <<held, unread, current>>
        /\ r.call = c /\ r.fresh
        /\ \/ c.what = "refresh" /\ ~c.wanted /\ r.how = "skipped"
           \/ c.what \in Asks \cup {"publish"} /\ r.how = "refused"
           \/ c.what \in {"accounts", "state", "refresh"} /\ r.how = "refused"
           \/ c.what = "accounts" /\ r.how = "ok" /\ r.listed = held
           \/ c.what \in {"state", "exportAccount"} /\ r.how = "ok"

\* What the core did to a, and answered.
Did(a, r) ==
    LET c == Head(queue)
    IN  /\ r.fresh /\ r.call.what = c.what
        /\ \/ /\ c.what = "refresh" /\ c.wanted /\ r.call = c /\ a = c.addr
              /\ a \in held
              /\ \/ r.how = "ok" /\ ReadTo(a, TRUE)
                 \/ r.how = "refused" /\ ReadTo(a, FALSE)
           \/ /\ c.what \in Takings /\ r.how = "ok"
              /\ r.call.addr = a /\ a \in Addr
              /\ held' = held \cup {a} /\ UNCHANGED unread
           \/ /\ c.what \in Leavings /\ r.how = "ok" /\ r.call = c /\ a = c.addr
              /\ held' \in {held, held \ {a}}
              /\ unread' = [unread EXCEPT ![a] = FALSE]
           \/ /\ c.what \in Stagings \cup {"unlock"} /\ r.how = "ok"
              /\ r.call = c /\ a = c.addr /\ UNCHANGED <<held, unread>>
           \/ /\ c.what = "publish" /\ r.call = c /\ a = c.addr /\ a \in held
              /\ \/ r.how = "ok" /\ ReadTo(a, TRUE)
                 \/ r.how = "refused" /\ ReadTo(a, TRUE)
                 \/ r.how = "refused" /\ ReadTo(a, FALSE)

\* The core has changed a.
Changed(a, rs, r) ==
    /\ rs = Outdated(replies, a)
    /\ current' = [current EXCEPT !.list = FALSE,
                                  !.shown = current.shown /\ ui.shown # a]
    /\ Did(a, r)

Half(rs, r) ==
    LET c == Head(queue)
    IN  /\ c.what = "importAccount" /\ r.call = c /\ r.how = "refused" /\ r.fresh
        /\ rs = Outdated(replies, c.addr) /\ UNCHANGED <<held, unread>>
        /\ current' = [list |-> FALSE, missed |-> TRUE,
                       shown |-> current.shown /\ ui.shown # c.addr]

Answering(rs, r) ==
    /\ queue # <<>> /\ Head(queue) \in CallType
    /\ rs \in Seq(Reply) /\ r \in Reply /\ Runs(Len(replies) + 1, rs, r)
    /\ UNCHANGED <<opened, ready, ui>>
    /\ AsItIs(rs, r) \/ (\E a : Changed(a, rs, r)) \/ Half(rs, r)

LEMMA AnswerIs ==
  ASSUME NEW c, NEW how
  PROVE  /\ Answer(c, how).call = c /\ Answer(c, how).how = how
         /\ Answer(c, how).fresh
         /\ \A b : [Answer(c, how) EXCEPT !.listed = b].listed = b
         /\ \A b : LET r == [Answer(c, how) EXCEPT !.listed = b]
                   IN  r.call = c /\ r.how = how /\ r.fresh
         /\ \A b : LET r == [Answer(c, how) EXCEPT !.dropped = b]
                   IN  r.call = c /\ r.how = how /\ r.fresh
         /\ \A b : LET r == [Answer(c, how) EXCEPT !.again = b]
                   IN  r.call = c /\ r.how = how /\ r.fresh
         /\ \A b, d : LET r == [Answer(c, how) EXCEPT !.wrote = b, !.dropped = d]
                      IN  r.call = c /\ r.how = how /\ r.fresh
  BY DEF Answer

LEMMA PoolAnswers ==
  ASSUME ScreenInv, Pool
  PROVE  \E rs, r : Answering(rs, r)
<1> DEFINE c == Head(queue)
<1>a. queue # <<>>
  BY DEF Pool, Running, RunSkips, RunRefused, RunUnknown, RunVaultFails,
     RunAccounts, RunState, RunRefresh, RunRefreshFails, RunTakes, RunImportsHalf,
     RunLeaves, RunUnlock, RunExport, RunEdits, RunPublish, RunPublishFails
<1>0. BackendInv
  BY DEF ScreenInv
<1>b. c \in CallType
  BY <1>0, <1>a, HeadTailProperties DEF BackendInv, TypeOK
<1>c. /\ held \subseteq Addr /\ staged \subseteq held /\ replies \in Seq(Reply)
  BY <1>0 DEF BackendInv, TypeOK
<1> HIDE DEF c
<1>d. ASSUME NEW r \in Reply, Answers(r), UNCHANGED <<core, current>>,
             AsItIs(replies, r)
      PROVE  \E rs, q : Answering(rs, q)
  <2>1. /\ queue' = Tail(queue) /\ replies' = Append(replies, r)
        /\ UNCHANGED <<opened, ready, ui>>
    BY <1>d DEF Answers
  <2>2. Runs(Len(replies) + 1, replies, r)
    BY <1>0, <1>a, <1>c, <2>1, LineRuns
  <2>3. Answering(replies, r)
    BY <1>a, <1>b, <1>c, <1>d, <2>1, <2>2 DEF Answering, c
  <2> QED
    BY <2>3
<1>e. ASSUME NEW r \in Reply, AnswersAsItIs(r), AsItIs(replies, r)
      PROVE  \E rs, q : Answering(rs, q)
  BY <1>d, <1>e DEF AnswersAsItIs
<1>f. ASSUME NEW r \in Reply, NEW a, AnswersAfter(a, r), Did(a, r)
      PROVE  \E rs, q : Answering(rs, q)
  <2> DEFINE rs == Outdated(replies, a)
  <2>1. rs \in Seq(Reply) /\ Len(rs) = Len(replies)
    BY <1>c, OutdatedTyped
  <2>2. /\ queue' = Tail(queue) /\ replies' = Append(rs, r)
        /\ UNCHANGED <<opened, ready, ui>>
    BY <1>f DEF AnswersAfter
  <2>3. Changed(a, rs, r)
    BY <1>f DEF AnswersAfter, Changed
  <2> HIDE DEF rs
  <2>4. Runs(Len(replies) + 1, rs, r)
    BY <1>0, <1>a, <2>1, <2>2, LineRuns
  <2>5. Answering(rs, r)
    BY <1>a, <1>b, <2>1, <2>2, <2>3, <2>4 DEF Answering, c
  <2> QED
    BY <2>5
<1>1. CASE RunSkips
  <2> DEFINE r == Answer(c, "skipped")
  <2>1. r \in Reply /\ AnswersAsItIs(r) /\ c.what = "refresh" /\ ~c.wanted
    BY <1>1, <1>b, AnswerTyped DEF RunSkips, Running, c
  <2>2. r.call = c /\ r.how = "skipped" /\ r.fresh
    BY AnswerIs
  <2> HIDE DEF r
  <2>3. AsItIs(replies, r)
    BY <2>1, <2>2 DEF AsItIs, AnswersAsItIs, core, c
  <2> QED
    BY <1>e, <2>1, <2>3
<1>2. CASE RunRefused \/ RunUnknown \/ RunVaultFails
  <2> DEFINE r == Answer(c, "refused")
  <2>1. /\ r \in Reply /\ Answers(r) /\ UNCHANGED <<core, current>>
        /\ c.what \in Asks \cup {"publish"} \cup {"accounts", "state", "refresh"}
    BY <1>2, <1>b, AnswerTyped DEF RunRefused, RunUnknown, RunVaultFails, Running,
       AnswersAsItIs, Asks, CallType, c
  <2>2. r.call = c /\ r.how = "refused" /\ r.fresh
    BY AnswerIs
  <2> HIDE DEF r
  <2>3. AsItIs(replies, r)
    BY <2>1, <2>2 DEF AsItIs, core, c
  <2> QED
    BY <1>d, <2>1, <2>3
<1>3. CASE RunAccounts
  <2> DEFINE r == [Answer(c, "ok") EXCEPT !.listed = held]
  <2>1. r \in Reply /\ AnswersAsItIs(r) /\ c.what = "accounts"
    BY <1>3, <1>b, <1>c, AnswerTyped DEF RunAccounts, Running, c
  <2>2. r.call = c /\ r.how = "ok" /\ r.fresh /\ r.listed = held
    BY AnswerIs
  <2> HIDE DEF r
  <2>3. AsItIs(replies, r)
    BY <2>1, <2>2 DEF AsItIs, AnswersAsItIs, core, c
  <2> QED
    BY <1>e, <2>1, <2>3
<1>4. CASE RunState \/ RunExport
  <2> DEFINE r == Answer(c, "ok")
  <2>1. r \in Reply /\ AnswersAsItIs(r) /\ c.what \in {"state", "exportAccount"}
    BY <1>4, <1>b, AnswerTyped DEF RunState, RunExport, Running, c
  <2>2. r.call = c /\ r.how = "ok" /\ r.fresh
    BY AnswerIs
  <2> HIDE DEF r
  <2>3. AsItIs(replies, r)
    BY <2>1, <2>2 DEF AsItIs, AnswersAsItIs, core, c
  <2> QED
    BY <1>e, <2>1, <2>3
<1>5. CASE RunRefresh
  <2>1. PICK d \in BOOLEAN :
          /\ c.what = "refresh" /\ c.wanted /\ c.addr \in held
          /\ ReadTo(c.addr, TRUE)
          /\ AnswersAfter(c.addr, [Answer(c, "ok") EXCEPT !.dropped = d])
    BY <1>5 DEF RunRefresh, Running, ReadSo, ReadTo, c
  <2> DEFINE r == [Answer(c, "ok") EXCEPT !.dropped = d]
  <2>2. r \in Reply /\ r.call = c /\ r.how = "ok" /\ r.fresh
    <3>1. r \in Reply
      BY <1>b, <1>c, <2>1, AnswerTyped
    <3>2. r.call = c /\ r.how = "ok" /\ r.fresh
      BY AnswerIs
    <3> QED
      BY <3>1, <3>2
  <2>3. AnswersAfter(c.addr, r)
    BY <2>1
  <2> HIDE DEF r
  <2>4. Did(c.addr, r)
    BY <2>1, <2>2, <2>3 DEF Did, c
  <2> QED
    BY <1>f, <2>2, <2>3, <2>4
<1>6. CASE RunRefreshFails
  <2> DEFINE r == Answer(c, "refused")
  <2>1. /\ c.what = "refresh" /\ c.wanted /\ c.addr \in held
        /\ ReadTo(c.addr, FALSE) /\ AnswersAfter(c.addr, r)
    BY <1>6 DEF RunRefreshFails, Running, ReadSo, ReadTo, c
  <2>2. r \in Reply /\ r.call = c /\ r.how = "refused" /\ r.fresh
    <3>1. r \in Reply
      BY <1>b, AnswerTyped
    <3>2. r.call = c /\ r.how = "refused" /\ r.fresh
      BY AnswerIs
    <3> QED
      BY <3>1, <3>2
  <2> HIDE DEF r
  <2>4. Did(c.addr, r)
    BY <2>1, <2>2 DEF Did, c
  <2> QED
    BY <1>f, <2>1, <2>2, <2>4
<1>7. CASE RunTakes
  <2>1. PICK what \in Takings, a \in Addr, again \in BOOLEAN :
          /\ c.what = what
          /\ held' = held \cup {a}
          /\ UNCHANGED unread
          /\ AnswersAfter(a, [Answer([c EXCEPT !.addr = a], "ok")
                                 EXCEPT !.again = again])
    BY <1>7 DEF RunTakes, Running, c
  <2> DEFINE b == [c EXCEPT !.addr = a]
             r == [Answer(b, "ok") EXCEPT !.again = again]
  <2>2. b \in CallType /\ b.addr = a /\ b.what = c.what
    BY <1>b DEF CallType, MaybeAddr
  <2>3. AnswersAfter(a, r)
    BY <2>1
  <2> HIDE DEF b
  <2>4. r \in Reply /\ r.call = b /\ r.how = "ok" /\ r.fresh
    <3>1. r \in Reply
      BY <2>2, AnswerTyped
    <3>2. r.call = b /\ r.how = "ok" /\ r.fresh
      BY AnswerIs
    <3> QED
      BY <3>1, <3>2
  <2> HIDE DEF r
  <2>5. Did(a, r)
    BY <2>1, <2>2, <2>3, <2>4 DEF Did, c
  <2> QED
    BY <1>f, <2>3, <2>4, <2>5
<1>8. CASE RunImportsHalf
  <2> DEFINE r == Answer(c, "refused")
             rs == Outdated(replies, c.addr)
  <2>1. /\ c.what = "importAccount"
        /\ queue' = Tail(queue) /\ replies' = Append(rs, r)
        /\ current' = [list |-> FALSE, missed |-> TRUE,
                        shown |-> current.shown /\ ui.shown # c.addr]
        /\ UNCHANGED <<held, unread, opened, ready, ui>>
    BY <1>8 DEF RunImportsHalf, Running, c, core
  <2>2. rs \in Seq(Reply) /\ Len(rs) = Len(replies)
    BY <1>c, OutdatedTyped
  <2>3. r \in Reply /\ r.call = c /\ r.how = "refused" /\ r.fresh
    <3>1. r \in Reply
      BY <1>b, AnswerTyped
    <3>2. r.call = c /\ r.how = "refused" /\ r.fresh
      BY AnswerIs
    <3> QED
      BY <3>1, <3>2
  <2> HIDE DEF r
  <2>4. Half(rs, r)
    BY <2>1, <2>3 DEF Half, c
  <2> HIDE DEF rs
  <2>5. Runs(Len(replies) + 1, rs, r)
    BY <1>0, <1>a, <2>1, <2>2, <2>3, LineRuns
  <2>6. Answering(rs, r)
    BY <1>a, <1>b, <2>1, <2>2, <2>3, <2>4, <2>5 DEF Answering, c
  <2> QED
    BY <2>6
<1>9. CASE RunLeaves \/ RunUnlock \/ RunEdits
  <2> DEFINE r == Answer(c, "ok")
  <2>1. /\ AnswersAfter(c.addr, r)
        /\ \/ /\ c.what \in Leavings /\ held' \in {held, held \ {c.addr}}
              /\ unread' = [unread EXCEPT ![c.addr] = FALSE]
           \/ /\ c.what \in Stagings \cup {"unlock"}
              /\ UNCHANGED <<held, unread>>
    BY <1>9 DEF RunLeaves, RunUnlock, RunEdits, Running, core, c
  <2>2. r \in Reply /\ r.call = c /\ r.how = "ok" /\ r.fresh
    <3>1. r \in Reply
      BY <1>b, AnswerTyped
    <3>2. r.call = c /\ r.how = "ok" /\ r.fresh
      BY AnswerIs
    <3> QED
      BY <3>1, <3>2
  <2> HIDE DEF r
  <2>4. Did(c.addr, r)
    BY <2>1, <2>2 DEF Did, c
  <2> QED
    BY <1>f, <2>1, <2>2, <2>4
<1>10. CASE RunPublish
  <2>1. PICK wrote \in BOOLEAN, d \in BOOLEAN :
          /\ c.what = "publish" /\ c.addr \in staged /\ ReadTo(c.addr, TRUE)
          /\ AnswersAfter(c.addr, [Answer(c, "ok")
                EXCEPT !.wrote = wrote, !.dropped = d])
    BY <1>10 DEF RunPublish, Running, ReadSo, ReadTo, c
  <2> DEFINE r == [Answer(c, "ok") EXCEPT !.wrote = wrote, !.dropped = d]
  <2>2. r \in Reply /\ r.call = c /\ r.how = "ok" /\ r.fresh
    <3>1. r \in Reply
      BY <1>b, <1>c, <2>1, AnswerTyped
    <3>2. r.call = c /\ r.how = "ok" /\ r.fresh
      BY AnswerIs
    <3> QED
      BY <3>1, <3>2
  <2>3. AnswersAfter(c.addr, r)
    BY <2>1
  <2> HIDE DEF r
  <2>4. Did(c.addr, r)
    BY <1>c, <2>1, <2>2, <2>3 DEF Did, c
  <2> QED
    BY <1>f, <2>2, <2>3, <2>4
<1>11. CASE RunPublishFails
  <2> DEFINE r == Answer(c, "refused")
  <2>1. /\ c.what = "publish" /\ c.addr \in staged
        /\ ReadTo(c.addr, TRUE) \/ ReadTo(c.addr, FALSE)
        /\ AnswersAfter(c.addr, r)
    BY <1>11 DEF RunPublishFails, Running, ReadSo, ReadTo, c
  <2>2. r \in Reply /\ r.call = c /\ r.how = "refused" /\ r.fresh
    <3>1. r \in Reply
      BY <1>b, AnswerTyped
    <3>2. r.call = c /\ r.how = "refused" /\ r.fresh
      BY AnswerIs
    <3> QED
      BY <3>1, <3>2
  <2> HIDE DEF r
  <2>4. Did(c.addr, r)
    BY <1>c, <2>1, <2>2 DEF Did, c
  <2> QED
    BY <1>f, <2>1, <2>2, <2>4
<1> QED
  BY <1>1, <1>2, <1>3, <1>4, <1>5, <1>6, <1>7, <1>8, <1>9, <1>10, <1>11 DEF Pool

-----------------------------------------------------------------------------
(* Where each item is after an event, and after an answer.                  *)

\* One of the items after the n-th is in W once the step is taken.
HasThen(n, W) == \E m \in n + 1 .. Length' : Line'[m] \in W

LEMMA Marked ==
  ASSUME NEW u, NEW i \in Item
  PROVE  LET j == Mark(u, i)
         IN  /\ j \in Item /\ j.how = i.how /\ j.fresh = i.fresh
             /\ j.listed = i.listed /\ j.call.what = i.call.what
             /\ j.call.addr = i.call.addr /\ (j.call.wanted => i.call.wanted)
             /\ u.moved /\ i.call.what = "refresh" => ~j.call.wanted
             /\ ~u.moved \/ i.call.what # "refresh" => j = i
<1> DEFINE c == i.call
           b == Passed(u, c)
           j == [i EXCEPT !.call = b]
<1>1. c \in CallType
  BY DEF Item
<1> HIDE DEF c
<1>2. /\ b \in CallType /\ b.what = c.what /\ b.addr = c.addr
      /\ (b.wanted => c.wanted)
      /\ u.moved /\ c.what = "refresh" => ~b.wanted
      /\ ~u.moved \/ c.what # "refresh" => b = c
  BY <1>1 DEF Passed, CallType
<1> HIDE DEF b
<1>3. /\ j \in Item /\ j.call = b /\ j.how = i.how /\ j.fresh = i.fresh
      /\ j.listed = i.listed
  BY <1>2 DEF Item
<1>4. b = c => j = i
  BY DEF Item, c
<1>5. j = Mark(u, i)
  BY DEF Mark, b, c
<1> HIDE DEF j
<1> QED
  BY <1>2, <1>3, <1>4, <1>5 DEF c

\* An item after an event was there before, or is one of its calls.
LEMMA Comes ==
  ASSUME ScreenInv, NEW u, NEW d, NEW calls, Event(u, d, calls),
         NEW p \in 1 .. Length'
  PROVE  \/ \E n \in d + 1 .. Length :
                p = n - d /\ Line[n] \in Item /\ Line'[p] = Mark(u, Line[n])
         \/ \E j \in 1 .. Len(calls) :
                /\ p = Length - d + j /\ calls[j] \in CallType
                /\ Line'[p] = Queued(calls[j])
<1>1. /\ d \in {0, 1} /\ Len(calls) \in Nat /\ calls \in Seq(CallType)
      /\ Length' = Length - d + Len(calls)
      /\ \A n \in d + 1 .. Length : Line'[n - d] = Mark(u, Line[n])
      /\ \A n \in 1 .. Len(calls) : Line'[Length - d + n] = Queued(calls[n])
  BY DEF Event, Moves
<1>2. Length \in Nat /\ \A n \in 1 .. Length : Line[n] \in Item
  BY LineTyped DEF ScreenInv
<1>3. CASE p <= Length - d
  <2> DEFINE n == p + d
  <2>1. n \in d + 1 .. Length /\ n \in 1 .. Length /\ p = n - d
    BY <1>1, <1>2, <1>3
  <2> HIDE DEF n
  <2>2. Line'[n - d] = Mark(u, Line[n]) /\ Line[n] \in Item
    BY <1>1, <1>2, <2>1
  <2> QED
    BY <2>1, <2>2
<1>4. CASE ~(p <= Length - d)
  <2> DEFINE j == p - (Length - d)
  <2>1. j \in 1 .. Len(calls) /\ p = Length - d + j
    BY <1>1, <1>2, <1>4
  <2> HIDE DEF j
  <2>2. Line'[Length - d + j] = Queued(calls[j]) /\ calls[j] \in CallType
    BY <1>1, <2>1
  <2> QED
    BY <2>1, <2>2
<1> QED
  BY <1>3, <1>4

LEMMA Stays ==
  ASSUME ScreenInv, NEW u, NEW d, NEW calls, Event(u, d, calls),
         NEW n \in d + 1 .. Length
  PROVE  /\ n - d \in 1 .. Length' /\ Line[n] \in Item /\ n \in 1 .. Length
         /\ Line'[n - d] = Mark(u, Line[n])
<1>1. /\ d \in {0, 1} /\ Len(calls) \in Nat
      /\ Length' = Length - d + Len(calls)
      /\ Line'[n - d] = Mark(u, Line[n])
  BY DEF Event, Moves
<1>2. Length \in Nat /\ \A m \in 1 .. Length : Line[m] \in Item
  BY LineTyped DEF ScreenInv
<1>3. n - d \in 1 .. Length' /\ n \in 1 .. Length
  BY <1>1, <1>2
<1> QED
  BY <1>1, <1>2, <1>3

\* What comes later on the line still does, unless the event took it.
LEMMA HasStill ==
  ASSUME ScreenInv, NEW u, NEW d, NEW calls, Event(u, d, calls),
         NEW n \in Nat, d <= n, NEW W, NEW V,
         \A i \in Item : i \in W => Mark(u, i) \in V,
         Has(n, W)
  PROVE  HasThen(n - d, V)
<1>1. PICK m \in n + 1 .. Length : Line[m] \in W
  BY DEF Has
<1>2. d \in {0, 1} /\ Length \in Nat
  BY LineTyped DEF Event, ScreenInv
<1>3. m \in d + 1 .. Length
  BY <1>2
<1>4. m - d \in 1 .. Length' /\ Line[m] \in Item /\ Line'[m - d] = Mark(u, Line[m])
  BY <1>3, Stays
<1>5. Line'[m - d] \in V
  BY <1>1, <1>4
<1>6. m - d \in n - d + 1 .. Length'
  BY <1>2, <1>4
<1> QED
  BY <1>5, <1>6 DEF HasThen

\* A call made comes after all that was on the line.
LEMMA HasMore ==
  ASSUME ScreenInv, NEW u, NEW d, NEW calls, Event(u, d, calls),
         NEW j \in 1 .. Len(calls), NEW V, Queued(calls[j]) \in V,
         NEW n \in Int, n <= Length - d
  PROVE  HasThen(n, V)
<1>1. /\ d \in {0, 1} /\ Len(calls) \in Nat
      /\ Length' = Length - d + Len(calls)
      /\ Line'[Length - d + j] = Queued(calls[j])
  BY DEF Event, Moves
<1>2. Length \in Nat
  BY LineTyped DEF ScreenInv
<1>3. Length - d + j \in n + 1 .. Length'
  BY <1>1, <1>2
<1> QED
  BY <1>1, <1>3 DEF HasThen

\* The item answered, those before it and those after it.
LEMMA Answered ==
  ASSUME ScreenInv, NEW rs, NEW r, Answering(rs, r)
  PROVE  LET k == Len(replies) + 1
         IN  /\ k \in 1 .. Length /\ Length' = Length /\ Length \in Nat
             /\ Head(queue) \in CallType
             /\ Line[k] = Queued(Head(queue)) /\ Line'[k] = r
             /\ Line[k].call = Head(queue) /\ Line[k].how = "queued"
             /\ r \in Reply /\ r.call.what = Head(queue).what
             /\ Head(queue).what \notin Takings \/ r.how # "ok" => r.call = Head(queue)
             /\ \A n \in 1 .. Length : Line[n] \in Item /\ Line'[n] \in Item
             /\ \A n \in 1 .. Length :
                    n # k => /\ Line'[n].call = Line[n].call
                             /\ Line'[n].how = Line[n].how
                             /\ Line'[n].listed = Line[n].listed
             /\ \A n \in k + 1 .. Length :
                    Line'[n] = Line[n] /\ Line[n].how = "queued"
<1> DEFINE k == Len(replies) + 1
           c == Head(queue)
<1>0. /\ Length \in Nat /\ Len(replies) \in Nat
      /\ \A n \in 1 .. Length : Line[n] \in Item
      /\ \A n \in 1 .. Len(replies) : Line[n] \in Reply
  BY LineTyped DEF ScreenInv
<1>1. /\ k \in 1 .. Length /\ Line[k] = Queued(c) /\ Length' = Length
      /\ Line'[k] = r
      /\ \A n \in 1 .. k - 1 : Line[n] = replies[n] /\ Line'[n] = rs[n]
      /\ \A n \in k + 1 .. Length : Line'[n] = Line[n] /\ Line[n].how = "queued"
  BY <1>0 DEF Answering, Runs
<1>2. c \in CallType /\ r \in Reply /\ r \in Item
  BY DEF Answering, Reply, ReplyType, Item
<1>3. Line[k].call = c /\ Line[k].how = "queued"
  BY <1>1, <1>2, QueuedItem
<1>4. r.call.what = c.what /\ (c.what \notin Takings \/ r.how # "ok" => r.call = c)
  BY Kinds DEF Answering, AsItIs, Changed, Did, Half, c
<1>5. \E a : rs = replies \/ rs = Outdated(replies, a)
  BY DEF Answering, AsItIs, Changed, Half
<1>6. /\ replies \in Seq(Reply) /\ rs \in Seq(Reply)
  BY DEF Answering, ScreenInv, BackendInv
<1>7. ASSUME NEW n \in 1 .. Len(replies)
      PROVE  /\ rs[n].call = replies[n].call /\ rs[n].how = replies[n].how
             /\ rs[n].listed = replies[n].listed
             /\ rs[n] \in Item
  <2>1. replies[n] \in Reply
    BY <1>6
  <2>2. replies[n] \in Item
    BY <2>1 DEF Reply, ReplyType, Item
  <2>3. rs[n] = replies[n] \/ rs[n] = [replies[n] EXCEPT !.fresh = FALSE]
    <3>1. ASSUME NEW a
          PROVE  Outdated(replies, a)[n] \in {replies[n],
                                              [replies[n] EXCEPT !.fresh = FALSE]}
      <4>1. n \in DOMAIN replies
        BY <1>6
      <4> DEFINE x == [replies[n] EXCEPT !.fresh = FALSE]
      <4>2. \/ Outdated(replies, a)[n] = x
            \/ Outdated(replies, a)[n] = replies[n]
        BY <4>1 DEF Outdated
      <4> HIDE DEF x
      <4>3. Outdated(replies, a)[n] \in {replies[n], x}
        BY <4>2
      <4> QED
        BY <4>3 DEF x
    <3> QED
      BY <1>5, <3>1
  <2> QED
    BY <2>2, <2>3 DEF Item
<1>8. ASSUME NEW n \in 1 .. Length, n # k
      PROVE  /\ Line'[n].call = Line[n].call /\ Line'[n].how = Line[n].how
             /\ Line'[n].listed = Line[n].listed /\ Line'[n] \in Item
  <2>1. CASE n <= Len(replies)
    <3>1. n \in 1 .. Len(replies) /\ n \in 1 .. k - 1
      BY <1>0, <2>1
    <3>2. Line[n] = replies[n] /\ Line'[n] = rs[n]
      BY <1>1, <3>1
    <3> QED
      BY <1>7, <3>1, <3>2
  <2>2. CASE ~(n <= Len(replies))
    <3>1. n \in k + 1 .. Length
      BY <1>0, <1>8, <2>2
    <3> QED
      BY <1>0, <1>1, <3>1
  <2> QED
    BY <2>1, <2>2
<1> HIDE DEF c, k
<1>9. \A n \in 1 .. Length : Line[n] \in Item /\ Line'[n] \in Item
  BY <1>0, <1>1, <1>2, <1>8
<1> QED
  BY <1>0, <1>1, <1>2, <1>3, <1>4, <1>8, <1>9 DEF c, k

-----------------------------------------------------------------------------
(* What every event keeps.                                                  *)

\* The store is read again, for the account on screen.
Rereads(calls) ==
    \E j \in 1 .. Len(calls) : calls[j].what = "refresh" /\ calls[j].wanted

\* Whatever is drawn, read or written is the selected account.
ForSelected(u, calls) ==
    \A j \in 1 .. Len(calls) :
        calls[j].what \in {"refresh", "state", "publish"} =>
            calls[j].addr = u.selected

\* A newly selected account is read, once it may be.
ReadsNewly(u, calls) ==
    /\ u.moved => u.selected = None \/ ~ready' \/ Rereads(calls)
    /\ ready => ready'
    /\ ready' => ready \/ u.selected = None \/ Rereads(calls)

LEMMA CallFields ==
  ASSUME NEW what, NEW a
  PROVE  /\ Call(what, a).what = what /\ Call(what, a).addr = a
         /\ Call(what, a).wanted
  BY DEF Call

LEMMA EventCalls ==
  ASSUME ScreenInv, NEW u, NEW d, NEW calls, Event(u, d, calls)
  PROVE  ForSelected(u, calls) /\ ReadsNewly(u, calls)
<1> DEFINE c == Call("accounts", None)
           s == Call("state", u.selected)
           r == Call("refresh", u.selected)
           p == Call("publish", u.selected)
           N == u.selected = None
<1>1. /\ c.what = "accounts"
      /\ s.what = "state" /\ s.addr = u.selected
      /\ r.what = "refresh" /\ r.addr = u.selected /\ r.wanted
      /\ p.what = "publish" /\ p.addr = u.selected
  BY CallFields
<1>2. ReloadAccounts = <<c>>
  BY DEF ReloadAccounts
<1>3. ui.selected \in MaybeAddr /\ ready \in BOOLEAN
  BY DEF ScreenInv, BackendInv, TypeOK, ScreenType
<1> HIDE DEF c, s, r, p
<1>a. ASSUME calls = <<>> PROVE ForSelected(u, calls)
  BY <1>a DEF ForSelected
<1>b. ASSUME NEW b, calls = <<b>>, b.what \in {"refresh", "state", "publish"} =>
                 b.addr = u.selected
      PROVE  ForSelected(u, calls)
  BY <1>b DEF ForSelected
<1>c. ASSUME calls = <<s, r>>
      PROVE  ForSelected(u, calls) /\ Rereads(calls)
  <2>1. Len(calls) = 2 /\ calls[1] = s /\ calls[2] = r
    BY <1>c
  <2>2. \A j \in 1 .. 2 : j = 1 \/ j = 2
    OBVIOUS
  <2> QED
    BY <1>1, <2>1, <2>2 DEF ForSelected, Rereads
<1>d. ASSUME calls = <<c, s, r>>
      PROVE  ForSelected(u, calls) /\ Rereads(calls)
  <2>1. Len(calls) = 3 /\ calls[1] = c /\ calls[2] = s /\ calls[3] = r
    BY <1>d
  <2>2. \A j \in 1 .. 3 : j = 1 \/ j = 2 \/ j = 3
    OBVIOUS
  <2> QED
    BY <1>1, <2>1, <2>2 DEF ForSelected, Rereads
<1>e. ASSUME calls = <<r>>
      PROVE  ForSelected(u, calls) /\ Rereads(calls)
  <2>1. Len(calls) = 1 /\ calls[1] = r
    BY <1>e
  <2>2. \A j \in 1 .. 1 : j = 1
    OBVIOUS
  <2> QED
    BY <1>1, <2>1, <2>2 DEF ForSelected, Rereads
<1>f. ASSUME ~u.moved, UNCHANGED ready
      PROVE  ReadsNewly(u, calls)
  BY <1>f DEF ReadsNewly
<1>g. ASSUME u.selected = None, UNCHANGED ready
      PROVE  ReadsNewly(u, calls)
  BY <1>g DEF ReadsNewly
<1>h. ASSUME Rereads(calls), ready => ready'
      PROVE  ReadsNewly(u, calls)
  BY <1>h DEF ReadsNewly
<1>4. CASE Pressed(u, d, calls)
  <2>1. calls = <<>> \/ \E b \in CallType : b.what \in Asks /\ calls = <<b>>
    BY <1>4 DEF Pressed
  <2>2. ASSUME NEW b \in CallType, b.what \in Asks, calls = <<b>>
        PROVE  ForSelected(u, calls)
    <3>1. b.what \notin {"refresh", "state", "publish"}
      BY <2>2, Kinds
    <3> QED
      BY <1>b, <2>2, <3>1
  <2>3. ~u.moved
    BY <1>4 DEF Pressed, Alike, Still
  <2>4. UNCHANGED ready \/ (ready' /\ N)
    BY <1>3, <1>4 DEF Pressed
  <2>5. ReadsNewly(u, calls)
    BY <1>f, <2>3, <2>4 DEF ReadsNewly
  <2> QED
    BY <1>a, <2>1, <2>2, <2>5
<1>5. CASE ReadsAgain(u, d, calls)
  <2>1. calls = <<r>>
    BY <1>5 DEF ReadsAgain, r
  <2> QED
    BY <1>5, <1>e, <2>1 DEF ReadsNewly, ReadsAgain, Still
<1>6. CASE Selects(u, d, calls)
  <2>1. calls = <<s, r>> /\ UNCHANGED ready
    BY <1>6 DEF Selects, s, r
  <2> QED
    BY <1>c, <1>h, <2>1
<1>7. CASE Takes(u, d, calls)
  <2>1. calls = <<c, s, r>> /\ UNCHANGED ready
    BY <1>7 DEF Takes, c, s, r
  <2> QED
    BY <1>d, <1>h, <2>1
<1>8. CASE Writes(u, d, calls)
  <2>1. calls = <<p>> /\ UNCHANGED ready /\ ~u.moved
    BY <1>8 DEF Writes, Still, p
  <2> QED
    BY <1>1, <1>b, <1>f, <2>1
<1>9. CASE \/ ListsAgain(u, d, calls) \/ ReadsWell(u, d, calls)
           \/ ReadsBadly(u, d, calls)
  <2>1. calls = <<c>> /\ UNCHANGED ready /\ ~u.moved
    BY <1>2, <1>9 DEF ListsAgain, ReadsWell, ReadsBadly, Alike, Still
  <2> QED
    BY <1>1, <1>b, <1>f, <2>1
<1>10. CASE LandsQuietly(u, d, calls) \/ VaultFails(u, d, calls) \/ Draws(u, d, calls)
  <2>1. calls = <<>> /\ UNCHANGED ready /\ ~u.moved
    BY <1>10 DEF LandsQuietly, VaultFails, Draws, Alike, Still
  <2> QED
    BY <1>a, <1>f, <2>1
<1>11. CASE ListsNone(u, d, calls)
  <2>1. calls = <<>> /\ UNCHANGED ready /\ u.selected = None
    BY <1>11 DEF ListsNone
  <2> QED
    BY <1>a, <1>g, <2>1
<1>12. CASE LetsGo(u, d, calls)
  <2>1. calls = <<c>> /\ UNCHANGED ready /\ u.selected = None
    BY <1>2, <1>12 DEF LetsGo
  <2> QED
    BY <1>1, <1>b, <1>g, <2>1
<1>13. CASE ListsOn(u, d, calls)
  <2>1. calls = <<s>> /\ UNCHANGED ready /\ ~u.moved
    BY <1>13 DEF ListsOn, s
  <2> QED
    BY <1>1, <1>b, <1>f, <2>1
<1>14. CASE ListsFirst(u, d, calls)
  <2>1. /\ UNCHANGED ready
        /\ calls = <<s, r>> \/ (~ready /\ calls = <<s>>)
    BY <1>14 DEF ListsFirst, s, r
  <2> QED
    BY <1>1, <1>b, <1>c, <1>h, <2>1 DEF ReadsNewly
<1> QED
  BY <1>4, <1>5, <1>6, <1>7, <1>8, <1>9, <1>10, <1>11, <1>12, <1>13, <1>14
  DEF Event

\* What is drawn once the event is over is u, its selection settled.
LEMMA EventShows ==
  ASSUME ScreenInv, NEW u, NEW d, NEW calls, Event(u, d, calls)
  PROVE  /\ ui'.selected = u.selected /\ ui'.list = u.list /\ ui'.shown = u.shown
         /\ ui'.status = u.status /\ ui'.storeProblem = u.storeProblem
         /\ ui'.vaultProblem = u.vaultProblem /\ ~ui'.moved
         /\ UNCHANGED <<held, unread, opened>>
         /\ u.selected \in MaybeAddr
         /\ d \in {0, 1} /\ \A j \in 1 .. Len(calls) : calls[j] \in CallType
         /\ d = 1 => opened /\ 1 <= Length
         /\ opened \/ calls = <<>>
<1>1. /\ u \in ScreenType /\ ui' = [u EXCEPT !.moved = FALSE]
      /\ UNCHANGED <<held, unread, opened>> /\ d \in {0, 1}
      /\ calls \in Seq(CallType) /\ d <= Len(replies) /\ (opened \/ calls = <<>>)
  BY DEF Event, Moves, core
<1>2. /\ ui'.selected = u.selected /\ ui'.list = u.list /\ ui'.shown = u.shown
      /\ ui'.status = u.status /\ ui'.storeProblem = u.storeProblem
      /\ ui'.vaultProblem = u.vaultProblem /\ ~ui'.moved
      /\ u.selected \in MaybeAddr
  BY <1>1 DEF ScreenType
<1>3. d = 1 => opened /\ 1 <= Length
  BY <1>1, LineTyped DEF ScreenInv, Closed, Length
<1> QED
  BY <1>1, <1>2, <1>3

\* Unless the event selects, the selection is the same.
LEMMA Unturned ==
  ASSUME NEW u, NEW d, NEW calls, Event(u, d, calls), ~u.moved
  PROVE  u.selected = ui.selected
  BY DEF Event, Pressed, ReadsAgain, Selects, Writes, LandsQuietly, ListsAgain,
     ReadsWell, ReadsBadly, ListsNone, ListsOn, ListsFirst, VaultFails, Draws, Takes,
     LetsGo, Alike, Still, Turned

LEMMA ScreenInit ==
  ASSUME Init
  PROVE  ScreenInv
<1>1. BackendInv
  BY InitInv
<1>2. /\ ui = [selected |-> None, moved |-> FALSE, list |-> {}, shown |-> None,
               vaultProblem |-> ~opened, storeProblem |-> FALSE,
               status |-> IF opened THEN "ready" ELSE "vault",
               firstNew |-> None, notice |-> Quiet, away |-> {}]
      /\ queue = IF opened THEN ReloadAccounts ELSE <<>>
      /\ replies = <<>> /\ opened \in BOOLEAN
  BY DEF Init
<1>3. Closed
  <2>1. ui.selected = None /\ ui.list = {} /\ (~opened => ui.vaultProblem)
    BY <1>2
  <2>2. ~opened => Len(queue) = 0 /\ Len(replies) = 0
    BY <1>2
  <2> QED
    BY <2>1, <2>2 DEF Closed, Length
<1>4. Named
  <2>1. Len(replies) = 0
    BY <1>2
  <2> SUFFICES ASSUME NEW n \in 1 .. Length PROVE Line[n].how = "queued"
    BY DEF Named
  <2>2. /\ n \in Len(replies) + 1 .. Length
    BY <1>1, <2>1, LineTyped
  <2>3. Line[n] = Queued(queue[n - Len(replies)]) /\ queue[n - Len(replies)] \in CallType
    BY <1>1, <2>2, LineTyped
  <2> QED
    BY <2>3, QueuedItem
<1> QED
  BY <1>1, <1>2, <1>3, <1>4 DEF ScreenInv

LEMMA NamedByEvent ==
  ASSUME ScreenInv, NEW u, NEW d, NEW calls, Event(u, d, calls)
  PROVE  Named'
<1> SUFFICES ASSUME NEW p \in 1 .. Length',
                    Line'[p].call.what \in Takings, Line'[p].how = "ok"
             PROVE  Line'[p].call.addr \in Addr
  BY DEF Named
<1>1. CASE \E n \in d + 1 .. Length :
              p = n - d /\ Line[n] \in Item /\ Line'[p] = Mark(u, Line[n])
  <2>1. PICK n \in d + 1 .. Length :
              p = n - d /\ Line[n] \in Item /\ Line'[p] = Mark(u, Line[n])
    BY <1>1
  <2>2. n \in 1 .. Length
    BY Stays
  <2> QED
    BY <2>1, <2>2, Marked DEF ScreenInv, Named
<1>2. CASE \E j \in 1 .. Len(calls) :
              /\ p = Length - d + j /\ calls[j] \in CallType
              /\ Line'[p] = Queued(calls[j])
  BY <1>2, QueuedItem
<1> QED
  BY <1>1, <1>2, Comes

LEMMA NamedByAnswer ==
  ASSUME ScreenInv, NEW rs, NEW r, Answering(rs, r)
  PROVE  Named'
<1> DEFINE k == Len(replies) + 1
           c == Head(queue)
<1>1. /\ k \in 1 .. Length /\ Length' = Length /\ Line'[k] = r
      /\ r.call.what = c.what
      /\ \A n \in 1 .. Length :
             n # k => Line'[n].call = Line[n].call /\ Line'[n].how = Line[n].how
  BY Answered
<1>2. c.what \in Takings /\ r.how = "ok" => r.call.addr \in Addr
  BY Kinds DEF Answering, AsItIs, Changed, Did, Half, c, Takings, Leavings,
     Stagings
<1> HIDE DEF k, c
<1> SUFFICES ASSUME NEW n \in 1 .. Length,
                    Line'[n].call.what \in Takings, Line'[n].how = "ok"
             PROVE  Line'[n].call.addr \in Addr
  BY <1>1 DEF Named
<1>3. CASE n = k
  BY <1>1, <1>2, <1>3
<1>4. CASE n # k
  BY <1>1, <1>4 DEF ScreenInv, Named
<1> QED
  BY <1>3, <1>4

\* A step is an event of the event loop's or an answer of the pool's.
LEMMA StepIs ==
  ASSUME ScreenInv, Next
  PROVE  \/ \E u, d, calls : Event(u, d, calls)
         \/ \E rs, r : Answering(rs, r)
  BY PersonMoves, EventLoopMoves, PoolAnswers DEF Next

LEMMA LineUnchanged ==
  ASSUME UNCHANGED vars
  PROVE  /\ Line' = Line /\ Length' = Length
         /\ UNCHANGED <<held, unread, opened, ready, ui, current, busy>>
  BY DEF vars, Line, Length

LEMMA ScreenKept ==
  ASSUME ScreenInv, [Next]_vars
  PROVE  ScreenInv'
<1>1. BackendInv'
  <2>1. CASE Person
    BY <2>1, PersonKeeps DEF ScreenInv
  <2>2. CASE Pool
    BY <2>2, PoolKeeps DEF ScreenInv
  <2>3. CASE EventLoop
    BY <2>3, EventLoopKeeps DEF ScreenInv
  <2>4. CASE UNCHANGED vars
    BY <2>4 DEF vars, ScreenInv, BackendInv, TypeOK, Own, Counted
  <2> QED
    BY <2>1, <2>2, <2>3, <2>4 DEF Next
<1>2. ASSUME NEW u, NEW d, NEW calls, Event(u, d, calls)
      PROVE  Closed' /\ Named' /\ ~ui'.moved
  <2>1. /\ ui'.selected = u.selected /\ ui'.list = u.list
        /\ ui'.vaultProblem = u.vaultProblem /\ ~ui'.moved
        /\ UNCHANGED opened /\ d \in {0, 1}
        /\ d = 1 => opened
        /\ opened \/ calls = <<>>
    BY <1>2, EventShows
  <2>2. Length' = Length - d + Len(calls) /\ Length \in Nat
    BY <1>2, LineTyped DEF Event, Moves, ScreenInv
  <2>3. ASSUME ~opened
        PROVE  /\ Length' = 0 /\ u.selected = None /\ u.list = {}
               /\ u.vaultProblem
    <3>1. d = 0 /\ calls = <<>>
      BY <2>1, <2>3
    <3>2. Length = 0 /\ ui.selected = None /\ ui.list = {} /\ ui.vaultProblem
      BY <2>3 DEF ScreenInv, Closed
    <3>3. Alike(u)
      BY <1>2, <3>1, <3>2 DEF Event, Pressed, ReadsAgain, Selects, Writes,
         LandsQuietly, ListsAgain, ReadsWell, ReadsBadly, ListsNone, ListsOn,
         ListsFirst, VaultFails, Draws, Takes, LetsGo, Still
    <3> QED
      BY <2>2, <3>1, <3>2, <3>3 DEF Alike, Still
  <2>4. Closed'
    BY <2>1, <2>3 DEF Closed
  <2> QED
    BY <1>2, <2>1, <2>4, NamedByEvent
<1>3. ASSUME NEW rs, NEW r, Answering(rs, r)
      PROVE  Closed' /\ Named' /\ ~ui'.moved
  <2>1. UNCHANGED <<opened, ui>>
    BY <1>3 DEF Answering
  <2>2. Length' = Length
    BY <1>3, Answered
  <2> QED
    BY <1>3, <2>1, <2>2, NamedByAnswer DEF ScreenInv, Closed
<1>4. ASSUME UNCHANGED vars
      PROVE  Closed' /\ Named' /\ ~ui'.moved
  BY <1>4, LineUnchanged DEF ScreenInv, Closed, Named
<1>5. Closed' /\ Named' /\ ~ui'.moved
  BY <1>2, <1>3, <1>4, StepIs
<1> QED
  BY <1>1, <1>5 DEF ScreenInv

-----------------------------------------------------------------------------
(* The calls that a status of reading or publishing is waiting for.         *)

\* The reads of the store that are still wanted.
WantedReads == {i \in Item : i.call.what = "refresh" /\ i.call.wanted}

Listings == {i \in Item : i.call.what = "accounts"}

\* What ends in a word on how a's read or write went.
Works(a) ==
    WantedReads
        \cup {i \in Item : i.call.what = "publish" /\ i.call.addr = a}

\* A wanted read is of the account on screen; a read skipped was not wanted.
WantedInv ==
    \A n \in 1 .. Length :
        /\ Line[n] \in WantedReads => Line[n].call.addr = ui.selected
        /\ Line[n].how = "skipped" =>
               Line[n].call.what = "refresh" /\ ~Line[n].call.wanted

\* While the status says that the store is read or written, a call is on the
\* line that will say how that went, or is to start it.
StatusInv ==
    ui.status \in {"reading", "publishing"} =>
        \/ Has(0, Works(ui.selected))
        \/ ui.selected = None /\ Has(0, Listings)
        \/ ~ready /\ ui.selected # None

\* What is queued again is still wanted unless another account was selected.
LEMMA WorksStill ==
  ASSUME ScreenInv, NEW u, NEW d, NEW calls, Event(u, d, calls),
         NEW n \in Nat, d <= n
  PROVE  /\ ~u.moved /\ Has(n, WantedReads) => HasThen(n - d, WantedReads)
         /\ ~u.moved /\ Has(n, Works(ui.selected)) =>
                HasThen(n - d, Works(u.selected))
         /\ Has(n, Listings) => HasThen(n - d, Listings)
<1>1. \A i \in Item : i \in Listings => Mark(u, i) \in Listings
  BY Marked DEF Listings
<1>2. ASSUME ~u.moved
      PROVE  /\ \A i \in Item : i \in WantedReads => Mark(u, i) \in WantedReads
             /\ \A i \in Item : i \in Works(ui.selected) => Mark(u, i) \in Works(u.selected)
  <2>1. \A i \in Item : Mark(u, i) = i
    BY <1>2, Marked
  <2>2. u.selected = ui.selected
    BY <1>2, Unturned
  <2> QED
    BY <2>1, <2>2
<1> QED
  BY <1>1, <1>2, HasStill

\* A read of the store made anew is wanted, and comes last.
LEMMA RereadComes ==
  ASSUME ScreenInv, NEW u, NEW d, NEW calls, Event(u, d, calls),
         Rereads(calls), NEW n \in Int, n <= Length - d
  PROVE  HasThen(n, WantedReads) /\ HasThen(n, Works(u.selected))
<1>1. PICK j \in 1 .. Len(calls) : calls[j].what = "refresh" /\ calls[j].wanted
  BY DEF Rereads
<1>2. calls[j] \in CallType
  BY EventShows
<1>3. Queued(calls[j]) \in WantedReads
  BY <1>1, <1>2, QueuedItem DEF WantedReads
<1>4. Queued(calls[j]) \in Works(u.selected)
  BY <1>3 DEF Works
<1> QED
  BY <1>3, <1>4, HasMore

LEMMA HasRest ==
  ASSUME BackendInv, NEW W, Has(0, W), Line[1] \notin W
  PROVE  Has(1, W)
<1>1. PICK m \in 0 + 1 .. Length : Line[m] \in W
  BY DEF Has
<1>2. m # 1 /\ Length \in Nat
  BY <1>1, LineTyped
<1>3. m \in 1 + 1 .. Length
  BY <1>2
<1> QED
  BY <1>1, <1>3 DEF Has

LEMMA WantedByEvent ==
  ASSUME ScreenInv, WantedInv, NEW u, NEW d, NEW calls, Event(u, d, calls)
  PROVE  WantedInv'
<1> SUFFICES ASSUME NEW p \in 1 .. Length'
             PROVE  /\ Line'[p] \in WantedReads => Line'[p].call.addr = ui'.selected
                    /\ Line'[p].how = "skipped" =>
                           /\ Line'[p].call.what = "refresh"
                           /\ ~Line'[p].call.wanted
  BY DEF WantedInv, WantedReads
<1>0. ui'.selected = u.selected
  BY EventShows
<1>1. CASE \E n \in d + 1 .. Length :
              p = n - d /\ Line[n] \in Item /\ Line'[p] = Mark(u, Line[n])
  <2>1. PICK n \in d + 1 .. Length :
              p = n - d /\ Line[n] \in Item /\ Line'[p] = Mark(u, Line[n])
    BY <1>1
  <2>2. n \in 1 .. Length
    BY Stays
  <2>3. ASSUME Line'[p] \in WantedReads
        PROVE  Line'[p].call.addr = ui'.selected
    <3>1. ~u.moved
      BY <2>1, <2>3, Marked DEF WantedReads
    <3>2. Mark(u, Line[n]) = Line[n]
      BY <2>1, <3>1, Marked
    <3> QED
      BY <1>0, <2>1, <2>2, <2>3, <3>1, <3>2, Unturned DEF WantedInv
  <2>4. ASSUME Line'[p].how = "skipped"
        PROVE  Line'[p].call.what = "refresh" /\ ~Line'[p].call.wanted
    BY <2>1, <2>2, <2>4, Marked DEF WantedInv
  <2> QED
    BY <2>3, <2>4
<1>2. CASE \E j \in 1 .. Len(calls) :
              /\ p = Length - d + j /\ calls[j] \in CallType
              /\ Line'[p] = Queued(calls[j])
  <2>1. ForSelected(u, calls)
    BY EventCalls
  <2> QED
    BY <1>0, <1>2, <2>1, QueuedItem DEF ForSelected, WantedReads
<1> QED
  BY <1>1, <1>2, Comes

LEMMA WantedByAnswer ==
  ASSUME ScreenInv, WantedInv, NEW rs, NEW r, Answering(rs, r)
  PROVE  WantedInv'
<1> DEFINE k == Len(replies) + 1
           c == Head(queue)
<1>1. /\ k \in 1 .. Length /\ Length' = Length /\ Line'[k] = r
      /\ Line[k].call = c /\ r.call.what = c.what
      /\ c.what \notin Takings \/ r.how # "ok" => r.call = c
      /\ \A n \in 1 .. Length : Line[n] \in Item /\ Line'[n] \in Item
      /\ \A n \in 1 .. Length :
             n # k => Line'[n].call = Line[n].call /\ Line'[n].how = Line[n].how
  BY Answered
<1>2. r.how = "skipped" => c.what = "refresh" /\ ~c.wanted
  BY DEF Answering, AsItIs, Changed, Did, Half, c
<1>3. ui' = ui
  BY DEF Answering
<1> HIDE DEF k, c
<1> SUFFICES ASSUME NEW n \in 1 .. Length
             PROVE  /\ Line'[n] \in WantedReads => Line'[n].call.addr = ui.selected
                    /\ Line'[n].how = "skipped" =>
                           /\ Line'[n].call.what = "refresh"
                           /\ ~Line'[n].call.wanted
  BY <1>1, <1>3 DEF WantedInv, WantedReads
<1>4. CASE n = k
  <2>1. Line'[n] \in WantedReads => r.call = c
    BY <1>1, <1>4 DEF WantedReads, Takings
  <2> QED
    BY <1>1, <1>2, <1>4, <2>1 DEF WantedInv, WantedReads
<1>5. CASE n # k
  BY <1>1, <1>5 DEF WantedInv, WantedReads
<1> QED
  BY <1>4, <1>5

\* The kinds of item that only what is called, and for whom, says.
LEMMA AnswersKeep ==
  ASSUME ScreenInv, NEW rs, NEW r, Answering(rs, r), NEW n \in Nat, NEW a
  PROVE  /\ Has(n, WantedReads) => HasThen(n, WantedReads)
         /\ Has(n, Works(a)) => HasThen(n, Works(a))
         /\ Has(n, Listings) => HasThen(n, Listings)
<1>1. /\ Length' = Length /\ Length \in Nat
      /\ \A m \in 1 .. Length : Line[m] \in Item /\ Line'[m] \in Item
  BY Answered
<1>2. ASSUME NEW m \in 1 .. Length
      PROVE  /\ Line'[m].call.what = Line[m].call.what
             /\ Line[m].call.what \notin Takings => Line'[m].call = Line[m].call
  BY Answered
<1>3. ASSUME NEW m \in n + 1 .. Length
      PROVE  /\ Line[m] \in WantedReads => Line'[m] \in WantedReads
             /\ Line[m] \in Works(a) => Line'[m] \in Works(a)
             /\ Line[m] \in Listings => Line'[m] \in Listings
  <2>1. m \in 1 .. Length
    BY <1>1
  <2> QED
    BY <1>1, <1>2, <2>1 DEF WantedReads, Works, Listings, Takings
<1> QED
  BY <1>1, <1>3 DEF Has, HasThen

LEMMA ReadsAnew ==
  ASSUME NEW u, NEW d, NEW calls,
         ReadsAgain(u, d, calls) \/ Selects(u, d, calls) \/ Takes(u, d, calls)
  PROVE  Rereads(calls)
<1> DEFINE x == Call("accounts", None)
           y == Call("state", u.selected)
           z == Call("refresh", u.selected)
<1>1. calls = <<z>> \/ calls = <<y, z>> \/ calls = <<x, y, z>>
  BY DEF ReadsAgain, Selects, Takes
<1>2. z.what = "refresh" /\ z.wanted
  BY CallFields
<1> HIDE DEF x, y, z
<1>3. CASE calls = <<z>>
  <2>1. 1 \in 1 .. Len(calls) /\ calls[1] = z
    BY <1>3
  <2> QED
    BY <1>2, <2>1 DEF Rereads
<1>4. CASE calls = <<y, z>>
  <2>1. 2 \in 1 .. Len(calls) /\ calls[2] = z
    BY <1>4
  <2> QED
    BY <1>2, <2>1 DEF Rereads
<1>5. CASE calls = <<x, y, z>>
  <2>1. 3 \in 1 .. Len(calls) /\ calls[3] = z
    BY <1>5
  <2> QED
    BY <1>2, <2>1 DEF Rereads
<1> QED
  BY <1>1, <1>3, <1>4, <1>5

LEMMA StatusByEvent ==
  ASSUME ScreenInv, WantedInv, StatusInv, NEW u, NEW d, NEW calls, Event(u, d, calls)
  PROVE  StatusInv'
<1> DEFINE Busy(s) == s \in {"reading", "publishing"}
           Goal == \/ HasThen(0, Works(u.selected))
                   \/ u.selected = None /\ HasThen(0, Listings)
                   \/ ~ready' /\ u.selected # None
<1>0. /\ ui'.selected = u.selected /\ ui'.status = u.status /\ d \in {0, 1}
      /\ \A j \in 1 .. Len(calls) : calls[j] \in CallType
      /\ d = 1 => 1 <= Length
      /\ u.selected \in MaybeAddr
  BY EventShows
<1>a. Length \in Nat /\ BackendInv
  BY LineTyped DEF ScreenInv
<1>b. (Busy(u.status) => Goal) => StatusInv'
  BY <1>0 DEF StatusInv, Has, HasThen, Works, WantedReads, Listings
<1>c. 0 \in Int /\ 0 <= Length - d
  BY <1>0, <1>a
<1>d. ForSelected(u, calls) /\ ReadsNewly(u, calls)
  BY EventCalls
<1>e. ASSUME calls = ReloadAccounts PROVE HasThen(0, Listings)
  <2> DEFINE c == Call("accounts", None)
  <2>1. calls = <<c>> /\ c.what = "accounts"
    BY <1>e, CallFields DEF ReloadAccounts
  <2> HIDE DEF c
  <2>2. 1 \in 1 .. Len(calls) /\ calls[1] = c
    BY <2>1
  <2>3. Queued(calls[1]) \in Listings
    BY <1>0, <2>1, <2>2, QueuedItem DEF Listings
  <2> QED
    BY <1>c, <2>2, <2>3, HasMore
\* Nothing of what the status was waiting for has come.
<1>f. ASSUME ~u.moved, u.status = ui.status, Busy(ui.status),
             ready' => ready \/ u.selected = None,
             d = 0 \/ Line[1] \notin Works(ui.selected),
             d = 0 \/ Line[1] \notin Listings
      PROVE  Goal
  <2>1. u.selected = ui.selected
    BY <1>f, Unturned
  <2>2. \/ Has(d, Works(ui.selected))
        \/ ui.selected = None /\ Has(d, Listings)
        \/ ~ready /\ ui.selected # None
    BY <1>0, <1>a, <1>f, HasRest DEF StatusInv
  <2>3. d \in Nat /\ d <= d /\ d - d = 0
    BY <1>0
  <2> QED
    BY <1>f, <2>1, <2>2, <2>3, WorksStill
<1> HIDE DEF Goal
<1>1. CASE Rereads(calls)
  BY <1>b, <1>c, <1>1, RereadComes DEF Goal
<1>2. CASE Pressed(u, d, calls)
  <2>1. /\ d = 0 /\ ~u.moved /\ u.status = ui.status
        /\ (ready' => ready \/ u.selected = None)
    BY <1>2 DEF Pressed, Alike, Still
  <2> QED
    BY <1>b, <1>f, <2>1
<1>3. CASE ReadsAgain(u, d, calls) \/ Selects(u, d, calls) \/ Takes(u, d, calls)
  BY <1>1, <1>3, ReadsAnew
<1>4. CASE Writes(u, d, calls)
  <2> DEFINE c == Call("publish", u.selected)
  <2>1. calls = <<c>> /\ c.what = "publish" /\ c.addr = u.selected
    BY <1>4, CallFields DEF Writes
  <2> HIDE DEF c
  <2>2. 1 \in 1 .. Len(calls) /\ calls[1] = c
    BY <2>1
  <2>3. Queued(calls[1]) \in Works(u.selected)
    BY <1>0, <2>1, <2>2, QueuedItem DEF Works
  <2> QED
    BY <1>b, <1>c, <2>2, <2>3, HasMore DEF Goal
<1>5. CASE LandsQuietly(u, d, calls)
  <2>1. /\ ~u.moved /\ u.status = ui.status /\ UNCHANGED ready
    BY <1>5 DEF LandsQuietly, Alike, Still
  <2>2. Line[1] \notin Works(ui.selected) /\ Line[1] \notin Listings
    <3>1. 1 \in 1 .. Length \/ d = 0
      BY <1>0, <1>a
    <3> QED
      BY <1>5, <3>1, Kinds DEF LandsQuietly, First, WantedInv, Works, WantedReads,
         Listings
  <2> QED
    BY <1>b, <1>f, <2>1, <2>2
<1>6. CASE ListsAgain(u, d, calls)
  <2>1. /\ ~u.moved /\ u.status = ui.status /\ UNCHANGED ready
        /\ calls = ReloadAccounts /\ u.selected = ui.selected
    BY <1>6 DEF ListsAgain, Alike, Still
  <2>2. CASE u.selected = None
    BY <1>b, <1>e, <2>1, <2>2 DEF Goal
  <2>3. CASE u.selected # None
    <3>1. d = 0 \/ (Line[1] \notin Works(ui.selected) /\ Line[1] \notin Listings)
      BY <1>6, <2>1, <2>3, Kinds DEF ListsAgain, First, Works, WantedReads, Listings
    <3> QED
      BY <1>b, <1>f, <2>1, <3>1
  <2> QED
    BY <2>2, <2>3
<1>7. CASE \/ ReadsWell(u, d, calls) \/ ReadsBadly(u, d, calls)
           \/ ListsNone(u, d, calls) \/ VaultFails(u, d, calls)
  <2>1. ~Busy(u.status)
    BY <1>7 DEF ReadsWell, ReadsBadly, ListsNone, VaultFails
  <2> QED
    BY <1>b, <2>1
<1>8. CASE ListsOn(u, d, calls)
  <2>1. /\ d = 1 /\ ~u.moved /\ u.status = ui.status /\ UNCHANGED ready
        /\ u.selected = ui.selected /\ Line[1] \in Reply
        /\ Line[1].call.what = "accounts" /\ ui.selected \in Line[1].listed
    BY <1>8 DEF ListsOn, First
  <2>2. ui.selected # None
    BY <2>1, BackendAssumption DEF Reply, ReplyType
  <2>3. Line[1] \notin Works(ui.selected)
    BY <2>1 DEF Works, WantedReads
  <2>4. Busy(ui.status) =>
            Has(1, Works(ui.selected)) \/ (~ready /\ ui.selected # None)
    BY <1>a, <2>2, <2>3, HasRest DEF StatusInv
  <2>5. 1 \in Nat /\ d <= 1 /\ 1 - d = 0
    BY <2>1
  <2>6. Has(1, Works(ui.selected)) => HasThen(0, Works(u.selected))
    <3>1. Has(1, Works(ui.selected)) => HasThen(1 - d, Works(u.selected))
      BY <2>1, <2>5, WorksStill
    <3> QED
      BY <2>5, <3>1
  <2> QED
    BY <1>b, <2>1, <2>4, <2>6 DEF Goal
<1>9. CASE Draws(u, d, calls)
  <2>1. /\ ~u.moved /\ u.status = ui.status /\ UNCHANGED ready
        /\ Line[1].call.what = "state"
    BY <1>9 DEF Draws, First
  <2>2. Line[1] \notin Works(ui.selected) /\ Line[1] \notin Listings
    BY <2>1 DEF Works, WantedReads, Listings
  <2> QED
    BY <1>b, <1>f, <2>1, <2>2
<1>10. CASE LetsGo(u, d, calls)
  <2>1. u.selected = None /\ calls = ReloadAccounts
    BY <1>10 DEF LetsGo
  <2> QED
    BY <1>b, <1>e, <2>1 DEF Goal
<1>11. CASE ListsFirst(u, d, calls)
  <2>1. u.moved /\ u.selected \in Line[1].listed /\ Line[1] \in Reply
    BY <1>11 DEF ListsFirst, First
  <2>2. u.selected # None
    BY <2>1, BackendAssumption DEF Reply, ReplyType
  <2>3. ~ready' \/ Rereads(calls)
    BY <1>d, <2>1, <2>2 DEF ReadsNewly
  <2> QED
    BY <1>1, <1>b, <2>2, <2>3 DEF Goal
<1> QED
  BY <1>2, <1>3, <1>4, <1>5, <1>6, <1>7, <1>8, <1>9, <1>10, <1>11 DEF Event

LEMMA StatusByAnswer ==
  ASSUME ScreenInv, StatusInv, NEW rs, NEW r, Answering(rs, r)
  PROVE  StatusInv'
<1> DEFINE s == ui.selected
<1>1. UNCHANGED <<ready, ui>>
  BY DEF Answering
<1>2. /\ Has(0, Works(s)) => HasThen(0, Works(s))
      /\ Has(0, Listings) => HasThen(0, Listings)
  BY AnswersKeep
<1>3. /\ HasThen(0, Works(s)) => Has(0, Works(s))'
      /\ HasThen(0, Listings) => Has(0, Listings)'
  BY <1>1 DEF Has, HasThen, Works, WantedReads, Listings
<1> QED
  BY <1>1, <1>2, <1>3 DEF StatusInv, s

StatusesInv == ScreenInv /\ WantedInv /\ StatusInv

LEMMA StatusesInit ==
  ASSUME Init
  PROVE  StatusesInv
<1>1. ScreenInv /\ replies = <<>> /\ queue \in {<<>>, ReloadAccounts}
  BY ScreenInit DEF Init
<1>2. ui.status = IF opened THEN "ready" ELSE "vault"
  BY DEF Init
<1>3. StatusInv
  BY <1>2 DEF StatusInv
<1>4. ASSUME NEW n \in 1 .. Length
      PROVE  /\ Line[n] \notin WantedReads /\ Line[n].how = "queued"
  <2> DEFINE c == Call("accounts", None)
  <2>1. c.what = "accounts" /\ queue \in {<<>>, <<c>>}
    BY <1>1, CallFields DEF ReloadAccounts
  <2> HIDE DEF c
  <2>2. Len(replies) = 0
    BY <1>1
  <2>3. n \in Len(replies) + 1 .. Length /\ n \in 1 .. Len(queue)
    BY <1>1, <2>2, LineTyped DEF Length
  <2>4. n - Len(replies) = n
    BY <2>2
  <2>5. /\ Line[n] = Queued(queue[n - Len(replies)])
        /\ queue[n - Len(replies)] \in CallType
    BY <1>1, <2>3, LineTyped DEF ScreenInv
  <2>6. queue[n] = c
    BY <2>1, <2>3
  <2> QED
    BY <2>1, <2>4, <2>5, <2>6, QueuedItem DEF WantedReads
<1> QED
  BY <1>1, <1>3, <1>4 DEF StatusesInv, WantedInv

LEMMA StatusesKept ==
  ASSUME StatusesInv, [Next]_vars
  PROVE  StatusesInv'
<1>1. ScreenInv /\ WantedInv /\ StatusInv /\ ScreenInv'
  BY ScreenKept DEF StatusesInv
<1>2. ASSUME NEW u, NEW d, NEW calls, Event(u, d, calls)
      PROVE  WantedInv' /\ StatusInv'
  BY <1>1, <1>2, WantedByEvent, StatusByEvent
<1>3. ASSUME NEW rs, NEW r, Answering(rs, r)
      PROVE  WantedInv' /\ StatusInv'
  BY <1>1, <1>3, WantedByAnswer, StatusByAnswer
<1>4. ASSUME UNCHANGED vars
      PROVE  WantedInv' /\ StatusInv'
  BY <1>1, <1>4, LineUnchanged DEF WantedInv, StatusInv, Has, Works, WantedReads,
     Listings
<1>5. WantedInv' /\ StatusInv'
  BY <1>1, <1>2, <1>3, <1>4, StepIs
<1> QED
  BY <1>1, <1>5 DEF StatusesInv

\* A read of the account on screen that is queued or answered is marked wanted,
\* and a status line that says the store is read or written has a call in the
\* line that will have it set again (refresh, publish, select).
THEOREM StatusesHold == Spec => []StatusesInv
<1>1. Init => StatusesInv
  BY StatusesInit
<1>2. StatusesInv /\ [Next]_vars => StatusesInv'
  BY StatusesKept
<1> QED
  BY <1>1, <1>2, PTL DEF Spec

\* statusText never goes on saying that the store is read or written once
\* every call has landed: each handler that sets it calls the pool, and each
\* that answers such a call sets it again (refresh, publish, select).
THEOREM StatusIsRight == Spec => []StatusSettles
<1>1. StatusesInv => StatusSettles
  <2> SUFFICES ASSUME StatusesInv, ~busy, ready PROVE ui.status \notin {"reading", "publishing"}
    BY DEF StatusSettles
  <2>1. Length = 0
    BY LineEmpty DEF StatusesInv, ScreenInv
  <2>2. \A W : ~Has(0, W)
    BY <2>1 DEF Has
  <2> QED
    BY <2>2 DEF StatusesInv, StatusInv
<1> QED
  BY <1>1, StatusesHold, PTL

-----------------------------------------------------------------------------
(* The last word on how an account's last read went.                        *)

\* What will say, or does, that the last read of a failed.
Tells(a) ==
    {i \in WantedReads : i.how \in {"queued", "refused"}}
        \cup {i \in Item : /\ i.call.what = "publish" /\ i.call.addr = a
                           /\ i.how = "refused"}

\* What says that the store was read.
Resets ==
    {i \in Item : /\ i.how = "ok"
                  /\ i.call.what = "publish" \/ i \in WantedReads}

\* A publish of an account that is not on screen any more lands before a read
\* of the one that is.
OthersInv ==
    ready /\ ui.selected # None =>
        \A n \in 1 .. Length :
            Line[n].call.what = "publish" /\ Line[n].call.addr # ui.selected =>
                Has(n, WantedReads)

\* The m-th item says it, or the screen does if m is 0; and nothing that comes
\* later takes it back.
ToldBy(m) ==
    /\ \/ m = 0 /\ ui.storeProblem
       \/ m # 0 /\ Line[m] \in Tells(ui.selected)
    /\ ~Has(m, Resets)

\* That the account on screen could not be read is said, or will be.
ToldInv ==
    ready /\ ui.selected # None /\ unread[ui.selected] =>
        \E m \in 0 .. Length : ToldBy(m)

ToldByThen(m) ==
    /\ \/ m = 0 /\ ui'.storeProblem
       \/ m # 0 /\ Line'[m] \in Tells(ui'.selected)
    /\ ~HasThen(m, Resets)

LEMMA ToldThen == \A m : ToldByThen(m) => ToldBy(m)'
  BY DEF ToldByThen, ToldBy, HasThen, Has, Tells, Resets, WantedReads

LEMMA OthersByEvent ==
  ASSUME ScreenInv, OthersInv, NEW u, NEW d, NEW calls, Event(u, d, calls)
  PROVE  OthersInv'
<1>1. ASSUME ready', u.selected # None, NEW p \in 1 .. Length',
             Line'[p].call.what = "publish", Line'[p].call.addr # u.selected
      PROVE  HasThen(p, WantedReads)
  <2>1. ForSelected(u, calls) /\ ReadsNewly(u, calls)
    BY EventCalls
  <2>2. CASE \E n \in d + 1 .. Length :
                p = n - d /\ Line[n] \in Item /\ Line'[p] = Mark(u, Line[n])
    <3>1. PICK n \in d + 1 .. Length :
                p = n - d /\ Line[n] \in Item /\ Line'[p] = Mark(u, Line[n])
      BY <2>2
    <3>2. /\ Line[n].call.what = "publish" /\ Line[n].call.addr # u.selected
          /\ n \in 1 .. Length
      BY <1>1, <3>1, Marked, Stays
    <3>3. d \in {0, 1} /\ Length \in Nat
      BY EventShows, LineTyped DEF ScreenInv
    <3>4. CASE Rereads(calls)
      <4>1. p \in Int /\ p <= Length - d
        BY <3>1, <3>3
      <4> QED
        BY <3>4, <4>1, RereadComes
    <3>5. CASE ~Rereads(calls)
      <4>1. ~u.moved /\ ready
        BY <1>1, <2>1, <3>5 DEF ReadsNewly
      <4>2. u.selected = ui.selected
        BY <4>1, Unturned
      <4>3. Has(n, WantedReads)
        BY <1>1, <3>2, <4>1, <4>2 DEF OthersInv
      <4>4. n \in Nat /\ d <= n
        BY <3>3
      <4> QED
        BY <3>1, <4>1, <4>3, <4>4, WorksStill
    <3> QED
      BY <3>4, <3>5
  <2>3. CASE \E j \in 1 .. Len(calls) :
                /\ p = Length - d + j /\ calls[j] \in CallType
                /\ Line'[p] = Queued(calls[j])
    BY <1>1, <2>1, <2>3, QueuedItem DEF ForSelected
  <2> QED
    BY <2>2, <2>3, Comes
<1>2. ui'.selected = u.selected
  BY EventShows
<1>3. \A p : HasThen(p, WantedReads) => Has(p, WantedReads)'
  BY DEF HasThen, Has, WantedReads
<1> QED
  BY <1>1, <1>2, <1>3 DEF OthersInv

LEMMA OthersByAnswer ==
  ASSUME ScreenInv, OthersInv, NEW rs, NEW r, Answering(rs, r)
  PROVE  OthersInv'
<1>1. UNCHANGED <<ready, ui>>
  BY DEF Answering
<1>2. Length' = Length /\ Length \in Nat
  BY Answered
<1>3. ASSUME NEW n \in 1 .. Length
      PROVE  /\ Line'[n].call.what = Line[n].call.what
             /\ Line[n].call.what \notin Takings => Line'[n].call = Line[n].call
  BY Answered
<1>4. \A p \in Nat : Has(p, WantedReads) => HasThen(p, WantedReads)
  BY AnswersKeep
<1>5. \A p : HasThen(p, WantedReads) => Has(p, WantedReads)'
  BY DEF HasThen, Has, WantedReads
<1>6. ASSUME ready, ui.selected # None, NEW p \in 1 .. Length,
             Line'[p].call.what = "publish", Line'[p].call.addr # ui.selected
      PROVE  Has(p, WantedReads)'
  <2>1. Line[p].call.what = "publish" /\ Line[p].call.addr # ui.selected
    BY <1>3, <1>6 DEF Takings
  <2>2. Has(p, WantedReads) /\ p \in Nat
    BY <1>6, <2>1 DEF OthersInv
  <2> QED
    BY <1>4, <1>5, <2>2
<1> QED
  BY <1>1, <1>2, <1>6 DEF OthersInv

\* An event adds nothing that resets.
LEMMA ResetsStay ==
  ASSUME ScreenInv, NEW u, NEW d, NEW calls, Event(u, d, calls),
         NEW n \in Int, d <= n, HasThen(n - d, Resets)
  PROVE  Has(n, Resets)
<1>0. d \in {0, 1}
  BY EventShows
<1>1. PICK p \in n - d + 1 .. Length' : Line'[p] \in Resets
  BY DEF HasThen
<1>2. p \in 1 .. Length'
  BY <1>0
<1>3. CASE \E q \in d + 1 .. Length :
              p = q - d /\ Line[q] \in Item /\ Line'[p] = Mark(u, Line[q])
  <2>1. PICK q \in d + 1 .. Length :
              p = q - d /\ Line[q] \in Item /\ Line'[p] = Mark(u, Line[q])
    BY <1>3
  <2>2. Line[q] \in Resets
    BY <1>1, <2>1, Marked DEF Resets, WantedReads
  <2>3. Length \in Nat
    BY LineTyped DEF ScreenInv
  <2>4. q \in n + 1 .. Length
    BY <1>0, <2>1, <2>3
  <2> QED
    BY <2>2, <2>4 DEF Has
<1>4. CASE \E j \in 1 .. Len(calls) :
              /\ p = Length - d + j /\ calls[j] \in CallType
              /\ Line'[p] = Queued(calls[j])
  BY <1>1, <1>4, QueuedItem DEF Resets
<1> QED
  BY <1>2, <1>3, <1>4, Comes

\* The first item's word is heard when it lands.
LEMMA WordLands ==
  ASSUME ScreenInv, NEW u, NEW d, NEW calls, Event(u, d, calls),
         ~u.moved, ~Rereads(calls), u.selected # None
  PROVE  /\ \/ u.storeProblem = ui.storeProblem
            \/ u.storeProblem
            \/ d = 1 /\ Line[1] \in Resets
         /\ d = 1 /\ Line[1] \in Tells(ui.selected) => u.storeProblem
<1>0. u.selected = ui.selected
  BY Unturned
<1>1. /\ ~ReadsAgain(u, d, calls) /\ ~Selects(u, d, calls) /\ ~Takes(u, d, calls)
      /\ ~ListsNone(u, d, calls) /\ ~ListsFirst(u, d, calls) /\ ~LetsGo(u, d, calls)
  BY ReadsAnew DEF ListsNone, ListsFirst, LetsGo, Turned
<1>2. CASE Pressed(u, d, calls) \/ Writes(u, d, calls)
  BY <1>2 DEF Pressed, Writes, Alike
<1>3. CASE ReadsBadly(u, d, calls)
  BY <1>3 DEF ReadsBadly
<1>4. CASE ReadsWell(u, d, calls)
  <2>1. /\ d = 1 /\ Line[1] \in Reply /\ Line[1].how = "ok"
        /\ \/ Line[1].call.what = "publish"
           \/ Line[1].call.what = "refresh" /\ Line[1].call.wanted
    BY <1>4 DEF ReadsWell, First
  <2>2. Line[1] \in Item
    BY <2>1 DEF Reply, ReplyType, Item
  <2> QED
    BY <2>1, <2>2 DEF Resets, Tells, WantedReads
<1>5. CASE LandsQuietly(u, d, calls)
  <2>1. u.storeProblem = ui.storeProblem /\ d = 1
    BY <1>5 DEF LandsQuietly, Alike
  <2>2. \/ Line[1].how = "skipped"
        \/ Line[1].call.what \notin {"refresh", "publish"}
    BY <1>5, Kinds DEF LandsQuietly, First
  <2> QED
    BY <2>1, <2>2 DEF Tells, WantedReads
<1>6. CASE ListsAgain(u, d, calls)
  <2>1. u.storeProblem = ui.storeProblem
    BY <1>6 DEF ListsAgain, Alike
  <2>2. \/ d = 0
        \/ Line[1].call.what \notin {"refresh", "publish"}
        \/ Line[1].call.what = "refresh" /\ ~Line[1].call.wanted
        \/ Line[1].call.what = "publish" /\ Line[1].call.addr # ui.selected
    BY <1>6, Kinds DEF ListsAgain, First
  <2> QED
    BY <2>1, <2>2 DEF Tells, WantedReads
<1>7. CASE ListsOn(u, d, calls) \/ VaultFails(u, d, calls) \/ Draws(u, d, calls)
  <2>1. u.storeProblem = ui.storeProblem
    BY <1>7 DEF ListsOn, VaultFails, Draws
  <2>2. Line[1].call.what \in {"accounts", "state"}
    BY <1>7 DEF ListsOn, VaultFails, Draws, First
  <2> QED
    BY <2>1, <2>2 DEF Tells, WantedReads
<1> QED
  BY <1>1, <1>2, <1>3, <1>4, <1>5, <1>6, <1>7 DEF Event

LEMMA ToldByEvent ==
  ASSUME ScreenInv, ToldInv, NEW u, NEW d, NEW calls, Event(u, d, calls)
  PROVE  ToldInv'
<1>0. /\ ui'.selected = u.selected /\ ui'.storeProblem = u.storeProblem
      /\ d \in {0, 1} /\ UNCHANGED unread
      /\ \A j \in 1 .. Len(calls) : calls[j] \in CallType
  BY EventShows
<1>a. Length \in Nat /\ Len(calls) \in Nat /\ Length' = Length - d + Len(calls)
      /\ (d = 1 => 1 <= Length)
  <2>1. /\ calls \in Seq(CallType) /\ Length' = Length - d + Len(calls)
    BY DEF Event, Moves
  <2>2. Length \in Nat /\ (d = 1 => 1 <= Length)
    BY LineTyped, EventShows DEF ScreenInv
  <2> QED
    BY <2>1, <2>2
<1>1. ASSUME ready', u.selected # None, unread[u.selected]
      PROVE  \E m \in 0 .. Length' : ToldByThen(m)
  <2>1. CASE Rereads(calls)
    <3>1. PICK j \in 1 .. Len(calls) : calls[j].what = "refresh" /\ calls[j].wanted
      BY <2>1 DEF Rereads
    <3> DEFINE m == Length - d + j
    <3>2. Line'[m] = Queued(calls[j]) /\ calls[j] \in CallType
      BY <1>0 DEF Event, Moves
    <3>3. m \in 1 .. Length' /\ m # 0 /\ m \in 0 .. Length' /\ m + d = Length + j
          /\ m \in Int
      BY <1>0, <1>a
    <3> HIDE DEF m
    <3>4. Line'[m] \in Tells(u.selected)
      BY <3>1, <3>2, QueuedItem DEF Tells, WantedReads
    <3>5. ~HasThen(m, Resets)
      <4> SUFFICES ASSUME HasThen(m, Resets) PROVE FALSE
        OBVIOUS
      <4> DEFINE n == m + d
      <4>1. n \in Int /\ d <= n /\ n - d = m /\ n > Length
        BY <1>0, <1>a, <3>3
      <4> HIDE DEF n
      <4>2. Has(n, Resets)
        BY <4>1, ResetsStay
      <4> QED
        BY <1>a, <4>1, <4>2 DEF Has
    <3>6. ToldByThen(m)
      BY <1>0, <3>3, <3>4, <3>5 DEF ToldByThen
    <3> QED
      BY <3>3, <3>6
  <2>2. CASE ~Rereads(calls)
    <3>1. ~u.moved /\ ready
      BY <1>1, <2>2, EventCalls DEF ReadsNewly
    <3>2. u.selected = ui.selected
      BY <3>1, Unturned
    <3>3. PICK m \in 0 .. Length : ToldBy(m)
      BY <1>1, <3>1, <3>2 DEF ToldInv
    <3>4. /\ \/ u.storeProblem = ui.storeProblem
             \/ u.storeProblem
             \/ d = 1 /\ Line[1] \in Resets
          /\ d = 1 /\ Line[1] \in Tells(ui.selected) => u.storeProblem
      BY <1>1, <2>2, <3>1, WordLands
    <3>5. CASE d < m
      <4> DEFINE n == m - d
      <4>1. /\ m \in d + 1 .. Length /\ n # 0 /\ n \in 0 .. Length' /\ m # 0
            /\ m \in Int /\ d <= m
        BY <1>0, <1>a, <3>5
      <4>2. Line'[n] = Mark(u, Line[m]) /\ Line[m] \in Item
        BY <4>1, Stays
      <4>3. Mark(u, Line[m]) = Line[m]
        BY <3>1, <4>2, Marked
      <4>4. Line[m] \in Tells(ui.selected) /\ ~Has(m, Resets)
        BY <3>3, <4>1 DEF ToldBy
      <4>5. ~HasThen(n, Resets)
        BY <4>1, <4>4, ResetsStay
      <4> HIDE DEF n
      <4>6. ToldByThen(n)
        BY <1>0, <3>2, <4>1, <4>2, <4>3, <4>4, <4>5 DEF ToldByThen
      <4> QED
        BY <4>1, <4>6
    <3>6. CASE ~(d < m)
      <4>1. m = d \/ (m = 0 /\ d = 1)
        BY <1>0, <3>6
      <4>2. u.storeProblem /\ ~Has(d, Resets)
        <5>1. CASE m = d /\ d = 0
          BY <3>3, <3>4, <5>1 DEF ToldBy
        <5>2. CASE m = d /\ d = 1
          BY <3>3, <3>4, <5>2 DEF ToldBy
        <5>3. CASE m = 0 /\ d = 1
          <6>1. ui.storeProblem /\ ~Has(0, Resets)
            BY <3>3, <5>3 DEF ToldBy
          <6>2. Line[1] \notin Resets
            BY <1>a, <5>3, <6>1 DEF Has
          <6>3. ~Has(1, Resets)
            BY <6>1 DEF Has
          <6> QED
            BY <3>4, <5>3, <6>1, <6>2, <6>3
        <5> QED
          BY <1>0, <4>1, <5>1, <5>2, <5>3
      <4>3. d \in Int /\ d <= d /\ d - d = 0 /\ 0 \in 0 .. Length'
        BY <1>0, <1>a
      <4>4. ~HasThen(0, Resets)
        <5>1. ~HasThen(d - d, Resets)
          BY <4>2, <4>3, ResetsStay
        <5> QED
          BY <4>3, <5>1
      <4>5. ToldByThen(0)
        BY <1>0, <4>2, <4>4 DEF ToldByThen
      <4> QED
        BY <4>3, <4>5
    <3> QED
      BY <3>5, <3>6
  <2> QED
    BY <2>1, <2>2
<1>2. ToldInv' = (ready' /\ ui'.selected # None /\ unread'[ui'.selected] =>
                    \E m \in 0 .. Length' : ToldBy(m)')
  BY DEF ToldInv
<1> QED
  BY <1>0, <1>1, <1>2, ToldThen

LEMMA ToldByAnswer ==
  ASSUME ScreenInv, WantedInv, OthersInv, ToldInv, NEW rs, NEW r, Answering(rs, r)
  PROVE  ToldInv'
<1> DEFINE k == Len(replies) + 1
           c == Head(queue)
           s == ui.selected
<1>0. UNCHANGED <<ready, ui>>
  BY DEF Answering
<1>1. /\ k \in 1 .. Length /\ Length' = Length /\ Length \in Nat
      /\ c \in CallType /\ Line'[k] = r /\ Line[k].call = c /\ Line[k].how = "queued"
      /\ r \in Reply /\ r.call.what = c.what
      /\ c.what \notin Takings \/ r.how # "ok" => r.call = c
      /\ \A n \in 1 .. Length : Line[n] \in Item /\ Line'[n] \in Item
      /\ \A n \in 1 .. Length :
             n # k => Line'[n].call = Line[n].call /\ Line'[n].how = Line[n].how
      /\ \A n \in k + 1 .. Length : Line'[n] = Line[n] /\ Line[n].how = "queued"
  BY Answered
<1>2. s \in MaybeAddr /\ unread \in [Addr -> BOOLEAN]
  BY DEF ScreenInv, BackendInv, TypeOK, ScreenType
<1>3. /\ \A n \in 1 .. Length :
             Line[n] \in WantedReads => Line[n].call.addr = s
      /\ Line[k] \in Item
  BY <1>1 DEF WantedInv
\* What the pool did to the account on screen.
<1>4. ASSUME s # None, unread'[s]
      PROVE  \/ r.how = "refused" /\ r.call = c /\ c.addr = s
                /\ (c.what = "publish" \/ (c.what = "refresh" /\ c.wanted))
             \/ /\ unread[s]
                /\ r.how = "ok" /\ c.what \in {"publish", "refresh"} =>
                       c.what = "publish" /\ c.addr # s
  <2>1. s \in Addr
    BY <1>2, <1>4 DEF MaybeAddr
  <2>2. CASE AsItIs(rs, r) \/ Half(rs, r)
    BY <1>4, <2>2, Kinds DEF AsItIs, Half
  <2>3. CASE \E a : Changed(a, rs, r)
    <3>1. PICK a : Did(a, r)
      BY <2>3 DEF Changed
    <3>2. ASSUME NEW b \in BOOLEAN, unread' = [unread EXCEPT ![a] = b]
          PROVE  /\ a = s => b
                 /\ a # s => unread[s]
      BY <1>2, <1>4, <2>1, <3>2
    <3>3. ASSUME c.what = "refresh", c.wanted, r.call = c, a = c.addr,
                 \/ r.how = "ok" /\ ReadTo(a, TRUE)
                 \/ r.how = "refused" /\ ReadTo(a, FALSE)
          PROVE  r.how = "refused"
      <4>1. Line[k] \in WantedReads
        BY <1>1, <1>3, <3>3 DEF WantedReads
      <4>2. a = s
        BY <1>1, <1>3, <3>3, <4>1
      <4>3. ~ReadTo(a, TRUE)
        BY <3>2, <4>2 DEF ReadTo
      <4> QED
        BY <3>3, <4>3
    <3>4. CASE /\ c.what = "refresh" /\ c.wanted /\ r.call = c /\ a = c.addr
               /\ \/ r.how = "ok" /\ ReadTo(a, TRUE)
                  \/ r.how = "refused" /\ ReadTo(a, FALSE)
      <4>1. Line[k] \in WantedReads
        BY <1>1, <1>3, <3>4 DEF WantedReads
      <4>2. a = s
        BY <1>1, <1>3, <3>4, <4>1
      <4> QED
        BY <3>3, <3>4, <4>2
    <3>5. CASE /\ c.what = "publish" /\ r.call = c /\ a = c.addr
               /\ \/ r.how = "ok" /\ ReadTo(a, TRUE)
                  \/ r.how = "refused" /\ ReadTo(a, TRUE)
                  \/ r.how = "refused" /\ ReadTo(a, FALSE)
      <4>1. CASE r.how = "refused"
        <5>1. CASE a = s
          BY <3>5, <4>1, <5>1
        <5>2. CASE a # s
          BY <3>2, <3>5, <4>1, <5>2 DEF ReadTo
        <5> QED
          BY <5>1, <5>2
      <4>2. CASE r.how = "ok"
        <5>1. ReadTo(a, TRUE)
          BY <3>5, <4>2
        <5>2. a # s /\ unread[s]
          BY <3>2, <5>1 DEF ReadTo
        <5> QED
          BY <3>5, <5>2
      <4> QED
        BY <3>5, <4>1, <4>2
    <3>6. CASE /\ c.what \in Takings \cup Leavings \cup Stagings \cup {"unlock"}
               /\ unread' = unread \/ unread' = [unread EXCEPT ![a] = FALSE]
      <4>1. unread[s]
        BY <1>4, <3>2, <3>6
      <4>2. c.what \notin {"publish", "refresh"}
        BY <3>6 DEF Takings, Leavings, Stagings
      <4> QED
        BY <4>1, <4>2
    <3> QED
      BY <3>1, <3>4, <3>5, <3>6 DEF Did, c
  <2> QED
    BY <2>2, <2>3 DEF Answering
<1> HIDE DEF k, c, s
<1>5. ASSUME NEW n \in Nat, k <= n PROVE ~HasThen(n, Resets)
  <2>1. \A m \in n + 1 .. Length : m \in k + 1 .. Length
    BY <1>1, <1>5
  <2> QED
    BY <1>1, <2>1 DEF HasThen, Resets
<1>6. ASSUME ready, s # None, unread'[s]
      PROVE  \E m \in 0 .. Length : ToldByThen(m)
  <2>0. k \in 0 .. Length /\ k # 0 /\ k \in Nat /\ k <= k
    BY <1>1
  <2>1. CASE r \in Tells(s)
    <3>1. ToldByThen(k)
      BY <1>0, <1>1, <1>5, <2>0, <2>1 DEF ToldByThen, s
    <3> QED
      BY <2>0, <3>1
  <2>2. CASE r \in Resets
    <3>1. r.how = "ok" /\ c.what \in {"publish", "refresh"}
      BY <1>1, <2>2 DEF Resets, WantedReads
    <3>2. c.what = "publish" /\ c.addr # s
      BY <1>4, <1>6, <3>1
    <3>3. Has(k, WantedReads)
      BY <1>0, <1>1, <1>6, <3>2 DEF OthersInv, s
    <3>4. PICK m \in k + 1 .. Length : Line[m] \in WantedReads
      BY <3>3 DEF Has
    <3>5. Line'[m] = Line[m] /\ Line[m].how = "queued"
      BY <1>1, <3>4
    <3>6. m \in 0 .. Length /\ m # 0 /\ m \in Nat /\ k <= m
      BY <1>1, <3>4
    <3>7. Line'[m] \in Tells(s)
      BY <3>4, <3>5 DEF Tells
    <3>8. ToldByThen(m)
      BY <1>0, <1>5, <3>6, <3>7 DEF ToldByThen, s
    <3> QED
      BY <3>6, <3>8
  <2>3. CASE r \notin Tells(s) /\ r \notin Resets
    <3>1. r \in Item
      BY <1>1, <2>0
    <3>2. unread[s]
      <4>1. CASE /\ r.how = "refused" /\ r.call = c /\ c.addr = s
                 /\ (c.what = "publish" \/ (c.what = "refresh" /\ c.wanted))
        BY <2>3, <3>1, <4>1 DEF Tells, WantedReads
      <4> QED
        BY <1>4, <1>6, <4>1
    <3>3. PICK m \in 0 .. Length : ToldBy(m)
      BY <1>6, <3>2 DEF ToldInv, s
    <3>4. ~HasThen(m, Resets)
      <4> SUFFICES ASSUME HasThen(m, Resets) PROVE FALSE
        OBVIOUS
      <4>1. PICK p \in m + 1 .. Length : Line'[p] \in Resets
        BY <1>1 DEF HasThen
      <4>2. p # k /\ p \in 1 .. Length
        BY <1>1, <2>3, <4>1
      <4>3. Line[p] \in Resets
        BY <1>1, <4>1, <4>2 DEF Resets, WantedReads
      <4>4. Has(m, Resets)
        BY <4>1, <4>3 DEF Has
      <4> QED
        BY <3>3, <4>4 DEF ToldBy
    <3>5. CASE m = 0
      <4>1. ToldByThen(m)
        BY <1>0, <3>3, <3>4, <3>5 DEF ToldBy, ToldByThen
      <4> QED
        BY <4>1
    <3>6. CASE m # 0
      <4>1. Line[m] \in Tells(s) /\ m \in 1 .. Length
        BY <3>3, <3>6 DEF ToldBy, s
      <4>2. m # k
        <5> SUFFICES ASSUME m = k PROVE FALSE
          OBVIOUS
        <5>1. c.what = "refresh" /\ c.wanted
          BY <1>1, <4>1 DEF Tells, WantedReads
        <5>2. r.call = c
          BY <1>1, <5>1 DEF Takings
        <5>3. r.how \in {"ok", "refused", "skipped"}
          BY <1>1 DEF Reply, ReplyType
        <5>4. r.how # "skipped"
          BY <5>1 DEF Answering, AsItIs, Changed, Did, Half, c
        <5>5. r \in WantedReads
          BY <3>1, <5>1, <5>2 DEF WantedReads
        <5> QED
          BY <2>3, <3>1, <5>3, <5>4, <5>5 DEF Tells, Resets
      <4>3. Line'[m] \in Tells(s)
        BY <1>1, <4>1, <4>2 DEF Tells, WantedReads
      <4>4. ToldByThen(m)
        BY <1>0, <3>4, <3>6, <4>3 DEF ToldByThen, s
      <4> QED
        BY <4>4
    <3> QED
      BY <3>5, <3>6
  <2> QED
    BY <2>1, <2>2, <2>3
<1>7. ToldInv' = (ready' /\ ui'.selected # None /\ unread'[ui'.selected] =>
                    \E m \in 0 .. Length' : ToldBy(m)')
  BY DEF ToldInv
<1> QED
  BY <1>0, <1>1, <1>6, <1>7, ToldThen DEF s

ReadsInv == StatusesInv /\ OthersInv /\ ToldInv

LEMMA ReadsKept ==
  ASSUME ReadsInv, [Next]_vars
  PROVE  ReadsInv'
<1>1. /\ ScreenInv /\ WantedInv /\ OthersInv /\ ToldInv /\ StatusesInv'
  BY StatusesKept DEF ReadsInv, StatusesInv
<1>2. ASSUME NEW u, NEW d, NEW calls, Event(u, d, calls)
      PROVE  OthersInv' /\ ToldInv'
  BY <1>1, <1>2, OthersByEvent, ToldByEvent
<1>3. ASSUME NEW rs, NEW r, Answering(rs, r)
      PROVE  OthersInv' /\ ToldInv'
  BY <1>1, <1>3, OthersByAnswer, ToldByAnswer
<1>4. ASSUME UNCHANGED vars
      PROVE  OthersInv' /\ ToldInv'
  BY <1>1, <1>4, LineUnchanged DEF OthersInv, ToldInv, ToldBy, Has, Tells, Resets,
     WantedReads
<1>5. OthersInv' /\ ToldInv'
  BY <1>1, <1>2, <1>3, <1>4, StepIs
<1> QED
  BY <1>1, <1>5 DEF ReadsInv

\* When an account's last read failed, storeProblem says so, or an answer in the
\* line will have it said; no call of another account takes it back
\* (refresh, publish, select).
THEOREM ReadsHold == Spec => []ReadsInv
<1>1. Init => ReadsInv
  <2> SUFFICES ASSUME Init PROVE ReadsInv
    OBVIOUS
  <2>1. ~ready
    BY DEF Init
  <2> QED
    BY <2>1, StatusesInit DEF ReadsInv, OthersInv, ToldInv
<1>2. ReadsInv /\ [Next]_vars => ReadsInv'
  BY ReadsKept
<1> QED
  BY <1>1, <1>2, PTL DEF Spec

\* storeProblem says that the last read of the account on screen failed, when
\* it did and everything has landed: no reply of an earlier read, or of a
\* publish of an account left meanwhile, takes that back (refresh, publish).
THEOREM ReadFailuresAreTold == Spec => []ReadFailureTold
<1>1. ReadsInv => ReadFailureTold
  <2> SUFFICES ASSUME ReadsInv, ~busy, ready, ui.selected \in held,
                      unread[ui.selected]
               PROVE  ui.storeProblem
    BY DEF ReadFailureTold
  <2>1. Length = 0 /\ held \subseteq Addr
    BY LineEmpty DEF ReadsInv, StatusesInv, ScreenInv, BackendInv, TypeOK
  <2>2. ui.selected # None
    BY <2>1, BackendAssumption
  <2>3. PICK m \in 0 .. Length : ToldBy(m)
    BY <2>2 DEF ReadsInv, ToldInv
  <2>4. m = 0
    BY <2>1
  <2> QED
    BY <2>3, <2>4 DEF ToldBy
<1> QED
  BY <1>1, ReadsHold, PTL

-----------------------------------------------------------------------------
(* The chains of calls that draw the screen again.                          *)

\* What lists the accounts again, or reads the store again, when it lands.
Relists ==
    {i \in Item :
        \/ i.call.what \in {"refresh", "publish"} /\ i.how \in {"ok", "refused"}
        \/ /\ i.call.what \in Takings \cup Leavings \cup Stagings \cup {"unlock"}
           /\ i.how = "ok"}

Chain == Relists \cup WantedReads

\* A listing that will bring the screen up to date, or fail.
Lists == {i \in Listings : i.how \in {"queued", "refused"} \/ i.fresh}

\* A state of a that will.
Shows(a) ==
    {i \in Item : /\ i.call.what = "state" /\ i.call.addr = a
                  /\ i.how \in {"queued", "refused"} \/ i.fresh}

\* What changed which accounts there are.
Changes == {i \in Item : i.how = "ok" /\ i.call.what \in Takings \cup Leavings}

\* A listing as good as the core's has the accounts the core has, and
\* everything answered after it is as good.
FreshListed ==
    \A n \in 1 .. Length :
        Line[n] \in Listings /\ Line[n].how = "ok" /\ Line[n].fresh =>
            Line[n].listed = held

FreshAfter ==
    \A i \in 1 .. Length :
        Line[i] \in Listings /\ Line[i].fresh =>
            \A j \in i .. Length : Line[j].fresh

\* An answer out of date is followed by one that has all drawn again.
StaleInv ==
    \A n \in 1 .. Length :
        ~Line[n].fresh => current.missed \/ Has(n, Relists)

\* No listing before a change is as good as the core's after it.
ChangeInv ==
    \A j \in 1 .. Length :
        Line[j] \in Changes =>
            /\ ~current.list
            /\ \A i \in 1 .. j : Line[i] \in Listings => ~Line[i].fresh

Fits == ui.selected \in ui.list \/ (ui.list = {} /\ ui.selected = None)

ListTrue == current.list => ui.list = held /\ Fits

ListInv ==
    current.list \/ current.missed \/ ui.vaultProblem
        \/ Has(0, Chain) \/ Has(0, Lists)

\* A state that is drawn says that the vault can be read, so a listing comes
\* after it unless the last one stands.
StateInv ==
    \A n \in 1 .. Length :
        Line[n].call.what = "state" =>
            current.list \/ current.missed \/ Has(0, Chain) \/ Has(n, Lists)

ShowInv ==
    ui.selected # None =>
        \/ ui.shown = ui.selected /\ current.shown
        \/ current.missed \/ ui.vaultProblem
        \/ Has(0, Chain) \/ Has(0, Listings) \/ Has(0, Shows(ui.selected))

\* The kinds of event, by what they do to that.
NoState(calls) == \A j \in 1 .. Len(calls) : calls[j].what # "state"

\* The accounts are listed.
Relisted(u, d, calls) ==
    /\ d = 1 /\ Line[1] \in Listings /\ Line[1].how = "ok"
    /\ current'.list = Line[1].fresh
    /\ current'.missed = (current.missed /\ ~Line[1].fresh)
    /\ u.list = Line[1].listed
    /\ u.selected \in u.list \/ (u.list = {} /\ u.selected = None)
    /\ \/ u.selected = None
       \/ \E j \in 1 .. Len(calls) :
              calls[j].what = "state" /\ calls[j].addr = u.selected

\* The chain goes on.
GoesOn(u, d, calls) ==
    /\ UNCHANGED current /\ u.list = ui.list /\ u.vaultProblem = ui.vaultProblem
    /\ Rereads(calls) \/ calls = ReloadAccounts
    /\ \/ u.selected = ui.selected \/ u.selected \in ui.list
       \/ d = 1 /\ Line[1] \in Changes

Quietly(u, d, calls) ==
    /\ Still(u) /\ UNCHANGED current /\ NoState(calls)
    /\ d = 0 \/ (/\ Line[1] \notin Chain /\ Line[1] \notin Listings
                 /\ Line[1] \notin Shows(u.selected))

Fails(u, d, calls) ==
    /\ d = 1 /\ ~u.moved /\ u.vaultProblem /\ UNCHANGED current
    /\ u.list = ui.list /\ u.selected = ui.selected
    /\ calls = <<>> /\ Line[1] \notin Chain

Redraws(u, d, calls) ==
    /\ d = 1 /\ ~u.moved /\ u.list = ui.list /\ u.selected = ui.selected
    /\ u.shown = u.selected /\ calls = <<>>
    /\ Line[1].call.what = "state" /\ Line[1].how = "ok"
    /\ Line[1] \notin Chain /\ Line[1] \notin Listings
    /\ current'.shown = Line[1].fresh
    /\ current'.list = current.list /\ current'.missed = current.missed

LEMMA Sorts ==
  ASSUME ScreenInv, WantedInv, NEW u, NEW d, NEW calls, Event(u, d, calls)
  PROVE  \/ Relisted(u, d, calls) \/ GoesOn(u, d, calls) \/ Quietly(u, d, calls)
         \/ Fails(u, d, calls) \/ Redraws(u, d, calls)
<1>0. /\ current \in [list : BOOLEAN, shown : BOOLEAN, missed : BOOLEAN]
      /\ d \in {0, 1} /\ (d = 1 => 1 \in 1 .. Length)
      /\ \A j \in 1 .. Len(calls) : calls[j] \in CallType
  <2>1. Length \in Nat /\ (d = 1 => 1 <= Length) /\ d \in {0, 1}
        /\ \A j \in 1 .. Len(calls) : calls[j] \in CallType
    BY EventShows, LineTyped DEF ScreenInv
  <2>2. current \in [list : BOOLEAN, shown : BOOLEAN, missed : BOOLEAN]
    BY DEF ScreenInv, BackendInv, TypeOK
  <2> QED
    BY <2>1, <2>2
<1>i. Reply \subseteq Item
  BY DEF Reply, ReplyType, Item
<1>1. ASSUME Line[1] \in Item, d = 1, NEW b \in BOOLEAN,
             current' = [Listed(Line[1]) EXCEPT !.shown = b]
             \/ current' = Listed(Line[1])
      PROVE  /\ current'.list = Line[1].fresh
             /\ current'.missed = (current.missed /\ ~Line[1].fresh)
  <2>1. Line[1].fresh \in BOOLEAN
    BY <1>1 DEF Item
  <2> QED
    BY <1>0, <1>1, <2>1 DEF Listed
<1>2. CASE Pressed(u, d, calls)
  <2>1. /\ Still(u) /\ UNCHANGED current /\ d = 0
        /\ calls = <<>> \/ \E c \in CallType : c.what \in Asks /\ calls = <<c>>
    BY <1>2 DEF Pressed, Alike
  <2>2. NoState(calls)
    BY <2>1, Kinds DEF NoState
  <2> QED
    BY <2>1, <2>2 DEF Quietly
<1>3. CASE Writes(u, d, calls)
  <2> DEFINE c == Call("publish", u.selected)
  <2>1. Still(u) /\ UNCHANGED current /\ d = 0 /\ calls = <<c>>
    BY <1>3 DEF Writes
  <2>2. c.what = "publish"
    BY CallFields
  <2> HIDE DEF c
  <2>3. NoState(calls)
    BY <2>1, <2>2 DEF NoState
  <2> QED
    BY <2>1, <2>3 DEF Quietly
<1>4. CASE LandsQuietly(u, d, calls)
  <2>1. Still(u) /\ UNCHANGED current /\ calls = <<>> /\ d = 1
    BY <1>4 DEF LandsQuietly, Alike
  <2>2. NoState(calls)
    BY <2>1 DEF NoState
  <2>3. \/ Line[1].call.what = "refresh" /\ Line[1].how = "skipped"
        \/ Line[1].call.what = "exportAccount"
        \/ Line[1].call.what = "state" /\ Line[1].call.addr # ui.selected
        \/ Line[1].call.what \in Asks /\ Line[1].how = "refused"
    BY <1>4 DEF LandsQuietly, First
  <2>4. Line[1].how = "skipped" => ~Line[1].call.wanted
    BY <1>0, <2>1 DEF WantedInv
  <2>5. u.selected = ui.selected
    BY <2>1 DEF Still
  <2>6. Line[1] \notin Chain /\ Line[1] \notin Listings
    BY <2>3, <2>4, Kinds DEF Chain, Relists, WantedReads, Listings, Takings,
       Leavings, Stagings
  <2>7. Line[1] \notin Shows(u.selected)
    BY <2>3, <2>5, Kinds DEF Shows
  <2> QED
    BY <2>1, <2>2, <2>6, <2>7 DEF Quietly
<1>5. CASE ReadsAgain(u, d, calls)
  BY <1>5, ReadsAnew DEF ReadsAgain, GoesOn, Still
<1>6. CASE Selects(u, d, calls)
  BY <1>6, ReadsAnew DEF Selects, GoesOn, Turned
<1>7. CASE Takes(u, d, calls)
  <2>1. /\ Line[1] \in Item /\ Line[1].how = "ok" /\ Line[1].call.what \in Takings
        /\ d = 1
    BY <1>7, <1>i DEF Takes, First
  <2>2. Line[1] \in Changes
    BY <2>1 DEF Changes
  <2> QED
    BY <1>7, <2>1, <2>2, ReadsAnew DEF Takes, GoesOn, Turned
<1>8. CASE LetsGo(u, d, calls)
  <2>1. /\ Line[1] \in Item /\ Line[1].how = "ok" /\ Line[1].call.what \in Leavings
        /\ d = 1
    BY <1>8, <1>i DEF LetsGo, First
  <2>2. Line[1] \in Changes
    BY <2>1 DEF Changes
  <2> QED
    BY <1>8, <2>1, <2>2 DEF LetsGo, GoesOn, Turned
<1>9. CASE \/ ListsAgain(u, d, calls) \/ ReadsWell(u, d, calls)
           \/ ReadsBadly(u, d, calls)
  BY <1>9 DEF ListsAgain, ReadsWell, ReadsBadly, GoesOn, Alike, Still
<1>10. CASE ListsNone(u, d, calls)
  <2>1. /\ d = 1 /\ Line[1] \in Item /\ Line[1].how = "ok"
        /\ Line[1].call.what = "accounts" /\ Line[1].listed = {}
        /\ u.list = {} /\ u.selected = None
        /\ current' = [Listed(Line[1]) EXCEPT !.shown = TRUE]
    BY <1>10, <1>i DEF ListsNone, First
  <2>2. /\ current'.list = Line[1].fresh
        /\ current'.missed = (current.missed /\ ~Line[1].fresh)
    BY <1>1, <2>1
  <2> QED
    BY <2>1, <2>2 DEF Relisted, Listings
<1>11. CASE ListsOn(u, d, calls)
  <2> DEFINE c == Call("state", u.selected)
  <2>1. /\ d = 1 /\ Line[1] \in Item /\ Line[1].how = "ok"
        /\ Line[1].call.what = "accounts" /\ u.list = Line[1].listed
        /\ u.selected \in u.list /\ current' = Listed(Line[1]) /\ calls = <<c>>
    BY <1>11, <1>i DEF ListsOn, First
  <2>2. c.what = "state" /\ c.addr = u.selected
    BY CallFields
  <2> HIDE DEF c
  <2>3. /\ current'.list = Line[1].fresh
        /\ current'.missed = (current.missed /\ ~Line[1].fresh)
    BY <1>1, <2>1
  <2>4. 1 \in 1 .. Len(calls) /\ calls[1] = c
    BY <2>1
  <2> QED
    BY <2>1, <2>2, <2>3, <2>4 DEF Relisted, Listings
<1>12. CASE ListsFirst(u, d, calls)
  <2> DEFINE c == Call("state", u.selected)
             r == Call("refresh", u.selected)
  <2>1. /\ d = 1 /\ Line[1] \in Item /\ Line[1].how = "ok"
        /\ Line[1].call.what = "accounts" /\ u.list = Line[1].listed
        /\ u.selected \in u.list /\ current' = Listed(Line[1])
        /\ calls = <<c>> \/ calls = <<c, r>>
    BY <1>12, <1>i DEF ListsFirst, First
  <2>2. c.what = "state" /\ c.addr = u.selected
    BY CallFields
  <2> HIDE DEF c, r
  <2>3. /\ current'.list = Line[1].fresh
        /\ current'.missed = (current.missed /\ ~Line[1].fresh)
    BY <1>1, <2>1
  <2>4. 1 \in 1 .. Len(calls) /\ calls[1] = c
    BY <2>1
  <2> QED
    BY <2>1, <2>2, <2>3, <2>4 DEF Relisted, Listings
<1>13. CASE VaultFails(u, d, calls)
  <2>1. Line[1].call.what \in {"accounts", "state"}
    BY <1>13 DEF VaultFails, First
  <2>2. Line[1] \notin Chain
    BY <2>1 DEF Chain, Relists, WantedReads, Takings, Leavings, Stagings
  <2> QED
    BY <1>13, <2>2 DEF VaultFails, Fails
<1>14. CASE Draws(u, d, calls)
  <2>1. /\ Line[1].call.what = "state" /\ Line[1].how = "ok" /\ Line[1] \in Item
        /\ current' = [current EXCEPT !.shown = Line[1].fresh]
    BY <1>14, <1>i DEF Draws, First
  <2>2. Line[1] \notin Chain /\ Line[1] \notin Listings
    BY <2>1 DEF Chain, Relists, WantedReads, Listings, Takings, Leavings, Stagings
  <2>3. /\ current'.shown = Line[1].fresh
        /\ current'.list = current.list /\ current'.missed = current.missed
    BY <1>0, <2>1
  <2> QED
    BY <1>14, <2>1, <2>2, <2>3 DEF Draws, Redraws
<1> QED
  BY <1>2, <1>3, <1>4, <1>5, <1>6, <1>7, <1>8, <1>9, <1>10, <1>11, <1>12, <1>13,
     <1>14 DEF Event

LEMMA Fewer ==
  ASSUME NEW n \in Int, NEW m \in Int, m <= n, NEW W
  PROVE  /\ Has(n, W) => Has(m, W)
         /\ HasThen(n, W) => HasThen(m, W)
<1>1. ASSUME NEW L, NEW p \in n + 1 .. L PROVE p \in m + 1 .. L
  OBVIOUS
<1> QED
  BY <1>1 DEF Has, HasThen

LEMMA ChainsStay ==
  ASSUME ScreenInv, NEW u, NEW d, NEW calls, Event(u, d, calls),
         NEW n \in Nat, d <= n
  PROVE  /\ Has(n, Relists) => HasThen(n - d, Relists)
         /\ Has(n, Listings) => HasThen(n - d, Listings)
         /\ Has(n, Lists) => HasThen(n - d, Lists)
         /\ \A a : Has(n, Shows(a)) => HasThen(n - d, Shows(a))
         /\ ~u.moved /\ Has(n, Chain) => HasThen(n - d, Chain)
<1>1. /\ \A i \in Item : i \in Relists => Mark(u, i) \in Relists
      /\ \A i \in Item : i \in Listings => Mark(u, i) \in Listings
      /\ \A i \in Item : i \in Lists => Mark(u, i) \in Lists
      /\ \A a : \A i \in Item : i \in Shows(a) => Mark(u, i) \in Shows(a)
  <2> SUFFICES ASSUME NEW i \in Item
               PROVE  /\ i \in Relists => Mark(u, i) \in Relists
                      /\ i \in Listings => Mark(u, i) \in Listings
                      /\ i \in Lists => Mark(u, i) \in Lists
                      /\ \A a : i \in Shows(a) => Mark(u, i) \in Shows(a)
    OBVIOUS
  <2> DEFINE j == Mark(u, i)
  <2>1. /\ j \in Item /\ j.how = i.how /\ j.call.what = i.call.what
        /\ j.call.addr = i.call.addr /\ j.fresh = i.fresh
    BY Marked
  <2> HIDE DEF j
  <2>2. i \in Relists => j \in Relists
    BY <2>1 DEF Relists
  <2>3. i \in Listings => j \in Listings
    BY <2>1 DEF Listings
  <2>4. i \in Lists => j \in Lists
    BY <2>1 DEF Lists, Listings
  <2>5. \A a : i \in Shows(a) => j \in Shows(a)
    BY <2>1 DEF Shows
  <2> QED
    BY <2>2, <2>3, <2>4, <2>5 DEF j
<1>2. ASSUME ~u.moved PROVE \A i \in Item : i \in Chain => Mark(u, i) \in Chain
  BY <1>2, Marked
<1>3. Has(n, Relists) => HasThen(n - d, Relists)
  BY <1>1, HasStill
<1>4. Has(n, Listings) => HasThen(n - d, Listings)
  BY <1>1, HasStill
<1>5. Has(n, Lists) => HasThen(n - d, Lists)
  BY <1>1, HasStill
<1>6. ASSUME NEW a PROVE Has(n, Shows(a)) => HasThen(n - d, Shows(a))
  <2>1. \A i \in Item : i \in Shows(a) => Mark(u, i) \in Shows(a)
    BY <1>1
  <2> QED
    BY <2>1, HasStill
<1>7. ~u.moved /\ Has(n, Chain) => HasThen(n - d, Chain)
  BY <1>2, HasStill
<1> QED
  BY <1>3, <1>4, <1>5, <1>6, <1>7

LEMMA ChainsGrow ==
  ASSUME ScreenInv, NEW u, NEW d, NEW calls, Event(u, d, calls),
         NEW n \in Int, n <= Length - d
  PROVE  /\ calls = ReloadAccounts => HasThen(n, Lists) /\ HasThen(n, Listings)
         /\ Rereads(calls) => HasThen(n, Chain)
         /\ (\E j \in 1 .. Len(calls) :
                 calls[j].what = "state" /\ calls[j].addr = u.selected)
                => HasThen(n, Shows(u.selected))
<1>0. \A j \in 1 .. Len(calls) : calls[j] \in CallType
  BY EventShows
<1>1. ASSUME calls = ReloadAccounts
      PROVE  HasThen(n, Lists) /\ HasThen(n, Listings)
  <2> DEFINE c == Call("accounts", None)
  <2>1. calls = <<c>> /\ c.what = "accounts"
    BY <1>1, CallFields DEF ReloadAccounts
  <2> HIDE DEF c
  <2>2. 1 \in 1 .. Len(calls) /\ calls[1] = c
    BY <2>1
  <2>3. Queued(calls[1]) \in Listings /\ Queued(calls[1]) \in Lists
    BY <1>0, <2>1, <2>2, QueuedItem DEF Listings, Lists
  <2> QED
    BY <2>2, <2>3, HasMore
<1>2. ASSUME Rereads(calls) PROVE HasThen(n, Chain)
  <2>1. PICK j \in 1 .. Len(calls) : calls[j].what = "refresh" /\ calls[j].wanted
    BY <1>2 DEF Rereads
  <2>2. Queued(calls[j]) \in Chain
    BY <1>0, <2>1, QueuedItem DEF Chain, WantedReads
  <2> QED
    BY <2>2, HasMore
<1>3. ASSUME NEW j \in 1 .. Len(calls),
             calls[j].what = "state" /\ calls[j].addr = u.selected
      PROVE  HasThen(n, Shows(u.selected))
  <2>1. Queued(calls[j]) \in Shows(u.selected)
    BY <1>0, <1>3, QueuedItem DEF Shows
  <2> QED
    BY <2>1, HasMore
<1> QED
  BY <1>1, <1>2, <1>3

ChainsInv ==
    /\ FreshListed /\ FreshAfter /\ StaleInv /\ ChangeInv
    /\ ListTrue /\ ListInv /\ StateInv /\ ShowInv

\* What the sets of items say, they say of the items after the step.
LEMMA ChainsThen ==
  \A n : /\ HasThen(n, Relists) => Has(n, Relists)'
         /\ HasThen(n, Chain) => Has(n, Chain)'
         /\ HasThen(n, Listings) => Has(n, Listings)'
         /\ HasThen(n, Lists) => Has(n, Lists)'
         /\ HasThen(n, Shows(ui'.selected)) => Has(n, Shows(ui.selected))'
  BY DEF Has, HasThen, Relists, Chain, WantedReads, Listings, Lists, Shows

LEMMA ListedByEvent ==
  ASSUME ScreenInv, FreshListed, NEW u, NEW d, NEW calls, Event(u, d, calls)
  PROVE  FreshListed'
<1> SUFFICES ASSUME NEW p \in 1 .. Length',
                    Line'[p] \in Listings, Line'[p].how = "ok", Line'[p].fresh
             PROVE  Line'[p].listed = held'
  BY DEF FreshListed, Listings
<1>0. held' = held
  BY EventShows
<1>1. CASE \E n \in d + 1 .. Length :
              p = n - d /\ Line[n] \in Item /\ Line'[p] = Mark(u, Line[n])
  <2>1. PICK n \in d + 1 .. Length :
              p = n - d /\ Line[n] \in Item /\ Line'[p] = Mark(u, Line[n])
    BY <1>1
  <2>2. /\ Line[n] \in Listings /\ Line[n].how = "ok" /\ Line[n].fresh
        /\ Line[n].listed = Line'[p].listed
    BY <2>1, Marked DEF Listings
  <2>3. n \in 1 .. Length
    BY Stays
  <2> QED
    BY <1>0, <2>2, <2>3 DEF FreshListed
<1>2. CASE \E j \in 1 .. Len(calls) :
              /\ p = Length - d + j /\ calls[j] \in CallType
              /\ Line'[p] = Queued(calls[j])
  BY <1>2, QueuedItem
<1> QED
  BY <1>1, <1>2, Comes

LEMMA FreshByEvent ==
  ASSUME ScreenInv, FreshAfter, NEW u, NEW d, NEW calls, Event(u, d, calls)
  PROVE  FreshAfter'
<1> SUFFICES ASSUME NEW p \in 1 .. Length', Line'[p] \in Listings, Line'[p].fresh,
                    NEW q \in p .. Length'
             PROVE  Line'[q].fresh
  BY DEF FreshAfter, Listings
<1>0. d \in {0, 1} /\ Length \in Nat
  BY EventShows, LineTyped DEF ScreenInv
<1>1. q \in 1 .. Length'
  OBVIOUS
<1>2. CASE \E m \in d + 1 .. Length :
              q = m - d /\ Line[m] \in Item /\ Line'[q] = Mark(u, Line[m])
  <2>1. PICK m \in d + 1 .. Length :
              q = m - d /\ Line[m] \in Item /\ Line'[q] = Mark(u, Line[m])
    BY <1>2
  <2>2. CASE \E n \in d + 1 .. Length :
                p = n - d /\ Line[n] \in Item /\ Line'[p] = Mark(u, Line[n])
    <3>1. PICK n \in d + 1 .. Length :
                p = n - d /\ Line[n] \in Item /\ Line'[p] = Mark(u, Line[n])
      BY <2>2
    <3>2. Line[n] \in Listings /\ Line[n].fresh
      BY <3>1, Marked DEF Listings
    <3>3. n \in 1 .. Length /\ m \in n .. Length
      BY <1>0, <2>1, <3>1
    <3>4. Line[m].fresh
      BY <3>2, <3>3 DEF FreshAfter
    <3> QED
      BY <2>1, <3>4, Marked
  <2>3. CASE \E j \in 1 .. Len(calls) :
                /\ p = Length - d + j /\ calls[j] \in CallType
                /\ Line'[p] = Queued(calls[j])
    BY <1>0, <2>1, <2>3
  <2> QED
    BY <2>2, <2>3, Comes
<1>3. CASE \E j \in 1 .. Len(calls) :
              /\ q = Length - d + j /\ calls[j] \in CallType
              /\ Line'[q] = Queued(calls[j])
  BY <1>3, QueuedItem
<1> QED
  BY <1>1, <1>2, <1>3, Comes

LEMMA StaleByEvent ==
  ASSUME ScreenInv, WantedInv, FreshAfter, StaleInv,
         NEW u, NEW d, NEW calls, Event(u, d, calls)
  PROVE  StaleInv'
<1> SUFFICES ASSUME NEW p \in 1 .. Length', ~Line'[p].fresh, ~current'.missed
             PROVE  HasThen(p, Relists)
  BY ChainsThen DEF StaleInv
<1>0. d \in {0, 1} /\ Length \in Nat
  BY EventShows, LineTyped DEF ScreenInv
<1>1. CASE \E n \in d + 1 .. Length :
              p = n - d /\ Line[n] \in Item /\ Line'[p] = Mark(u, Line[n])
  <2>1. PICK n \in d + 1 .. Length :
              p = n - d /\ Line[n] \in Item /\ Line'[p] = Mark(u, Line[n])
    BY <1>1
  <2>2. ~Line[n].fresh /\ n \in 1 .. Length /\ n \in Nat /\ d <= n
    BY <1>0, <2>1, Marked
  <2>3. ~current.missed
    <3>1. CASE Relisted(u, d, calls)
      <4>1. d = 1 /\ Line[1] \in Listings
            /\ current'.missed = (current.missed /\ ~Line[1].fresh)
        BY <3>1 DEF Relisted
      <4>2. 1 \in 1 .. Length /\ n \in 1 .. Length
        BY <1>0, <2>1, <4>1
      <4>3. ~Line[1].fresh
        BY <2>2, <4>1, <4>2 DEF FreshAfter
      <4> QED
        BY <4>1, <4>3
    <3>2. CASE current'.missed = current.missed
      BY <3>2
    <3> QED
      BY <3>1, <3>2, Sorts DEF GoesOn, Quietly, Fails, Redraws
  <2>4. Has(n, Relists)
    BY <2>2, <2>3 DEF StaleInv
  <2> QED
    BY <2>1, <2>2, <2>4, ChainsStay
<1>2. CASE \E j \in 1 .. Len(calls) :
              /\ p = Length - d + j /\ calls[j] \in CallType
              /\ Line'[p] = Queued(calls[j])
  BY <1>2, QueuedItem
<1> QED
  BY <1>1, <1>2, Comes

LEMMA ChangeByEvent ==
  ASSUME ScreenInv, WantedInv, ChangeInv, NEW u, NEW d, NEW calls, Event(u, d, calls)
  PROVE  ChangeInv'
<1> SUFFICES ASSUME NEW p \in 1 .. Length', Line'[p] \in Changes
             PROVE  /\ ~current'.list
                    /\ \A q \in 1 .. p : Line'[q] \in Listings => ~Line'[q].fresh
  BY DEF ChangeInv, Changes, Listings
<1>0. d \in {0, 1} /\ Length \in Nat
  BY EventShows, LineTyped DEF ScreenInv
<1>1. CASE \E n \in d + 1 .. Length :
              p = n - d /\ Line[n] \in Item /\ Line'[p] = Mark(u, Line[n])
  <2>1. PICK n \in d + 1 .. Length :
              p = n - d /\ Line[n] \in Item /\ Line'[p] = Mark(u, Line[n])
    BY <1>1
  <2>2. Line[n] \in Changes /\ n \in 1 .. Length
    BY <2>1, Marked, Stays DEF Changes
  <2>3. ~current.list /\ \A i \in 1 .. n : Line[i] \in Listings => ~Line[i].fresh
    BY <2>2 DEF ChangeInv
  <2>4. ~current'.list
    <3>1. CASE Relisted(u, d, calls)
      <4>1. d = 1 /\ Line[1] \in Listings /\ current'.list = Line[1].fresh
        BY <3>1 DEF Relisted
      <4>2. 1 \in 1 .. n
        BY <1>0, <2>1, <4>1
      <4> QED
        BY <2>3, <4>1, <4>2
    <3>2. CASE current'.list = current.list
      BY <2>3, <3>2
    <3> QED
      BY <3>1, <3>2, Sorts DEF GoesOn, Quietly, Fails, Redraws
  <2>5. ASSUME NEW q \in 1 .. p, Line'[q] \in Listings
        PROVE  ~Line'[q].fresh
    <3> DEFINE m == q + d
    <3>1. m \in d + 1 .. Length /\ m \in 1 .. n /\ q = m - d
      BY <1>0, <2>1
    <3> HIDE DEF m
    <3>2. Line[m] \in Item /\ Line'[q] = Mark(u, Line[m])
      BY <3>1, Stays
    <3>3. Line[m] \in Listings /\ Line'[q].fresh = Line[m].fresh
      BY <2>5, <3>2, Marked DEF Listings
    <3> QED
      BY <2>3, <3>1, <3>3
  <2> QED
    BY <2>4, <2>5
<1>2. CASE \E j \in 1 .. Len(calls) :
              /\ p = Length - d + j /\ calls[j] \in CallType
              /\ Line'[p] = Queued(calls[j])
  BY <1>2, QueuedItem DEF Changes
<1> QED
  BY <1>1, <1>2, Comes

LEMMA RestStays ==
  ASSUME ScreenInv, NEW u, NEW d, NEW calls, Event(u, d, calls), NEW W,
         d = 0 \/ Line[1] \notin W, Has(0, W)
  PROVE  Has(d, W)
<1>1. d \in {0, 1} /\ BackendInv
  BY EventShows DEF ScreenInv
<1>2. CASE d = 0
  BY <1>2
<1>3. CASE d = 1
  BY <1>1, <1>3, HasRest
<1> QED
  BY <1>1, <1>2, <1>3

\* A reply out of date that lands is followed by what draws the screen again.
LEMMA StaleLands ==
  ASSUME ScreenInv, StaleInv, NEW u, NEW calls, Event(u, 1, calls), ~Line[1].fresh
  PROVE  current.missed \/ HasThen(0, Chain)
<1>1. 1 \in 1 .. Length
  BY EventShows, LineTyped DEF ScreenInv
<1>2. current.missed \/ Has(1, Relists)
  BY <1>1 DEF StaleInv
<1>3. 1 \in Nat /\ 1 <= 1 /\ 1 - 1 = 0
  OBVIOUS
<1>4. Has(1, Relists) => HasThen(0, Relists)
  <2>1. Has(1, Relists) => HasThen(1 - 1, Relists)
    BY <1>3, ChainsStay
  <2> QED
    BY <1>3, <2>1
<1>5. HasThen(0, Relists) => HasThen(0, Chain)
  BY DEF HasThen, Chain
<1> QED
  BY <1>2, <1>4, <1>5

LEMMA TrueByEvent ==
  ASSUME ScreenInv, WantedInv, FreshListed, ChangeInv, ListTrue,
         NEW u, NEW d, NEW calls, Event(u, d, calls)
  PROVE  ListTrue'
<1>0. /\ ui'.selected = u.selected /\ ui'.list = u.list /\ held' = held
      /\ (d = 1 => 1 \in 1 .. Length)
  BY EventShows, LineTyped DEF ScreenInv
<1> SUFFICES ASSUME current'.list
             PROVE  /\ u.list = held
                    /\ u.selected \in u.list \/ (u.list = {} /\ u.selected = None)
  BY <1>0 DEF ListTrue, Fits
<1>1. CASE Relisted(u, d, calls)
  BY <1>0, <1>1 DEF Relisted, FreshListed
<1>2. CASE GoesOn(u, d, calls)
  <2>1. current.list /\ ui.list = held /\ Fits /\ u.list = ui.list
    BY <1>2 DEF GoesOn, ListTrue
  <2>2. u.selected = ui.selected \/ u.selected \in ui.list
    <3>1. ~(d = 1 /\ Line[1] \in Changes)
      BY <1>0, <2>1 DEF ChangeInv
    <3> QED
      BY <1>2, <3>1 DEF GoesOn
  <2> QED
    BY <2>1, <2>2 DEF Fits
<1>3. CASE Quietly(u, d, calls) \/ Fails(u, d, calls) \/ Redraws(u, d, calls)
  <2>1. /\ u.selected = ui.selected /\ u.list = ui.list
        /\ current'.list = current.list
    BY <1>3 DEF Quietly, Fails, Redraws, Still
  <2> QED
    BY <2>1 DEF ListTrue, Fits
<1> QED
  BY <1>1, <1>2, <1>3, Sorts

LEMMA ListByEvent ==
  ASSUME ScreenInv, WantedInv, StaleInv, ListInv, StateInv,
         NEW u, NEW d, NEW calls, Event(u, d, calls)
  PROVE  ListInv'
<1>0. /\ d \in {0, 1} /\ (d = 1 => 1 \in 1 .. Length) /\ Length \in Nat
      /\ ui'.vaultProblem = u.vaultProblem /\ 0 \in Int /\ 0 <= Length - d
  <2>1. /\ d \in {0, 1} /\ (d = 1 => 1 <= Length) /\ Length \in Nat
        /\ ui'.vaultProblem = u.vaultProblem
    BY EventShows, LineTyped DEF ScreenInv
  <2> QED
    BY <2>1
<1> SUFFICES \/ current'.list \/ current'.missed \/ u.vaultProblem
             \/ HasThen(0, Chain) \/ HasThen(0, Lists)
  BY <1>0, ChainsThen DEF ListInv
<1>a. d \in Nat /\ d <= d /\ d - d = 0
  BY <1>0
<1>1. CASE Relisted(u, d, calls)
  <2>1. CASE Line[1].fresh
    BY <1>1, <2>1 DEF Relisted
  <2>2. CASE ~Line[1].fresh
    <3>1. d = 1 /\ (current.missed => current'.missed)
      BY <1>1, <2>2 DEF Relisted
    <3> QED
      BY <2>2, <3>1, StaleLands
  <2> QED
    BY <2>1, <2>2
<1>2. CASE GoesOn(u, d, calls)
  BY <1>0, <1>2, ChainsGrow DEF GoesOn
<1>3. CASE Quietly(u, d, calls)
  <2>1. /\ ~u.moved /\ UNCHANGED current /\ u.vaultProblem = ui.vaultProblem
        /\ d = 0 \/ (Line[1] \notin Chain /\ Line[1] \notin Lists)
    BY <1>3 DEF Quietly, Still, Lists
  <2>2. Has(0, Chain) => Has(d, Chain)
    BY <2>1, RestStays
  <2>3. Has(0, Lists) => Has(d, Lists)
    BY <2>1, RestStays
  <2> QED
    BY <1>a, <2>1, <2>2, <2>3, ChainsStay DEF ListInv
<1>4. CASE Fails(u, d, calls)
  BY <1>4 DEF Fails
<1>5. CASE Redraws(u, d, calls)
  <2>1. /\ d = 1 /\ ~u.moved /\ Line[1] \notin Chain /\ Line[1].call.what = "state"
        /\ current'.list = current.list /\ current'.missed = current.missed
    BY <1>5 DEF Redraws
  <2>2. current.list \/ current.missed \/ Has(0, Chain) \/ Has(d, Lists)
    BY <1>0, <2>1 DEF StateInv
  <2>3. Has(0, Chain) => Has(d, Chain)
    BY <2>1, RestStays
  <2> QED
    BY <1>a, <2>1, <2>2, <2>3, ChainsStay
<1> QED
  BY <1>1, <1>2, <1>3, <1>4, <1>5, Sorts

LEMMA StateByEvent ==
  ASSUME ScreenInv, WantedInv, StaleInv, StateInv,
         NEW u, NEW d, NEW calls, Event(u, d, calls)
  PROVE  StateInv'
<1>0. /\ d \in {0, 1} /\ (d = 1 => 1 \in 1 .. Length) /\ Length \in Nat
      /\ 0 \in Int /\ 0 <= Length - d
  <2>1. d \in {0, 1} /\ (d = 1 => 1 <= Length) /\ Length \in Nat
    BY EventShows, LineTyped DEF ScreenInv
  <2> QED
    BY <2>1
<1> SUFFICES ASSUME NEW p \in 1 .. Length', Line'[p].call.what = "state"
             PROVE  \/ current'.list \/ current'.missed
                    \/ HasThen(0, Chain) \/ HasThen(p, Lists)
  BY ChainsThen DEF StateInv
<1>a. d \in Nat /\ d <= d /\ d - d = 0
  BY <1>0
<1>b. \/ /\ p \in Int /\ p <= Length - d
         /\ \E n \in d + 1 .. Length :
                /\ p = n - d /\ n \in Nat /\ d <= n /\ n \in 1 .. Length
                /\ Line[n].call.what = "state"
      \/ ~NoState(calls)
  <2>1. CASE \E n \in d + 1 .. Length :
                p = n - d /\ Line[n] \in Item /\ Line'[p] = Mark(u, Line[n])
    <3>1. PICK n \in d + 1 .. Length :
                p = n - d /\ Line[n] \in Item /\ Line'[p] = Mark(u, Line[n])
      BY <2>1
    <3>2. p \in Int /\ p <= Length - d /\ n \in Nat /\ d <= n /\ n \in 1 .. Length
      BY <1>0, <3>1
    <3>3. Line[n].call.what = "state"
      BY <3>1, Marked
    <3> QED
      BY <3>1, <3>2, <3>3
  <2>2. CASE \E j \in 1 .. Len(calls) :
                /\ p = Length - d + j /\ calls[j] \in CallType
                /\ Line'[p] = Queued(calls[j])
    BY <2>2, QueuedItem DEF NoState
  <2> QED
    BY <2>1, <2>2, Comes
<1>1. CASE Relisted(u, d, calls)
  <2>1. CASE Line[1].fresh
    BY <1>1, <2>1 DEF Relisted
  <2>2. CASE ~Line[1].fresh
    <3>1. d = 1 /\ (current.missed => current'.missed)
      BY <1>1, <2>2 DEF Relisted
    <3> QED
      BY <2>2, <3>1, StaleLands
  <2> QED
    BY <2>1, <2>2
<1>2. CASE GoesOn(u, d, calls)
  <2>1. CASE Rereads(calls)
    BY <1>0, <2>1, ChainsGrow
  <2>2. CASE calls = ReloadAccounts
    <3> DEFINE c == Call("accounts", None)
    <3>1. calls = <<c>> /\ c.what = "accounts"
      BY <2>2, CallFields DEF ReloadAccounts
    <3> HIDE DEF c
    <3>2. NoState(calls)
      BY <3>1 DEF NoState
    <3>3. p \in Int /\ p <= Length - d
      BY <1>b, <3>2
    <3> QED
      BY <2>2, <3>3, ChainsGrow
  <2> QED
    BY <1>2, <2>1, <2>2 DEF GoesOn
<1>3. CASE Quietly(u, d, calls) \/ Fails(u, d, calls) \/ Redraws(u, d, calls)
  <2>1. /\ ~u.moved /\ NoState(calls)
        /\ d = 0 \/ Line[1] \notin Chain
        /\ current'.list = current.list /\ current'.missed = current.missed
    BY <1>3 DEF Quietly, Still, Fails, Redraws, NoState
  <2>2. PICK n \in d + 1 .. Length :
                /\ p = n - d /\ n \in Nat /\ d <= n /\ n \in 1 .. Length
                /\ Line[n].call.what = "state"
    BY <1>b, <2>1
  <2>3. current.list \/ current.missed \/ Has(0, Chain) \/ Has(n, Lists)
    BY <2>2 DEF StateInv
  <2>4. Has(0, Chain) => Has(d, Chain)
    BY <2>1, RestStays
  <2>5. Has(d, Chain) => HasThen(0, Chain)
    BY <1>a, <2>1, ChainsStay
  <2>6. Has(n, Lists) => HasThen(p, Lists)
    BY <2>2, ChainsStay
  <2> QED
    BY <2>1, <2>3, <2>4, <2>5, <2>6
<1> QED
  BY <1>1, <1>2, <1>3, Sorts

LEMMA ShowByEvent ==
  ASSUME ScreenInv, WantedInv, StaleInv, ShowInv,
         NEW u, NEW d, NEW calls, Event(u, d, calls)
  PROVE  ShowInv'
<1>0. /\ d \in {0, 1} /\ (d = 1 => 1 \in 1 .. Length) /\ Length \in Nat
      /\ 0 \in Int /\ 0 <= Length - d
      /\ ui'.vaultProblem = u.vaultProblem /\ ui'.selected = u.selected
      /\ ui'.shown = u.shown
  <2>1. /\ d \in {0, 1} /\ (d = 1 => 1 <= Length) /\ Length \in Nat
        /\ ui'.vaultProblem = u.vaultProblem /\ ui'.selected = u.selected
        /\ ui'.shown = u.shown
    BY EventShows, LineTyped DEF ScreenInv
  <2> QED
    BY <2>1
<1> SUFFICES ASSUME u.selected # None
             PROVE  \/ u.shown = u.selected /\ current'.shown
                    \/ current'.missed \/ u.vaultProblem
                    \/ HasThen(0, Chain) \/ HasThen(0, Listings)
                    \/ HasThen(0, Shows(u.selected))
  BY <1>0, ChainsThen DEF ShowInv
<1>a. d \in Nat /\ d <= d /\ d - d = 0
  BY <1>0
<1>1. CASE Relisted(u, d, calls)
  BY <1>0, <1>1, ChainsGrow DEF Relisted
<1>2. CASE GoesOn(u, d, calls)
  BY <1>0, <1>2, ChainsGrow DEF GoesOn
<1>3. CASE Quietly(u, d, calls)
  <2>1. /\ ~u.moved /\ UNCHANGED current /\ u.vaultProblem = ui.vaultProblem
        /\ u.selected = ui.selected /\ u.shown = ui.shown
        /\ d = 0 \/ Line[1] \notin Chain
        /\ d = 0 \/ Line[1] \notin Listings
        /\ d = 0 \/ Line[1] \notin Shows(u.selected)
    BY <1>3 DEF Quietly, Still
  <2>2. Has(0, Chain) => Has(d, Chain)
    BY <2>1, RestStays
  <2>3. Has(0, Listings) => Has(d, Listings)
    BY <2>1, RestStays
  <2>4. Has(0, Shows(u.selected)) => Has(d, Shows(u.selected))
    BY <2>1, RestStays
  <2>5. /\ Has(d, Chain) => HasThen(0, Chain)
        /\ Has(d, Listings) => HasThen(0, Listings)
        /\ Has(d, Shows(u.selected)) => HasThen(0, Shows(u.selected))
    BY <1>a, <2>1, ChainsStay
  <2> QED
    BY <2>1, <2>2, <2>3, <2>4, <2>5 DEF ShowInv
<1>4. CASE Fails(u, d, calls)
  BY <1>4 DEF Fails
<1>5. CASE Redraws(u, d, calls)
  <2>1. /\ d = 1 /\ u.shown = u.selected /\ current'.shown = Line[1].fresh
        /\ current'.missed = current.missed
    BY <1>5 DEF Redraws
  <2> QED
    BY <2>1, StaleLands
<1> QED
  BY <1>1, <1>2, <1>3, <1>4, <1>5, Sorts

\* The core has changed, or may have.
Stirred(rs, r) == (\E a : Changed(a, rs, r)) \/ Half(rs, r)

LEMMA Freshness ==
  ASSUME ScreenInv, NEW rs, NEW r, Answering(rs, r)
  PROVE  LET k == Len(replies) + 1
         IN  /\ \A n \in k .. Length : Line'[n].fresh
             /\ \A n \in 1 .. k - 1 :
                    /\ Line'[n].fresh => Line[n].fresh
                    /\ AsItIs(rs, r) => Line'[n] = Line[n]
                    /\ Stirred(rs, r) /\ Line'[n] \in Listings => ~Line'[n].fresh
<1> DEFINE k == Len(replies) + 1
<1>1. /\ k \in 1 .. Length /\ Line'[k] = r
      /\ \A n \in k + 1 .. Length : Line'[n] = Line[n]
  BY Answered
<1>2. r.fresh
  BY DEF Answering, AsItIs, Changed, Did, Half
<1>3. /\ Len(replies) \in Nat /\ Length \in Nat
      /\ \A n \in Len(replies) + 1 .. Length :
             Line[n] = Queued(queue[n - Len(replies)])
             /\ queue[n - Len(replies)] \in CallType
  BY LineTyped DEF ScreenInv
<1>4. \A n \in k .. Length : Line'[n].fresh
  <2> SUFFICES ASSUME NEW n \in k .. Length PROVE Line'[n].fresh
    OBVIOUS
  <2>1. CASE n = k
    BY <1>1, <1>2, <2>1
  <2>2. CASE n # k
    <3>1. n \in k + 1 .. Length /\ n \in Len(replies) + 1 .. Length
      BY <1>3, <2>2
    <3>2. Line[n].fresh
      BY <1>3, <3>1, QueuedItem
    <3> QED
      BY <1>1, <3>1, <3>2
  <2> QED
    BY <2>1, <2>2
<1>5. ASSUME NEW n \in 1 .. k - 1
      PROVE  /\ Line'[n].fresh => Line[n].fresh
             /\ AsItIs(rs, r) => Line'[n] = Line[n]
             /\ Stirred(rs, r) /\ Line'[n] \in Listings => ~Line'[n].fresh
  <2>1. Line[n] = replies[n] /\ Line'[n] = rs[n]
    BY DEF Answering, Runs
  <2>2. replies \in Seq(Reply) /\ n \in DOMAIN replies
    <3>1. replies \in Seq(Reply) /\ n \in 1 .. Len(replies)
      BY <1>3 DEF ScreenInv, BackendInv
    <3> QED
      BY <3>1
  <2>3. replies[n] \in Item
    <3>1. replies[n] \in Reply
      BY <2>2
    <3> QED
      BY <3>1 DEF Reply, ReplyType, Item
  <2>4. ASSUME NEW a, rs = Outdated(replies, a)
        PROVE  /\ rs[n].fresh => replies[n].fresh
               /\ rs[n] \in Listings => ~rs[n].fresh
    <3> DEFINE x == [replies[n] EXCEPT !.fresh = FALSE]
    <3>1. \/ rs[n] = x
          \/ rs[n] = replies[n] /\ replies[n].call.what # "accounts"
      BY <2>2, <2>4 DEF Outdated
    <3>2. ~x.fresh
      BY <2>3 DEF Item
    <3> HIDE DEF x
    <3> QED
      BY <3>1, <3>2 DEF Listings
  <2>5. AsItIs(rs, r) => rs = replies
    BY DEF AsItIs
  <2>6. Stirred(rs, r) => \E a : rs = Outdated(replies, a)
    BY DEF Stirred, Changed, Half
  <2>7. AsItIs(rs, r) \/ Stirred(rs, r)
    BY DEF Answering, Stirred
  <2> QED
    BY <2>1, <2>4, <2>5, <2>6, <2>7
<1> QED
  BY <1>4, <1>5

LEMMA ChainsAnswered ==
  ASSUME ScreenInv, NEW rs, NEW r, Answering(rs, r), AsItIs(rs, r), NEW n \in Nat
  PROVE  /\ Has(n, Relists) => HasThen(n, Relists)
         /\ Has(n, Chain) => HasThen(n, Chain)
         /\ Has(n, Listings) => HasThen(n, Listings)
         /\ Has(n, Lists) => HasThen(n, Lists)
         /\ \A a : Has(n, Shows(a)) => HasThen(n, Shows(a))
<1> DEFINE k == Len(replies) + 1
           c == Head(queue)
<1>1. /\ k \in 1 .. Length /\ Length' = Length /\ Length \in Nat
      /\ Line'[k] = r /\ Line[k].call = c /\ Line[k].how = "queued"
      /\ \A m \in 1 .. Length : Line[m] \in Item /\ Line'[m] \in Item
      /\ \A m \in k + 1 .. Length : Line'[m] = Line[m]
  BY Answered
<1>2. \A m \in 1 .. k - 1 : Line'[m] = Line[m]
  BY Freshness
<1>3. /\ r.call = c /\ r.fresh
      /\ r.how = "refused" \/ (c.what = "refresh" /\ ~c.wanted)
           \/ (c.what \in {"accounts", "state", "exportAccount"} /\ r.how = "ok")
  BY DEF AsItIs, c
<1> HIDE DEF k, c
<1>4. r \in Item /\ Line[k] \in Item
  BY <1>1
<1>5. /\ Line[k] \in Relists => Line'[k] \in Relists
      /\ Line[k] \in Listings => Line'[k] \in Listings
      /\ \A a : Line[k] \in Shows(a) => Line'[k] \in Shows(a)
  <2>1. Line[k] \in Relists => Line'[k] \in Relists
    BY <1>1 DEF Relists
  <2>2. Line[k] \in Listings => Line'[k] \in Listings
    BY <1>1, <1>3, <1>4 DEF Listings
  <2>3. \A a : Line[k] \in Shows(a) => Line'[k] \in Shows(a)
    BY <1>1, <1>3, <1>4 DEF Shows
  <2> QED
    BY <2>1, <2>2, <2>3
<1>6. Line[k] \in Lists => Line'[k] \in Lists
  BY <1>1, <1>3, <1>5 DEF Lists
<1>7. Line[k] \in Chain => Line'[k] \in Chain
  BY <1>1, <1>3, <1>4 DEF Chain, Relists, WantedReads
<1>8. ASSUME NEW m \in n + 1 .. Length PROVE m = k \/ Line'[m] = Line[m]
  BY <1>1, <1>2
<1> QED
  BY <1>1, <1>5, <1>6, <1>7, <1>8 DEF Has, HasThen

\* What changed the core has the accounts listed again when it lands.
LEMMA StirredAnswers ==
  ASSUME ScreenInv, NEW rs, NEW r, Answering(rs, r), Stirred(rs, r)
  PROVE  /\ ~current'.list
         /\ \/ current'.missed
            \/ /\ current'.missed = current.missed
               /\ \A n \in 0 .. Len(replies) :
                      HasThen(n, Relists) /\ HasThen(n, Chain)
<1> DEFINE k == Len(replies) + 1
<1>0. current \in [list : BOOLEAN, shown : BOOLEAN, missed : BOOLEAN]
  BY DEF ScreenInv, BackendInv, TypeOK
<1>1. /\ k \in 1 .. Length' /\ Line'[k] = r /\ r \in Item /\ Len(replies) \in Nat
  BY Answered, LineTyped DEF ScreenInv
<1>2. CASE Half(rs, r)
  BY <1>2 DEF Half
<1>3. CASE \E a : Changed(a, rs, r)
  <2>1. PICK a : Changed(a, rs, r)
    BY <1>3
  <2>2. ~current'.list /\ current'.missed = current.missed
    <3> DEFINE x == current.shown /\ ui.shown # a
    <3>1. current' = [current EXCEPT !.list = FALSE, !.shown = x]
      BY <2>1 DEF Changed
    <3> HIDE DEF x
    <3> QED
      BY <1>0, <3>1
  <2>3. r \in Relists
    BY <1>1, <2>1 DEF Changed, Did, Relists
  <2>4. \A n \in 0 .. Len(replies) : k \in n + 1 .. Length'
    BY <1>1
  <2> HIDE DEF k
  <2> QED
    BY <1>1, <2>2, <2>3, <2>4 DEF HasThen, Chain
<1> QED
  BY <1>2, <1>3 DEF Stirred

LEMMA AnswerIsOne ==
  ASSUME NEW rs, NEW r, Answering(rs, r)
  PROVE  /\ AsItIs(rs, r) \/ Stirred(rs, r)
         /\ AsItIs(rs, r) => UNCHANGED <<held, current>>
         /\ UNCHANGED ui
  BY DEF Answering, Stirred, AsItIs

LEMMA ListedByAnswer ==
  ASSUME ScreenInv, FreshListed, NEW rs, NEW r, Answering(rs, r)
  PROVE  FreshListed'
<1> DEFINE k == Len(replies) + 1
<1>1. /\ k \in 1 .. Length /\ Length' = Length /\ Length \in Nat /\ Line'[k] = r
      /\ r.call.what = Head(queue).what
      /\ \A m \in k + 1 .. Length : Line'[m] = Line[m] /\ Line[m].how = "queued"
  BY Answered
<1> SUFFICES ASSUME NEW p \in 1 .. Length,
                    Line'[p] \in Listings, Line'[p].how = "ok", Line'[p].fresh
             PROVE  Line'[p].listed = held'
  BY <1>1 DEF FreshListed, Listings
<1>2. CASE p < k
  <2>1. p \in 1 .. k - 1
    BY <1>1, <1>2
  <2>2. ~Stirred(rs, r)
    BY <2>1, Freshness
  <2>3. Line'[p] = Line[p] /\ held' = held
    BY <2>1, <2>2, Freshness, AnswerIsOne
  <2> QED
    BY <2>3 DEF FreshListed
<1>3. CASE p = k
  <2>1. r.call.what = "accounts" /\ r.how = "ok"
    BY <1>1, <1>3 DEF Listings
  <2>2. r.listed = held /\ held' = held
    BY <1>1, <2>1, Kinds DEF Answering, AsItIs, Changed, Did, Half, Takings,
       Leavings, Stagings
  <2> QED
    BY <1>1, <1>3, <2>2
<1>4. CASE k < p
  <2>1. p \in k + 1 .. Length
    BY <1>1, <1>4
  <2> QED
    BY <1>1, <2>1
<1> QED
  BY <1>1, <1>2, <1>3, <1>4

LEMMA FreshByAnswer ==
  ASSUME ScreenInv, FreshAfter, NEW rs, NEW r, Answering(rs, r)
  PROVE  FreshAfter'
<1> DEFINE k == Len(replies) + 1
<1>1. k \in 1 .. Length /\ Length' = Length /\ Length \in Nat
  BY Answered
<1> SUFFICES ASSUME NEW p \in 1 .. Length, Line'[p] \in Listings, Line'[p].fresh,
                    NEW q \in p .. Length
             PROVE  Line'[q].fresh
  BY <1>1 DEF FreshAfter, Listings
<1>2. CASE q < k
  <2>1. p \in 1 .. k - 1 /\ q \in 1 .. k - 1
    BY <1>1, <1>2
  <2>2. AsItIs(rs, r)
    BY <2>1, Freshness, AnswerIsOne
  <2>3. Line'[p] = Line[p] /\ Line'[q] = Line[q]
    BY <2>1, <2>2, Freshness
  <2> QED
    BY <2>3 DEF FreshAfter
<1>3. CASE k <= q
  <2>1. q \in k .. Length
    BY <1>1, <1>3
  <2> QED
    BY <2>1, Freshness
<1> QED
  BY <1>1, <1>2, <1>3

LEMMA StaleByAnswer ==
  ASSUME ScreenInv, StaleInv, NEW rs, NEW r, Answering(rs, r)
  PROVE  StaleInv'
<1> DEFINE k == Len(replies) + 1
<1>1. k \in 1 .. Length /\ Length' = Length /\ Length \in Nat /\ Len(replies) \in Nat
  BY Answered, LineTyped DEF ScreenInv
<1> SUFFICES ASSUME NEW p \in 1 .. Length, ~Line'[p].fresh
             PROVE  current'.missed \/ HasThen(p, Relists)
  BY <1>1, ChainsThen DEF StaleInv
<1>2. p \in 1 .. k - 1 /\ p \in 0 .. Len(replies) /\ p \in Nat
  <2>1. p \notin k .. Length
    BY Freshness
  <2> QED
    BY <1>1, <2>1
<1>3. CASE Stirred(rs, r)
  BY <1>2, <1>3, StirredAnswers
<1>4. CASE AsItIs(rs, r)
  <2>1. Line'[p] = Line[p] /\ current' = current
    BY <1>2, <1>4, Freshness, AnswerIsOne
  <2>2. current.missed \/ Has(p, Relists)
    BY <2>1 DEF StaleInv
  <2> QED
    BY <1>2, <1>4, <2>1, <2>2, ChainsAnswered
<1> QED
  BY <1>3, <1>4, AnswerIsOne

LEMMA ChangeByAnswer ==
  ASSUME ScreenInv, ChangeInv, NEW rs, NEW r, Answering(rs, r)
  PROVE  ChangeInv'
<1> DEFINE k == Len(replies) + 1
<1>1. /\ k \in 1 .. Length /\ Length' = Length /\ Length \in Nat /\ Line'[k] = r
      /\ \A m \in 1 .. Length : Line[m] \in Item
      /\ \A m \in 1 .. Length : m # k => /\ Line'[m].call = Line[m].call
                                         /\ Line'[m].how = Line[m].how
      /\ \A m \in k + 1 .. Length : Line'[m] = Line[m] /\ Line[m].how = "queued"
  BY Answered
<1> SUFFICES ASSUME NEW p \in 1 .. Length, Line'[p] \in Changes
             PROVE  /\ ~current'.list
                    /\ \A q \in 1 .. p : Line'[q] \in Listings => ~Line'[q].fresh
  BY <1>1 DEF ChangeInv, Changes, Listings
<1>2. CASE p = k
  <2>1. r.how = "ok" /\ r.call.what \in Takings \cup Leavings
    BY <1>1, <1>2 DEF Changes
  <2>2. Stirred(rs, r)
    BY <2>1, AnswerIsOne DEF AsItIs, Takings, Leavings
  <2>3. Line'[k] \notin Listings
    BY <1>1, <2>1 DEF Listings, Takings, Leavings
  <2>4. \A q \in 1 .. k : q = k \/ q \in 1 .. k - 1
    BY <1>1
  <2> QED
    BY <1>2, <2>2, <2>3, <2>4, StirredAnswers, Freshness
<1>3. CASE p < k
  <2>1. p \in 1 .. k - 1 /\ p # k
    BY <1>1, <1>3
  <2>2. Line[p] \in Changes
    BY <1>1, <2>1 DEF Changes
  <2>3. ~current.list /\ \A q \in 1 .. p : Line[q] \in Listings => ~Line[q].fresh
    BY <2>2 DEF ChangeInv
  <2>4. ~current'.list
    BY <2>3, StirredAnswers, AnswerIsOne
  <2>5. ASSUME NEW q \in 1 .. p, Line'[q] \in Listings PROVE ~Line'[q].fresh
    <3>1. q \in 1 .. k - 1 /\ q \in 1 .. Length /\ q # k
      BY <1>1, <2>1
    <3>2. Line[q] \in Listings
      BY <1>1, <2>5, <3>1 DEF Listings
    <3> QED
      BY <2>3, <3>1, <3>2, Freshness
  <2> QED
    BY <2>4, <2>5
<1>4. CASE k < p
  <2>1. p \in k + 1 .. Length
    BY <1>1, <1>4
  <2> QED
    BY <1>1, <2>1 DEF Changes
<1> QED
  BY <1>1, <1>2, <1>3, <1>4

LEMMA DrawnByAnswer ==
  ASSUME ScreenInv, ListTrue, ListInv, StateInv, ShowInv,
         NEW rs, NEW r, Answering(rs, r)
  PROVE  ListTrue' /\ ListInv' /\ StateInv' /\ ShowInv'
<1> DEFINE k == Len(replies) + 1
<1>1. k \in 1 .. Length /\ Length' = Length /\ Length \in Nat /\ Len(replies) \in Nat
  BY Answered, LineTyped DEF ScreenInv
<1>2. UNCHANGED ui
  BY AnswerIsOne
<1>a. 0 \in 0 .. Len(replies) /\ 0 \in Nat
  BY <1>1
<1>3. ASSUME NEW p \in 1 .. Length
      PROVE  p \in Nat /\ Line'[p].call.what = Line[p].call.what
  BY Answered
<1>4. CASE AsItIs(rs, r)
  <2>1. UNCHANGED <<held, current>>
    BY <1>4, AnswerIsOne
  <2>2. ListTrue'
    BY <1>2, <2>1 DEF ListTrue, Fits
  <2>3. /\ Has(0, Chain) => Has(0, Chain)'
        /\ Has(0, Lists) => Has(0, Lists)'
        /\ Has(0, Listings) => Has(0, Listings)'
        /\ Has(0, Shows(ui.selected)) => Has(0, Shows(ui.selected))'
    BY <1>a, <1>2, <1>4, ChainsAnswered, ChainsThen
  <2>4. ListInv'
    BY <1>2, <2>1, <2>3 DEF ListInv
  <2>5. ShowInv'
    BY <1>2, <2>1, <2>3 DEF ShowInv
  <2>6. StateInv'
    <3> SUFFICES ASSUME NEW p \in 1 .. Length, Line'[p].call.what = "state"
                 PROVE  \/ current.list \/ current.missed \/ Has(0, Chain)'
                        \/ Has(p, Lists)'
      BY <1>1, <2>1 DEF StateInv
    <3>1. current.list \/ current.missed \/ Has(0, Chain) \/ Has(p, Lists)
      BY <1>3 DEF StateInv
    <3>2. Has(p, Lists) => Has(p, Lists)'
      BY <1>3, <1>4, ChainsAnswered, ChainsThen
    <3> QED
      BY <2>3, <3>1, <3>2
  <2> QED
    BY <2>2, <2>4, <2>5, <2>6
<1>5. CASE Stirred(rs, r)
  <2>1. ~current'.list /\ (current'.missed \/ HasThen(0, Chain))
    BY <1>a, <1>5, StirredAnswers
  <2>2. HasThen(0, Chain) => Has(0, Chain)'
    BY ChainsThen
  <2> QED
    BY <2>1, <2>2 DEF ListTrue, ListInv, StateInv, ShowInv
<1> QED
  BY <1>4, <1>5, AnswerIsOne

DrawsInv == ScreenInv /\ WantedInv /\ ChainsInv

LEMMA DrawsInit ==
  ASSUME Init
  PROVE  DrawsInv
<1>1. /\ ScreenInv /\ StatusesInv /\ replies = <<>>
      /\ queue = IF opened THEN ReloadAccounts ELSE <<>>
      /\ ui.selected = None /\ (~opened => ui.vaultProblem)
      /\ current.list = FALSE /\ opened \in BOOLEAN
  BY StatusesInit DEF Init, StatusesInv
<1> DEFINE c == Call("accounts", None)
<1>2. c.what = "accounts"
  BY CallFields
<1> HIDE DEF c
<1>3. /\ opened => queue = <<c>>
      /\ ~opened => queue = <<>>
  BY <1>1 DEF ReloadAccounts, c
<1>4. Length = IF opened THEN 1 ELSE 0
  <2>1. Len(replies) = 0
    BY <1>1
  <2>2. /\ opened => Len(queue) = 1
        /\ ~opened => Len(queue) = 0
    BY <1>3
  <2> QED
    BY <2>1, <2>2 DEF Length
<1>5. ASSUME NEW n \in 1 .. Length
      PROVE  /\ opened /\ n = 1 /\ Line[n] \in Item /\ Line[n].call.what = "accounts"
             /\ Line[n].how = "queued" /\ Line[n].fresh
  <2>1. opened /\ n = 1
    BY <1>4
  <2>2. Len(replies) = 0 /\ Len(queue) = 1
    BY <1>1, <1>3, <2>1
  <2>3. n \in Len(replies) + 1 .. Length /\ n - Len(replies) = 1
    BY <2>1, <2>2 DEF Length
  <2>4. Line[n] = Queued(queue[n - Len(replies)])
    BY <1>1, <2>3, LineTyped DEF ScreenInv
  <2>5. queue[1] = c
    BY <1>3, <2>1
  <2>6. queue[n - Len(replies)] \in CallType
    BY <1>1, <2>3, LineTyped DEF ScreenInv
  <2>7. Line[n] = Queued(c) /\ c \in CallType
    BY <2>3, <2>4, <2>5, <2>6
  <2> QED
    BY <1>2, <2>1, <2>7, QueuedItem
<1>6. FreshListed /\ FreshAfter /\ StaleInv /\ ChangeInv /\ StateInv
  BY <1>5 DEF FreshListed, FreshAfter, StaleInv, ChangeInv, Changes, StateInv,
     Takings, Leavings
<1>7. ListTrue /\ ShowInv
  BY <1>1 DEF ListTrue, ShowInv
<1>8. ListInv
  <2>1. CASE ~opened
    BY <1>1, <2>1 DEF ListInv
  <2>2. CASE opened
    <3>1. 1 \in 0 + 1 .. Length
      BY <1>4, <2>2
    <3>2. Line[1] \in Lists
      BY <1>5, <3>1 DEF Lists, Listings
    <3> QED
      BY <3>1, <3>2 DEF ListInv, Has
  <2> QED
    BY <2>1, <2>2
<1> QED
  BY <1>1, <1>6, <1>7, <1>8 DEF DrawsInv, ChainsInv, StatusesInv

LEMMA DrawsKept ==
  ASSUME DrawsInv, [Next]_vars
  PROVE  DrawsInv'
<1>1. /\ ScreenInv /\ WantedInv /\ ScreenInv'
      /\ FreshListed /\ FreshAfter /\ StaleInv /\ ChangeInv
      /\ ListTrue /\ ListInv /\ StateInv /\ ShowInv
  BY ScreenKept DEF DrawsInv, ChainsInv
<1>2. ASSUME NEW u, NEW d, NEW calls, Event(u, d, calls)
      PROVE  WantedInv' /\ ChainsInv'
  <2>1. WantedInv' /\ FreshListed' /\ FreshAfter' /\ StaleInv' /\ ChangeInv'
    BY <1>1, <1>2, WantedByEvent, ListedByEvent, FreshByEvent, StaleByEvent,
       ChangeByEvent
  <2>2. ListTrue' /\ ListInv'
    BY <1>1, <1>2, TrueByEvent, ListByEvent
  <2>3. StateInv' /\ ShowInv'
    BY <1>1, <1>2, StateByEvent, ShowByEvent
  <2> QED
    BY <2>1, <2>2, <2>3 DEF ChainsInv
<1>3. ASSUME NEW rs, NEW r, Answering(rs, r)
      PROVE  WantedInv' /\ ChainsInv'
  <2>1. WantedInv' /\ FreshListed' /\ FreshAfter' /\ StaleInv' /\ ChangeInv'
    BY <1>1, <1>3, WantedByAnswer, ListedByAnswer, FreshByAnswer, StaleByAnswer,
       ChangeByAnswer
  <2>2. ListTrue' /\ ListInv' /\ StateInv' /\ ShowInv'
    BY <1>1, <1>3, DrawnByAnswer
  <2> QED
    BY <2>1, <2>2 DEF ChainsInv
<1>4. ASSUME UNCHANGED vars
      PROVE  WantedInv' /\ ChainsInv'
  <2>1. /\ Line' = Line /\ Length' = Length
        /\ UNCHANGED <<held, ui, current>>
    BY <1>4, LineUnchanged
  <2>2. WantedInv' /\ FreshListed' /\ FreshAfter' /\ ChangeInv' /\ ListTrue'
    BY <1>1, <2>1 DEF WantedInv, FreshListed, FreshAfter, ChangeInv, ListTrue, Fits,
       Has, WantedReads, Listings, Changes
  <2>3. StaleInv' /\ ListInv' /\ StateInv' /\ ShowInv'
    BY <1>1, <2>1 DEF StaleInv, ListInv, StateInv, ShowInv, Has, Relists, Chain,
       WantedReads, Listings, Lists, Shows
  <2> QED
    BY <2>2, <2>3 DEF ChainsInv
<1>5. WantedInv' /\ ChainsInv'
  BY <1>1, <1>2, <1>3, <1>4, StepIs
<1> QED
  BY <1>1, <1>5 DEF DrawsInv

\* What the screen is drawn from keeps up with the core: an answer out of date
\* is followed by one that has everything listed and read again
\* (reloadAccounts, reloadState, edited).
THEOREM ScreensHold == Spec => []DrawsInv
<1>1. Init => DrawsInv
  BY DrawsInit
<1>2. DrawsInv /\ [Next]_vars => DrawsInv'
  BY DrawsKept
<1> QED
  BY <1>1, <1>2, PTL DEF Spec

\* Once the last call has landed the screen lists the accounts the core has,
\* one of them is selected if there is any, and its state is the core's last
\* word on it, whatever the person pressed and the calls came to: unless the
\* vault could not be read, or an import took the key and then failed
\* (reloadAccounts, reloadState).
THEOREM ScreenSettles == Spec => []SettledScreen
<1>1. DrawsInv => SettledScreen
  <2> SUFFICES ASSUME DrawsInv, ~busy, ~ui.vaultProblem, ~current.missed
               PROVE  /\ current.list /\ ui.list = held
                      /\ IF held = {} THEN ui.selected = None
                         ELSE /\ ui.selected \in held /\ ui.shown = ui.selected
                              /\ current.shown
    BY DEF SettledScreen
  <2>1. Length = 0 /\ held \subseteq Addr
    BY LineEmpty DEF DrawsInv, ScreenInv, BackendInv, TypeOK
  <2>2. \A W : ~Has(0, W)
    BY <2>1 DEF Has
  <2>3. current.list
    BY <2>2 DEF DrawsInv, ChainsInv, ListInv
  <2>4. ui.list = held /\ Fits
    BY <2>3 DEF DrawsInv, ChainsInv, ListTrue
  <2>5. CASE held = {}
    BY <2>3, <2>4, <2>5 DEF Fits
  <2>6. CASE held # {}
    <3>1. ui.selected \in held
      BY <2>4, <2>6 DEF Fits
    <3>2. ui.selected # None
      BY <2>1, <3>1, BackendAssumption
    <3>3. ui.shown = ui.selected /\ current.shown
      BY <2>2, <3>2 DEF DrawsInv, ChainsInv, ShowInv
    <3> QED
      BY <2>3, <2>4, <2>6, <3>1, <3>3
  <2> QED
    BY <2>5, <2>6
<1> QED
  BY <1>1, ScreensHold, PTL
=============================================================================
