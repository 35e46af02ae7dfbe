------------------------------ MODULE AbiProofs -----------------------------
(***************************************************************************)
(* Proofs about Abi, for any threads and accounts, and any store.          *)
(***************************************************************************)
EXTENDS Abi, SequenceTheorems, TLAPS

-----------------------------------------------------------------------------
(* What the properties rest on.                                            *)

\* A freed handle has no calls left, a torn core is locked away, and a call
\* that is over has left no copy of a secret.
CallsOK ==
    /\ handle = "freed" => closing /\ \A t \in Thread : at[t] = "out"
    /\ torn => poisoned /\ owner = NoThread
    /\ spilled = {}
    /\ \A t \in Thread : at[t] = "out" => heap[t] = {}

\* The request under way is the one of the call inside.
ExchangeOK ==
    /\ exchange # NoExchange =>
        /\ owner \in Thread
        /\ exchange.addr = ask.addr
        /\ at[owner] = IF exchange.what = "get" THEN "reading" ELSE "posting"
    /\ \A t \in Thread : at[t] \in {"reading", "posting"} => exchange # NoExchange

\* What the store said, and what it took, is in its log.
HeardOK ==
    /\ exchange # NoExchange /\ exchange.response # Awaited =>
        /\ IsPrefix(exchange.response.held, served[exchange.addr])
        /\ SaysTaken(exchange.response) /\ exchange.what = "post" =>
            IsPrefix(exchange.log, served[exchange.addr])
    /\ exchange # NoExchange /\ exchange.what = "post" =>
        exchange.log = Append(seen[exchange.addr], "us")
    /\ \A t \in Thread : at[t] = "collecting" =>
        /\ written # NothingWritten
        /\ written.addr = ask.addr
        /\ written.log = Append(seen[ask.addr], "us")
        /\ IsPrefix(written.log, served[ask.addr])

-----------------------------------------------------------------------------
(* Logs.                                                                   *)

LEMMA PrefixPointwise ==
  ASSUME NEW l \in Log, NEW c \in Log
  PROVE  IsPrefix(l, c) <=> Len(l) <= Len(c) /\ \A i \in 1 .. Len(l) : c[i] = l[i]
<1>1. Len(l) <= Len(c) =>
        (SubSeq(l, 1, Len(l)) = SubSeq(c, 1, Len(l))
           <=> \A i \in 1 .. Len(l) : c[i] = l[i])
  BY DEF Log
<1> QED
  BY <1>1 DEF IsPrefix

LEMMA PrefixReflexive ==
  ASSUME NEW l \in Log
  PROVE  IsPrefix(l, l) /\ IsPrefix(<<>>, l)
<1>1. <<>> \in Log /\ Len(<<>>) = 0 /\ Len(l) \in Nat
  BY DEF Log
<1>2. IsPrefix(l, l)
  BY <1>1, PrefixPointwise
<1>3. IsPrefix(<<>>, l)
  BY <1>1, PrefixPointwise
<1> QED
  BY <1>2, <1>3

LEMMA PrefixTransitive ==
  ASSUME NEW l \in Log, NEW m \in Log, NEW n \in Log,
         IsPrefix(l, m), IsPrefix(m, n)
  PROVE  IsPrefix(l, n)
<1>1. Len(l) \in Nat /\ Len(m) \in Nat /\ Len(n) \in Nat
  BY DEF Log
<1> QED
  BY <1>1, PrefixPointwise

LEMMA PrefixOfAppend ==
  ASSUME NEW l \in Log, NEW w \in Author
  PROVE  /\ Append(l, w) \in Log
         /\ IsPrefix(l, Append(l, w))
         /\ Append(l, w) # l
<1>1. Append(l, w) \in Log /\ Len(Append(l, w)) = Len(l) + 1 /\ Len(l) \in Nat
  BY DEF Log
<1>2. \A i \in 1 .. Len(l) : Append(l, w)[i] = l[i]
  BY DEF Log
<1>3. IsPrefix(l, Append(l, w))
  <2>1. Len(l) <= Len(Append(l, w))
    BY <1>1
  <2> QED
    BY <1>1, <1>2, <2>1, PrefixPointwise
<1>4. Append(l, w) # l
  BY <1>1
<1> QED
  BY <1>1, <1>3, <1>4

LEMMA OnlyEmptyPrefix ==
  ASSUME NEW l \in Log, IsPrefix(l, <<>>)
  PROVE  l = <<>>
<1>1. <<>> \in Log /\ Len(<<>>) = 0 /\ Len(l) \in Nat
  BY DEF Log
<1>2. Len(l) = 0
  BY <1>1, PrefixPointwise
<1> QED
  BY <1>2 DEF Log

\* What the store does with a post keeps a log, and keeps what was in it.
LEMMA TakesExtends ==
  ASSUME StoreTypeOK, NEW a \in Addr, NEW log \in Log
  PROVE  /\ Takes(a, log) \in [Addr -> Log]
         /\ \A b \in Addr : IsPrefix(served[b], Takes(a, log)[b])
         /\ IsPrefix(served[a], log) => Takes(a, log)[a] = log
  BY PrefixReflexive DEF Takes, StoreTypeOK

-----------------------------------------------------------------------------
(* Types.                                                                  *)

LEMMA TypeInit == Init => TypeOK
<1> SUFFICES ASSUME Init PROVE TypeOK
  OBVIOUS
<1>1. StoreTypeOK
  BY DEF Init, StoreInit, StoreTypeOK, Log
<1>2. seen \in [Addr -> Log]
  BY DEF Init, Log
<1> QED
  BY <1>1, <1>2, AbiAssumption DEF Init, TypeOK, CallTypeOK, CoreTypeOK, New, Phases

LEMMA FetchedLog ==
  ASSUME NEW r \in Response
  PROVE  Fetched(r) \in Log
  BY DEF Fetched, Response, Log

LEMMA RequestTyped ==
  ASSUME StoreTypeOK, exchange # NoExchange
  PROVE  /\ exchange.what \in {"get", "post"} /\ exchange.addr \in Addr
         /\ exchange.log \in Log
         /\ exchange.response # Awaited => exchange.response \in Response
  BY DEF StoreTypeOK

LEMMA RespondsTyped ==
  ASSUME StoreTypeOK, exchange # NoExchange, NEW told \in BOOLEAN, NEW whole \in BOOLEAN,
         NEW status \in {"2xx", "3xx", "404", "409", "5xx"}
  PROVE  Responds(status, told, whole) \in Response
  BY RequestTyped DEF Responds, Response, StoreTypeOK

LEMMA AnswersTyped ==
  ASSUME StoreTypeOK, exchange # NoExchange, NEW r \in Response, Answers(r)
  PROVE  exchange' \in [what : {"get", "post"}, addr : Addr, log : Log,
                        response : Response \cup {Awaited}]
  BY DEF StoreTypeOK, Answers

\* What the other end does keeps the store's types.
LEMMA StoreTypeStep ==
  ASSUME StoreTypeOK, OtherEnd
  PROVE  StoreTypeOK'
<1>1. CASE ServesGet
  <2>1. exchange # NoExchange
    BY <1>1 DEF ServesGet, Waiting
  <2> QED
    BY <1>1, <2>1, RespondsTyped, AnswersTyped DEF ServesGet, StoreTypeOK
<1>2. CASE ServesPost
  <2>1. exchange # NoExchange
    BY <1>2 DEF ServesPost, Waiting
  <2>2. served' \in [Addr -> Log]
    BY <1>2, <2>1, RequestTyped, TakesExtends DEF ServesPost
  <2> QED
    BY <1>2, <2>1, <2>2, RespondsTyped, AnswersTyped DEF ServesPost, StoreTypeOK
<1>3. CASE ServesNeither
  <2>1. exchange # NoExchange
    BY <1>3 DEF ServesNeither, Waiting
  <2> QED
    BY <1>3, <2>1, RespondsTyped, AnswersTyped DEF ServesNeither, StoreTypeOK
<1>4. ASSUME NEW m \in late, ServesLate(m) PROVE StoreTypeOK'
  <2>1. m.addr \in Addr /\ m.log \in Log
    BY DEF StoreTypeOK, Post
  <2> QED
    BY <1>4, <2>1, TakesExtends DEF ServesLate, StoreTypeOK
<1>5. ASSUME NEW a \in Addr, OthersPublish(a) PROVE StoreTypeOK'
  <2>1. Append(served[a], "others") \in Log
    BY PrefixOfAppend DEF StoreTypeOK, Author
  <2> QED
    BY <1>5, <2>1 DEF OthersPublish, StoreTypeOK
<1> QED
  BY <1>1, <1>2, <1>3, <1>4, <1>5 DEF OtherEnd

LEMMA ReturnsTyped ==
  ASSUME CallTypeOK, NEW t \in Thread, owner = t, Returns(t, "failed") \/ Returns(t, "ok")
             \/ Returns(t, "key")
  PROVE  CallTypeOK'
<1>1. at'[t] = "answered" /\ \A u \in Thread \ {t} : at'[u] = at[u] /\ at[u] \notin Phases
  BY DEF CallTypeOK, Returns
<1>2. \A u \in Thread : at'[u] \in Phases <=> owner' = u
  BY <1>1, AbiAssumption DEF Returns, Phases
<1>3. heap' \in [Thread -> SUBSET {"argument", "value", "reply"}]
  BY DEF CallTypeOK, Returns
<1>4. at' \in [Thread -> {"out", "asked", "answered", "rendered"} \cup Phases]
  BY DEF CallTypeOK, Returns
<1>5. got' \in [Thread -> {"none", "failed", "ok", "key"}]
  BY DEF CallTypeOK, Returns
<1> QED
  BY <1>2, <1>3, <1>4, <1>5 DEF CallTypeOK, Returns

LEMMA GoesTyped ==
  ASSUME CallTypeOK, NEW t \in Thread, owner = t, NEW phase \in Phases, Goes(t, phase)
  PROVE  CallTypeOK'
  BY DEF CallTypeOK, Goes, Phases

\* Whoever is inside asks something of an account.
LEMMA AskTyped ==
  ASSUME CallTypeOK, NEW t \in Thread, owner = t
  PROVE  ask \in Asks /\ ask.addr \in Addr /\ ask # NoAsk
  BY AbiAssumption DEF CallTypeOK, Asks, NoAsk

LEMMA SendsTyped ==
  ASSUME StoreTypeOK, NEW a \in Addr, NEW log \in Log,
         SendGet(a) \/ SendPost(a, log)
  PROVE  StoreTypeOK'
<1>1. \A s \in {"2xx", "404", "409"} : FromMemory(s, a) \in Response
  BY DEF FromMemory, Response, StoreTypeOK
<1>2. CASE SendGet(a)
  <2>1. <<>> \in Log
    BY PrefixReflexive DEF Log
  <2> QED
    BY <1>1, <1>2, <2>1 DEF SendGet, Request, StoreTypeOK
<1>3. CASE SendPost(a, log)
  <2>1. served' \in [Addr -> Log]
    BY <1>3, TakesExtends DEF SendPost, StoreTypeOK
  <2> QED
    BY <1>1, <1>3, <2>1 DEF SendPost, Request, StoreTypeOK
<1> QED
  BY <1>2, <1>3

LEMMA TypeStep ==
  ASSUME TypeOK, [Next]_vars
  PROVE  TypeOK'
<1> USE DEF TypeOK
<1>1. ASSUME NEW t \in Thread, Call(t) \/ NotEntered(t) \/ Renders(t) \/ StringFree(t)
      PROVE  TypeOK'
  <2>1. at[t] \notin Phases /\ at'[t] \notin Phases
    BY <1>1 DEF Call, NotEntered, Renders, StringFree, CallTypeOK, Phases
  <2>2. CallTypeOK'
    <3>1. heap' \in [Thread -> SUBSET {"argument", "value", "reply"}]
      BY <1>1 DEF Call, NotEntered, Renders, StringFree, CallTypeOK
    <3>2. at' \in [Thread -> {"out", "asked", "answered", "rendered"} \cup Phases]
      BY <1>1 DEF Call, NotEntered, Renders, StringFree, CallTypeOK
    <3>3. \A u \in Thread : at'[u] \in Phases <=> owner = u
      <4>1. \A u \in Thread \ {t} : at'[u] = at[u]
        BY <1>1 DEF Call, NotEntered, Renders, StringFree, CallTypeOK
      <4> QED
        BY <2>1, <4>1 DEF CallTypeOK
    <3> QED
      BY <1>1, <3>1, <3>2, <3>3
      DEF Call, NotEntered, Renders, StringFree, lockVars, CallTypeOK
  <2> QED
    BY <1>1, <2>2
    DEF Call, NotEntered, Renders, StringFree, storeVars, hostVars, lockVars, diskVars,
        coreVars, StoreTypeOK, CoreTypeOK
<1>2. ASSUME NEW t \in Thread, Enters(t) PROVE TypeOK'
  BY <1>2, AbiAssumption
  DEF Enters, storeVars, hostVars, diskVars, coreVars, StoreTypeOK, CallTypeOK,
      CoreTypeOK, Phases
<1>3. ASSUME NEW t \in Thread, Runs(t) PROVE TypeOK'
  <2>1. CASE RunRefused(t) \/ RunAccounts(t) \/ RunImportsHeld(t) \/ RunExport(t)
              \/ PostsNothing(t)
    BY <2>1, ReturnsTyped
    DEF RunRefused, RunAccounts, RunImportsHeld, RunExport, PostsNothing, Inside,
        storeVars, hostVars, diskVars, coreVars, StoreTypeOK, CoreTypeOK
  <2>2. CASE RunTakes(t) \/ RunUnlock(t) \/ RunForget(t) \/ RunObserves(t) \/ RunStages(t)
    <3>1. owner = t /\ ask.addr \in Addr
      BY <2>2, AskTyped DEF RunTakes, RunUnlock, RunForget, RunObserves, RunStages, Inside
    <3>2. CallTypeOK' /\ StoreTypeOK'
      BY <2>2, <3>1, ReturnsTyped
      DEF RunTakes, RunUnlock, RunForget, RunObserves, RunStages, storeVars, StoreTypeOK
    <3>3. CoreTypeOK'
      BY <2>2, <3>1
      DEF RunTakes, RunUnlock, RunForget, RunObserves, RunStages, CoreTypeOK, diskVars,
          coreVars
    <3> QED
      BY <2>2, <3>2, <3>3
      DEF RunTakes, RunUnlock, RunForget, RunObserves, RunStages, hostVars
  <2>3. CASE RunPanics(t)
    BY <2>3, ReturnsTyped
    DEF RunPanics, storeVars, hostVars, diskVars, coreVars, StoreTypeOK, CoreTypeOK
  <2>4. CASE Reads(t) \/ Posts(t)
    <3>1. owner = t /\ ask.addr \in Addr
      BY <2>4, AskTyped DEF Reads, Posts, Inside
    <3>2. Append(seen[ask.addr], "us") \in Log
      BY <3>1, PrefixOfAppend DEF CoreTypeOK, Author
    <3>3. StoreTypeOK'
      BY <2>4, <3>1, <3>2, SendsTyped DEF Reads, Posts
    <3> QED
      BY <2>4, <3>1, <3>3, GoesTyped
      DEF Reads, Posts, Phases, hostVars, diskVars, coreVars, CoreTypeOK
  <2>5. CASE HearsLog(t)
    <3>1. owner = t /\ ask.addr \in Addr
      BY <2>5, AskTyped DEF HearsLog
    <3>2. exchange # NoExchange /\ exchange.response \in Response
      BY <2>5, RequestTyped DEF HearsLog, Hears, Answered
    <3>3. StoreTypeOK'
      BY <2>5 DEF HearsLog, Hears, StoreTypeOK
    <3>4. CallTypeOK'
      BY <2>5, <3>1, ReturnsTyped, GoesTyped DEF HearsLog, Phases
    <3>5. CoreTypeOK'
      BY <2>5, <3>1, <3>2, FetchedLog DEF HearsLog, CoreTypeOK, diskVars
    <3> QED
      BY <2>5, <3>3, <3>4, <3>5 DEF HearsLog, hostVars
  <2>6. CASE HearsTaken(t)
    <3>1. owner = t /\ ask.addr \in Addr
      BY <2>6, AskTyped DEF HearsTaken
    <3>2. exchange.log \in Log
      BY <2>6, RequestTyped DEF HearsTaken, Hears, Answered
    <3>3. StoreTypeOK'
      BY <2>6, <3>1, <3>2 DEF HearsTaken, Hears, StoreTypeOK, Post
    <3>4. CallTypeOK'
      BY <2>6, <3>1, ReturnsTyped, GoesTyped DEF HearsTaken, Phases
    <3> QED
      BY <2>6, <3>3, <3>4 DEF HearsTaken, hostVars, diskVars, CoreTypeOK
  <2>7. CASE Collects(t)
    <3>1. owner = t /\ ask.addr \in Addr
      BY <2>7, AskTyped DEF Collects
    <3>2. written # NothingWritten => written.log \in Log
      BY DEF StoreTypeOK, Post
    <3> QED
      BY <2>7, <3>1, <3>2, ReturnsTyped
      DEF Collects, hostVars, diskVars, CoreTypeOK, StoreTypeOK
  <2>8. CASE GivesUp(t)
    <3>1. exchange # NoExchange
      BY <2>8 DEF GivesUp, TimesOut
    <3>2. late' \subseteq Post
      BY <2>8, <3>1, RequestTyped DEF GivesUp, TimesOut, StoreTypeOK, Post
    <3> QED
      BY <2>8, <3>2, ReturnsTyped
      DEF GivesUp, TimesOut, hostVars, diskVars, coreVars, CoreTypeOK, StoreTypeOK
  <2> QED
    BY <1>3, <2>1, <2>2, <2>3, <2>4, <2>5, <2>6, <2>7, <2>8 DEF Runs
<1>4. CASE Close \/ Free
  BY <1>4
  DEF Close, Free, storeVars, lockVars, callVars, diskVars, coreVars, StoreTypeOK,
      CallTypeOK, CoreTypeOK
<1>5. CASE Elsewhere
  BY <1>5, StoreTypeStep
  DEF Elsewhere, hostVars, lockVars, callVars, diskVars, coreVars, CallTypeOK, CoreTypeOK
<1>6. CASE UNCHANGED vars
  BY <1>6
  DEF vars, storeVars, hostVars, lockVars, callVars, diskVars, coreVars, StoreTypeOK,
      CallTypeOK, CoreTypeOK
<1> QED
  BY <1>1, <1>2, <1>3, <1>4, <1>5, <1>6 DEF Next, Progress

\* Every variable keeps its type, and whoever is in the core holds its mutex
\* (reply), for any threads and accounts.
THEOREM TypeCorrect == Spec => []TypeOK
  BY TypeInit, TypeStep, PTL DEF Spec

-----------------------------------------------------------------------------
(* Calls, and how they end.                                                *)

LEMMA CallsInit == Init => CallsOK
  BY DEF Init, CallsOK, New

\* The two buffers of an exported key are of one size.
LEMMA BytesStay == ~Moves(Bytes)
  BY DEF Moves, Bytes, ToVecSized, ReplyLength

LEMMA CallsStep ==
  ASSUME TypeOK, CallsOK, [Next]_vars
  PROVE  CallsOK'
<1> USE DEF CallsOK
<1>1. ASSUME NEW t \in Thread, Runs(t) PROVE CallsOK'
  <2>1. owner = t /\ owner # NoThread /\ at[t] \in Phases /\ UNCHANGED <<hostVars, spilled>>
    BY <1>1, AbiAssumption
    DEF Runs, RunRefused, RunAccounts, RunTakes, RunImportsHeld, RunExport, RunUnlock,
        RunForget, RunObserves, RunStages, Reads, HearsLog, PostsNothing, Posts,
        HearsTaken, Collects, GivesUp, RunPanics, Inside, Returns, Goes, TypeOK, CallTypeOK
  <2>2. at' \in [Thread -> {"out", "asked", "answered", "rendered"} \cup Phases]
    BY <1>1, TypeStep DEF Next, Progress, TypeOK, CallTypeOK
  <2>3. CASE Returns(t, "failed") \/ Returns(t, "ok") \/ Returns(t, "key")
    <3>1. at'[t] = "answered" /\ owner' = NoThread
          /\ \A u \in Thread \ {t} : at'[u] = at[u] /\ heap'[u] = heap[u]
      BY <2>3 DEF Returns, TypeOK, CallTypeOK
    <3>2. torn' => poisoned'
      BY <1>1, <2>1
      DEF Runs, RunRefused, RunAccounts, RunTakes, RunImportsHeld, RunExport, RunUnlock,
          RunForget, RunObserves, RunStages, Reads, HearsLog, PostsNothing, Posts,
          HearsTaken, Collects, GivesUp, RunPanics
    <3> QED
      BY <2>1, <3>1, <3>2 DEF hostVars, Phases
  <2>4. CASE \E phase \in Phases : Goes(t, phase)
    <3>1. at'[t] # "out" /\ UNCHANGED <<owner, heap>>
          /\ \A u \in Thread \ {t} : at'[u] = at[u]
      BY <2>4 DEF Goes, TypeOK, CallTypeOK, Phases
    <3>2. ~torn'
      BY <1>1, <2>1, <3>1
      DEF Runs, RunRefused, RunAccounts, RunTakes, RunImportsHeld, RunExport, RunUnlock,
          RunForget, RunObserves, RunStages, Reads, HearsLog, PostsNothing, Posts,
          HearsTaken, Collects, GivesUp, RunPanics, Returns
    <3> QED
      BY <2>1, <3>1, <3>2 DEF hostVars, Phases
  <2> QED
    BY <1>1, <2>3, <2>4
    DEF Runs, RunRefused, RunAccounts, RunTakes, RunImportsHeld, RunExport, RunUnlock,
        RunForget, RunObserves, RunStages, Reads, HearsLog, PostsNothing, Posts,
        HearsTaken, Collects, GivesUp, RunPanics, Phases
<1>2. ASSUME NEW t \in Thread, Call(t) \/ NotEntered(t) \/ Renders(t) \/ StringFree(t)
      PROVE  CallsOK'
  <2>1. /\ at[t] = "out" => ~closing
        /\ at'[t] = "out" => heap'[t] = {}
        /\ \A u \in Thread \ {t} : at'[u] = at[u] /\ heap'[u] = heap[u]
    BY <1>2 DEF Call, NotEntered, Renders, StringFree, TypeOK, CallTypeOK
  <2>2. spilled' = {}
    BY <1>2, BytesStay DEF Call, NotEntered, Renders, StringFree
  <2> QED
    BY <1>2, <2>1, <2>2
    DEF Call, NotEntered, Renders, StringFree, hostVars, lockVars
<1>3. ASSUME NEW t \in Thread, Enters(t) PROVE CallsOK'
  BY <1>3 DEF Enters, hostVars, TypeOK, CallTypeOK
<1>4. CASE Close \/ Free
  BY <1>4 DEF Close, Free, lockVars, callVars
<1>5. CASE Elsewhere \/ UNCHANGED vars
  BY <1>5 DEF Elsewhere, vars, hostVars, lockVars, callVars
<1> QED
  BY <1>1, <1>2, <1>3, <1>4, <1>5 DEF Next, Progress

LEMMA CallsInvariant == Spec => []CallsOK
  BY TypeCorrect, CallsInit, CallsStep, PTL DEF Spec

\* The destructor frees the handle with every call drained, so nothing reads
\* it after.
THEOREM HandleDrained == Spec => []HandleOutlivesCalls
<1>1. CallsOK => HandleOutlivesCalls
  BY DEF CallsOK, HandleOutlivesCalls
<1> QED
  BY <1>1, CallsInvariant, PTL

\* A core a panic left torn is never run on again: reply finds it poisoned.
THEOREM TornLockedAway == Spec => []TornNeverRead
<1>1. CallsOK => TornNeverRead
  BY DEF CallsOK, TornNeverRead
<1> QED
  BY <1>1, CallsInvariant, PTL

\* No buffer is freed with a key or a password in it, whichever way a call ends
\* (render, scrub, string_free).
THEOREM SecretsCleared == Spec => []NoSecretLeft
<1>1. CallsOK => NoSecretLeft
  BY DEF CallsOK, NoSecretLeft
<1> QED
  BY <1>1, CallsInvariant, PTL

\* A key is written in the clear only by a call given no password at all
\* (optional_arg).
THEOREM ClearWhereAsked == Spec => ClearOnlyIfAsked
<1> DEFINE Asked == \A a \in Addr :
              (vault[a] # "open" /\ vault'[a] = "open") => ask.password = "null"
<1>1. ASSUME TypeOK, [Next]_vars PROVE Asked
  <2>1. ASSUME NEW t \in Thread, RunTakes(t) PROVE Asked
    <3>1. ask \in Asks
      BY <2>1, AskTyped, <1>1 DEF RunTakes, Inside, TypeOK
    <3>2. ask.password \in Raw
      BY <3>1 DEF Asks, Raw
    <3> QED
      BY <1>1, <2>1, <3>2 DEF RunTakes, OptionalArg, RequiredArg, TypeOK, CoreTypeOK, Raw
  <2>2. ASSUME NEW t \in Thread, RunForget(t) PROVE Asked
    BY <1>1, <2>2 DEF RunForget, TypeOK, CoreTypeOK
  <2>3. CASE UNCHANGED vault
    BY <2>3
  <2> QED
    BY <1>1, <2>1, <2>2, <2>3
    DEF Next, Progress, Runs, Call, NotEntered, Enters, Renders, StringFree, RunRefused,
        RunAccounts, RunImportsHeld, RunExport, RunUnlock, RunObserves, RunStages, Reads,
        HearsLog, PostsNothing, Posts, HearsTaken, Collects, GivesUp, RunPanics, Close,
        Free, Elsewhere, vars, diskVars
<1>2. TypeOK /\ [Next]_vars => [Asked]_vars
  BY <1>1
<1> QED
  BY <1>2, TypeCorrect, PTL DEF Spec, ClearOnlyIfAsked

-----------------------------------------------------------------------------
(* Requests, and what is heard of them.                                    *)

LEMMA ExchangeInit == Init => ExchangeOK /\ HeardOK /\ SeenIsServed
<1>1. IsPrefix(<<>>, <<>>)
  <2>1. <<>> \in Log
    BY DEF Log
  <2> QED
    BY <2>1, PrefixReflexive
<1> SUFFICES ASSUME Init PROVE ExchangeOK /\ HeardOK /\ SeenIsServed
  OBVIOUS
<1>2. exchange = NoExchange /\ \A t \in Thread : at[t] = "out"
  BY DEF Init, StoreInit
<1>3. SeenIsServed
  BY <1>1 DEF Init, StoreInit, SeenIsServed
<1> QED
  BY <1>2, <1>3 DEF ExchangeOK, HeardOK

\* Everyone but the thread inside leaves its call, and its exchange, alone.
LEMMA ExchangeStep ==
  ASSUME TypeOK, ExchangeOK, [Next]_vars
  PROVE  ExchangeOK'
<1> USE DEF ExchangeOK
<1>1. ASSUME NEW t \in Thread, Runs(t) PROVE ExchangeOK'
  <2>1. owner = t /\ at \in [Thread -> {"out", "asked", "answered", "rendered"} \cup Phases]
        /\ \A u \in Thread : at[u] \in Phases <=> owner = u
    BY <1>1
    DEF Runs, RunRefused, RunAccounts, RunTakes, RunImportsHeld, RunExport, RunUnlock,
        RunForget, RunObserves, RunStages, Reads, HearsLog, PostsNothing, Posts,
        HearsTaken, Collects, GivesUp, RunPanics, Inside, TypeOK, CallTypeOK
  <2>2. ask # NoAsk /\ ask.addr \in Addr
    BY <2>1, AskTyped DEF TypeOK
  <2>3. CASE \/ RunRefused(t) \/ RunAccounts(t) \/ RunTakes(t) \/ RunImportsHeld(t)
             \/ RunExport(t) \/ RunUnlock(t) \/ RunForget(t) \/ RunObserves(t)
             \/ RunStages(t) \/ PostsNothing(t) \/ Collects(t) \/ RunPanics(t)
    <3>1. exchange' = exchange /\ exchange = NoExchange
      BY <2>1, <2>3
      DEF RunRefused, RunAccounts, RunTakes, RunImportsHeld, RunExport, RunUnlock,
          RunForget, RunObserves, RunStages, PostsNothing, Collects, RunPanics, Inside,
          storeVars
    <3>2. \A u \in Thread : at'[u] \in {"reading", "posting"} => at[u] = at'[u]
      BY <2>1, <2>3
      DEF RunRefused, RunAccounts, RunTakes, RunImportsHeld, RunExport, RunUnlock,
          RunForget, RunObserves, RunStages, PostsNothing, Collects, RunPanics, Returns
    <3> QED
      BY <3>1, <3>2
  <2>4. CASE HearsLog(t) \/ HearsTaken(t) \/ GivesUp(t)
    <3>1. exchange' = NoExchange
      BY <2>4 DEF HearsLog, HearsTaken, GivesUp, Hears, TimesOut
    <3>2. \A u \in Thread : at'[u] \notin {"reading", "posting"}
      BY <2>1, <2>4 DEF HearsLog, HearsTaken, GivesUp, Returns, Goes, Phases
    <3> QED
      BY <3>1, <3>2
  <2>5. CASE Reads(t) \/ Posts(t)
    <3>1. owner' = t /\ ask' = ask /\ exchange' # NoExchange /\ exchange'.addr = ask.addr
      BY <2>1, <2>5 DEF Reads, Posts, SendGet, SendPost, Request, Goes, NoExchange
    <3>2. exchange'.what = IF at'[t] = "reading" THEN "get" ELSE "post"
      BY <2>1, <2>5 DEF Reads, Posts, SendGet, SendPost, Request, Goes
    <3>3. at'[t] \in {"reading", "posting"}
      BY <2>1, <2>5 DEF Reads, Posts, Goes
    <3> QED
      BY <3>1, <3>2, <3>3
  <2> QED
    BY <1>1, <2>3, <2>4, <2>5 DEF Runs
<1>2. ASSUME NEW t \in Thread,
             Call(t) \/ NotEntered(t) \/ Enters(t) \/ Renders(t) \/ StringFree(t)
      PROVE  ExchangeOK'
  <2>1. exchange' = exchange /\ at[t] \notin {"reading", "posting"}
        /\ at'[t] \notin {"reading", "posting"}
        /\ \A u \in Thread \ {t} : at'[u] = at[u]
    BY <1>2
    DEF Call, NotEntered, Enters, Renders, StringFree, storeVars, TypeOK, CallTypeOK
  <2>2. exchange # NoExchange => UNCHANGED <<owner, ask>>
    BY <1>2, AbiAssumption
    DEF Call, NotEntered, Enters, Renders, StringFree, lockVars
  <2> QED
    BY <2>1, <2>2
<1>3. CASE Close \/ Free \/ UNCHANGED vars
  BY <1>3 DEF Close, Free, vars, storeVars, lockVars, callVars
<1>4. CASE Elsewhere
  <2>1. UNCHANGED <<at, owner, ask>>
    BY <1>4 DEF Elsewhere, lockVars, callVars
  <2>2. \/ exchange' = exchange
        \/ /\ exchange # NoExchange /\ exchange' # NoExchange
           /\ exchange'.what = exchange.what /\ exchange'.addr = exchange.addr
    <3>1. ASSUME NEW r, Waiting("get") \/ Waiting("post"), Answers(r)
          PROVE  /\ exchange # NoExchange /\ exchange' # NoExchange
                 /\ exchange'.what = exchange.what /\ exchange'.addr = exchange.addr
      BY <3>1 DEF Waiting, Answers, TypeOK, StoreTypeOK, NoExchange
    <3> QED
      BY <1>4, <3>1
      DEF Elsewhere, OtherEnd, ServesGet, ServesPost, ServesNeither, ServesLate,
          OthersPublish
  <2> QED
    BY <2>1, <2>2
<1> QED
  BY <1>1, <1>2, <1>3, <1>4 DEF Next, Progress

\* The store's logs only ever grow, whatever is sent to it and however late.
LEMMA ServedGrows ==
  ASSUME TypeOK, [Next]_vars
  PROVE  \A a \in Addr : IsPrefix(served[a], served'[a])
<1> USE DEF TypeOK
<1>1. served \in [Addr -> Log] /\ \A a \in Addr : IsPrefix(served[a], served[a])
  BY PrefixReflexive DEF StoreTypeOK
<1>2. CASE UNCHANGED served
  BY <1>1, <1>2
<1>3. ASSUME NEW t \in Thread, Posts(t)
      PROVE  \A a \in Addr : IsPrefix(served[a], served'[a])
  <2>1. ask.addr \in Addr /\ Append(seen[ask.addr], "us") \in Log
    BY <1>3, AskTyped, PrefixOfAppend DEF Posts, CoreTypeOK, Author
  <2> QED
    BY <1>1, <1>3, <2>1, TakesExtends DEF Posts, SendPost
<1>4. CASE Elsewhere
  <2>1. CASE ServesGet \/ ServesNeither
    BY <1>2, <2>1 DEF ServesGet, ServesNeither
  <2>2. CASE ServesPost
    BY <2>2, RequestTyped, TakesExtends DEF ServesPost, Waiting
  <2>3. ASSUME NEW m \in late, ServesLate(m)
        PROVE  \A a \in Addr : IsPrefix(served[a], served'[a])
    <3>1. m.addr \in Addr /\ m.log \in Log
      BY DEF StoreTypeOK, Post
    <3> QED
      BY <1>1, <2>3, <3>1, TakesExtends DEF ServesLate
  <2>4. ASSUME NEW a \in Addr, OthersPublish(a)
        PROVE  \A b \in Addr : IsPrefix(served[b], served'[b])
    <3>1. IsPrefix(served[a], Append(served[a], "others"))
      BY <1>1, PrefixOfAppend DEF Author
    <3> QED
      BY <1>1, <2>4, <3>1 DEF OthersPublish
  <2> QED
    BY <1>4, <2>1, <2>2, <2>3, <2>4 DEF Elsewhere, OtherEnd
<1> QED
  BY <1>2, <1>3, <1>4
  DEF Next, Progress, Runs, Call, NotEntered, Enters, Renders, StringFree, RunRefused,
      RunAccounts, RunTakes, RunImportsHeld, RunExport, RunUnlock, RunForget, RunObserves,
      RunStages, Reads, HearsLog, PostsNothing, HearsTaken, Collects, GivesUp, RunPanics,
      Close, Free, vars, storeVars, SendGet

\* A response is what the store held and did, by the store's own rules.
ResponseOK(e, held) ==
    e.response # Awaited =>
        /\ IsPrefix(e.response.held, held)
        /\ SaysTaken(e.response) /\ e.what = "post" => IsPrefix(e.log, held)

LEMMA ResponseKept ==
  ASSUME NEW e, e.log \in Log, e.response # Awaited => e.response \in Response,
         NEW held \in Log, NEW grown \in Log, IsPrefix(held, grown), ResponseOK(e, held)
  PROVE  ResponseOK(e, grown)
<1>1. e.response # Awaited => e.response.held \in Log
  BY DEF Response
<1> QED
  BY <1>1, PrefixTransitive DEF ResponseOK

LEMMA ElsewhereHeard ==
  ASSUME TypeOK, ExchangeOK, HeardOK, SeenIsServed, Elsewhere
  PROVE  HeardOK' /\ SeenIsServed'
<1>0. [Next]_vars /\ TypeOK'
  BY TypeStep DEF Next
<1>1. \A a \in Addr : IsPrefix(served[a], served'[a]) /\ served[a] \in Log /\ served'[a] \in Log
  BY <1>0, ServedGrows DEF TypeOK, StoreTypeOK
<1>2. UNCHANGED <<at, owner, ask, seen, written>>
  BY DEF Elsewhere, lockVars, callVars, coreVars, OtherEnd, ServesGet, ServesPost,
         ServesNeither, ServesLate, OthersPublish
<1>3. SeenIsServed'
  BY <1>1, <1>2, PrefixTransitive DEF SeenIsServed, TypeOK, CoreTypeOK
<1>4. exchange # NoExchange =>
        /\ exchange.what \in {"get", "post"} /\ exchange.addr \in Addr
        /\ exchange.log \in Log
        /\ exchange.response # Awaited => exchange.response \in Response
        /\ ResponseOK(exchange, served[exchange.addr])
  BY RequestTyped DEF TypeOK, HeardOK, ResponseOK
<1>5. CASE exchange' = exchange
  <2>1. exchange # NoExchange => ResponseOK(exchange', served'[exchange'.addr])
    BY <1>1, <1>4, <1>5, ResponseKept
  <2> QED
    BY <1>1, <1>2, <1>3, <1>5, <2>1, PrefixTransitive
    DEF HeardOK, ResponseOK, TypeOK, StoreTypeOK, Post
<1>6. ASSUME NEW r, exchange # NoExchange, Answers(r),
             r # Awaited =>
                /\ IsPrefix(r.held, served'[exchange.addr])
                /\ SaysTaken(r) /\ exchange.what = "post" =>
                    IsPrefix(exchange.log, served'[exchange.addr])
      PROVE  HeardOK'
  <2>1. /\ exchange'.what = exchange.what /\ exchange'.addr = exchange.addr
        /\ exchange'.log = exchange.log /\ exchange'.response = r
    BY <1>6 DEF Answers, TypeOK, StoreTypeOK
  <2> QED
    BY <1>1, <1>2, <1>6, <2>1, PrefixTransitive DEF HeardOK, TypeOK, StoreTypeOK, Post
<1>7. exchange # NoExchange =>
        /\ IsPrefix(served[exchange.addr], served'[exchange.addr])
        /\ served[exchange.addr] \in Log
  BY <1>1, <1>4
<1>8. CASE ServesGet
  <2>1. exchange # NoExchange /\ exchange.what = "get"
    BY <1>8 DEF ServesGet, Waiting
  <2> QED
    BY <1>3, <1>6, <1>7, <1>8, <2>1 DEF ServesGet, Responds, SaysTaken
<1>9. CASE ServesPost
  <2>1. exchange # NoExchange /\ exchange.what = "post"
    BY <1>9 DEF ServesPost, Waiting
  <2>2. IsPrefix(served[exchange.addr], exchange.log) =>
            IsPrefix(exchange.log, served'[exchange.addr])
    BY <1>4, <1>9, <2>1, TakesExtends, PrefixReflexive DEF ServesPost, TypeOK
  <2> QED
    BY <1>3, <1>6, <1>7, <1>9, <2>1, <2>2 DEF ServesPost, Responds, SaysTaken
<1>10. CASE ServesNeither
  <2>1. exchange # NoExchange
    BY <1>10 DEF ServesNeither, Waiting
  <2> QED
    BY <1>3, <1>4, <1>6, <1>7, <1>10, <2>1
    DEF ServesNeither, Responds, SaysTaken, Waiting
<1> QED
  BY <1>3, <1>5, <1>8, <1>9, <1>10 DEF Elsewhere, OtherEnd, ServesLate, OthersPublish

\* What a thread inside makes of what it hears.
LEMMA RunsHeard ==
  ASSUME TypeOK, ExchangeOK, HeardOK, SeenIsServed, NEW t \in Thread, Runs(t)
  PROVE  HeardOK' /\ SeenIsServed'
<1>0. [Next]_vars /\ TypeOK'
  BY TypeStep DEF Next, Progress
<1>1. \A a \in Addr : IsPrefix(served[a], served'[a]) /\ served[a] \in Log
                      /\ served'[a] \in Log /\ seen[a] \in Log
  BY <1>0, ServedGrows DEF TypeOK, StoreTypeOK, CoreTypeOK
<1>2. owner = t /\ at \in [Thread -> {"out", "asked", "answered", "rendered"} \cup Phases]
      /\ \A u \in Thread : at[u] \in Phases <=> owner = u
  BY DEF Runs, RunRefused, RunAccounts, RunTakes, RunImportsHeld, RunExport, RunUnlock,
         RunForget, RunObserves, RunStages, Reads, HearsLog, PostsNothing, Posts,
         HearsTaken, Collects, GivesUp, RunPanics, Inside, TypeOK, CallTypeOK
<1>3. ask \in Asks /\ ask.addr \in Addr
  BY <1>2, AskTyped DEF TypeOK
<1>4. ASSUME \A a \in Addr : seen'[a] = seen[a] PROVE SeenIsServed'
  BY <1>1, <1>4, PrefixTransitive DEF SeenIsServed
<1>5. ASSUME exchange' = NoExchange, \A u \in Thread : at'[u] # "collecting" PROVE HeardOK'
  BY <1>5 DEF HeardOK
<1>6. CASE \/ RunRefused(t) \/ RunAccounts(t) \/ RunTakes(t) \/ RunImportsHeld(t)
           \/ RunExport(t) \/ RunUnlock(t) \/ RunForget(t) \/ RunObserves(t)
           \/ RunStages(t) \/ PostsNothing(t) \/ RunPanics(t)
  <2>1. exchange' = NoExchange /\ seen' = seen
    BY <1>2, <1>6
    DEF RunRefused, RunAccounts, RunTakes, RunImportsHeld, RunExport, RunUnlock, RunForget,
        RunObserves, RunStages, PostsNothing, RunPanics, Inside, storeVars, coreVars,
        ExchangeOK
  <2>2. \A u \in Thread : at'[u] # "collecting"
    BY <1>2, <1>6
    DEF RunRefused, RunAccounts, RunTakes, RunImportsHeld, RunExport, RunUnlock, RunForget,
        RunObserves, RunStages, PostsNothing, RunPanics, Returns, Phases
  <2> QED
    BY <1>4, <1>5, <2>1, <2>2
<1>7. CASE GivesUp(t)
  <2>1. exchange' = NoExchange /\ seen' = seen /\ \A u \in Thread : at'[u] # "collecting"
    BY <1>2, <1>7 DEF GivesUp, TimesOut, Returns, coreVars, Phases
  <2> QED
    BY <1>4, <1>5, <2>1
<1>8. CASE HearsLog(t)
  <2>1. exchange # NoExchange /\ exchange.response \in Response /\ exchange.what = "get"
        /\ exchange.addr = ask.addr /\ exchange.response # Awaited
    BY <1>8, RequestTyped DEF HearsLog, Hears, Answered, ExchangeOK, TypeOK
  <2>2. Fetched(exchange.response) \in Log
        /\ IsPrefix(Fetched(exchange.response), served[ask.addr])
    BY <1>1, <1>3, <2>1, FetchedLog, PrefixReflexive DEF HeardOK, Fetched
  <2>3. SeenIsServed'
    BY <1>1, <1>3, <1>8, <2>2 DEF HearsLog, SeenIsServed, TypeOK, CoreTypeOK
  <2>4. exchange' = NoExchange /\ \A u \in Thread : at'[u] # "collecting"
    BY <1>2, <1>8 DEF HearsLog, Hears, Returns, Goes, Phases
  <2> QED
    BY <1>5, <2>3, <2>4
<1>9. CASE Reads(t)
  <2>1. seen' = seen /\ \A u \in Thread : at'[u] # "collecting"
    BY <1>2, <1>9 DEF Reads, Goes, coreVars, Phases
  <2>2. /\ exchange'.what = "get" /\ exchange'.addr = ask.addr
        /\ exchange'.response # Awaited => exchange'.response.held = served[ask.addr]
    BY <1>9 DEF Reads, SendGet, Request, FromMemory
  <2>3. IsPrefix(served[ask.addr], served'[ask.addr])
    BY <1>1, <1>3
  <2> QED
    BY <1>4, <2>1, <2>2, <2>3 DEF HeardOK
<1>10. CASE Posts(t)
  <2>1. seen' = seen /\ \A u \in Thread : at'[u] # "collecting"
    BY <1>2, <1>10 DEF Posts, Goes, coreVars, Phases
  <2>2. Append(seen[ask.addr], "us") \in Log
    BY <1>1, <1>3, PrefixOfAppend DEF Author
  <2>3. /\ exchange'.what = "post" /\ exchange'.addr = ask.addr
        /\ exchange'.log = Append(seen[ask.addr], "us")
        /\ exchange'.response # Awaited =>
            /\ exchange'.response.held = served[ask.addr]
            /\ SaysTaken(exchange'.response) => IsPrefix(served[ask.addr], exchange'.log)
            /\ served' = Takes(ask.addr, exchange'.log)
    BY <1>10 DEF Posts, SendPost, Request, FromMemory, SaysTaken, TypeOK, StoreTypeOK
  <2>4. exchange'.response # Awaited =>
            (SaysTaken(exchange'.response) => IsPrefix(exchange'.log, served'[ask.addr]))
    BY <1>3, <2>2, <2>3, TakesExtends, PrefixReflexive DEF TypeOK
  <2>5. IsPrefix(served[ask.addr], served'[ask.addr])
    BY <1>1, <1>3
  <2> QED
    BY <1>4, <2>1, <2>3, <2>4, <2>5 DEF HeardOK
<1>11. CASE HearsTaken(t)
  <2>1. exchange # NoExchange /\ exchange.what = "post" /\ exchange.addr = ask.addr
        /\ exchange.log \in Log /\ exchange.response # Awaited
    BY <1>11, RequestTyped DEF HearsTaken, Hears, Answered, ExchangeOK, TypeOK
  <2>2. seen' = seen /\ served' = served /\ exchange' = NoExchange
    BY <1>11 DEF HearsTaken, Hears
  <2>3. CASE SaysTaken(exchange.response)
    <3>1. /\ written' = [addr |-> ask.addr, log |-> exchange.log] /\ ask' = ask
          /\ \A u \in Thread : at'[u] = "collecting" => u = t
      BY <1>2, <1>11, <2>3 DEF HearsTaken, Goes, Phases
    <3>2. exchange.log = Append(seen[ask.addr], "us")
          /\ IsPrefix(exchange.log, served[ask.addr])
      BY <2>1, <2>3 DEF HeardOK
    <3>3. written' # NothingWritten
      BY <3>1 DEF NothingWritten
    <3> QED
      BY <1>4, <2>2, <3>1, <3>2, <3>3 DEF HeardOK
  <2>4. CASE ~SaysTaken(exchange.response)
    <3>1. \A u \in Thread : at'[u] # "collecting"
      BY <1>2, <1>11, <2>4 DEF HearsTaken, Returns, Phases
    <3> QED
      BY <1>4, <1>5, <2>2, <3>1
  <2> QED
    BY <2>3, <2>4
<1>12. CASE Collects(t)
  <2>1. exchange = NoExchange /\ exchange' = exchange
    BY <1>2, <1>12 DEF Collects, ExchangeOK
  <2>2. \A u \in Thread : at'[u] # "collecting"
    BY <1>2, <1>12 DEF Collects, Returns, Phases
  <2>3. IsPrefix(written.log, served[ask.addr])
    BY <1>12 DEF Collects, HeardOK
  <2>4. SeenIsServed'
    BY <1>3, <1>12, <2>3 DEF Collects, SeenIsServed, TypeOK, CoreTypeOK
  <2> QED
    BY <1>5, <2>1, <2>2, <2>4
<1> QED
  BY <1>6, <1>7, <1>8, <1>9, <1>10, <1>11, <1>12 DEF Runs

LEMMA HeardStep ==
  ASSUME TypeOK, ExchangeOK, HeardOK, SeenIsServed, [Next]_vars
  PROVE  HeardOK' /\ SeenIsServed'
<1>1. ASSUME NEW t \in Thread,
             Call(t) \/ NotEntered(t) \/ Enters(t) \/ Renders(t) \/ StringFree(t)
      PROVE  HeardOK' /\ SeenIsServed'
  <2>1. UNCHANGED <<exchange, served, written, seen>>
        /\ \A u \in Thread : at'[u] = "collecting" => at[u] = "collecting" /\ u # t
    BY <1>1
    DEF Call, NotEntered, Enters, Renders, StringFree, storeVars, coreVars, TypeOK,
        CallTypeOK
  <2>2. \A u \in Thread : at[u] = "collecting" => owner = u
    BY DEF TypeOK, CallTypeOK, Phases
  <2>3. (\E u \in Thread : at'[u] = "collecting") => ask' = ask
    BY <1>1, <2>1, <2>2, AbiAssumption
    DEF Call, NotEntered, Enters, Renders, StringFree, lockVars
  <2> QED
    BY <2>1, <2>3 DEF HeardOK, SeenIsServed
<1>2. CASE Close \/ Free \/ UNCHANGED vars
  BY <1>2
  DEF Close, Free, vars, storeVars, lockVars, callVars, coreVars, HeardOK, SeenIsServed
<1> QED
  BY <1>1, <1>2, RunsHeard, ElsewhereHeard DEF Next, Progress

StoreInv == TypeOK /\ ExchangeOK /\ HeardOK /\ SeenIsServed

LEMMA StoreInvariant == Spec => []StoreInv
<1>1. Init => StoreInv
  BY TypeInit, ExchangeInit DEF StoreInv
<1>2. StoreInv /\ [Next]_vars => StoreInv'
  BY TypeStep, ExchangeStep, HeardStep DEF StoreInv
<1> QED
  BY <1>1, <1>2, PTL DEF Spec

\* The log shown is one the store has had, whoever answered ChatStore's
\* requests.
THEOREM ShownIsServed == Spec => []SeenIsServed
<1>1. StoreInv => SeenIsServed
  BY DEF StoreInv
<1> QED
  BY <1>1, StoreInvariant, PTL

\* A call's phase is moved by its own thread.
LEMMA OwnStep ==
  ASSUME TypeOK, [Next]_vars, NEW t \in Thread, at'[t] # at[t], at[t] \in Phases
  PROVE  Runs(t)
<1>1. owner = t
  BY DEF TypeOK, CallTypeOK
<1>2. ASSUME NEW u \in Thread, Runs(u) PROVE u = t
  BY <1>1, <1>2
  DEF Runs, RunRefused, RunAccounts, RunTakes, RunImportsHeld, RunExport, RunUnlock,
      RunForget, RunObserves, RunStages, Reads, HearsLog, PostsNothing, Posts, HearsTaken,
      Collects, GivesUp, RunPanics, Inside
<1>3. ASSUME NEW u \in Thread,
             Call(u) \/ NotEntered(u) \/ Enters(u) \/ Renders(u) \/ StringFree(u)
      PROVE  FALSE
  BY <1>3 DEF Call, NotEntered, Enters, Renders, StringFree, TypeOK, CallTypeOK, Phases
<1> QED
  BY <1>2, <1>3 DEF Next, Progress, Close, Free, Elsewhere, vars, callVars

\* What memory answered, memory holds.
MemoryOK ==
    (exchange # NoExchange /\ kind = "memory") =>
        /\ exchange.response # Awaited
        /\ exchange.what = "get" =>
            exchange.response.status = "2xx" \/ exchange.response.held = <<>>

LEMMA MemoryStep ==
  ASSUME TypeOK, MemoryOK, [Next]_vars
  PROVE  MemoryOK'
<1> USE DEF MemoryOK
<1>1. ASSUME NEW t \in Thread, Reads(t) PROVE MemoryOK'
  BY <1>1 DEF Reads, SendGet, Request, FromMemory, Awaited, NoExchange
<1>2. ASSUME NEW t \in Thread, Posts(t) PROVE MemoryOK'
  BY <1>2 DEF Posts, SendPost, Request, FromMemory, Awaited, NoExchange
<1>3. ASSUME NEW t \in Thread, HearsLog(t) \/ HearsTaken(t) \/ GivesUp(t) PROVE MemoryOK'
  BY <1>3 DEF HearsLog, HearsTaken, GivesUp, Hears, TimesOut
<1>4. CASE Elsewhere
  BY <1>4
  DEF Elsewhere, OtherEnd, ServesGet, ServesPost, ServesNeither, ServesLate, OthersPublish,
      Waiting
<1>5. CASE UNCHANGED <<exchange, kind>>
  BY <1>5
<1> QED
  BY <1>1, <1>2, <1>3, <1>4, <1>5
  DEF Next, Progress, Runs, Call, NotEntered, Enters, Renders, StringFree, RunRefused,
      RunAccounts, RunTakes, RunImportsHeld, RunExport, RunUnlock, RunForget, RunObserves,
      RunStages, PostsNothing, Collects, RunPanics, Close, Free, vars, storeVars

LEMMA MemoryInvariant == Spec => []MemoryOK
<1>1. Init => MemoryOK
  BY DEF Init, StoreInit, MemoryOK
<1> QED
  BY <1>1, TypeCorrect, MemoryStep, PTL DEF Spec

\* A read that goes through shows everything the store held as it answered, but
\* for a 404 that gives a reason, which is believed of an account nothing was
\* seen of (ChatStore::fetch).
THEOREM ReadsWhole == Spec => ReadShowsTheStore
<1> DEFINE Shown == \A t \in Thread :
              (/\ at[t] = "reading"
               /\ at'[t] = "read" \/ (at'[t] = "answered" /\ got'[t] = "ok")) =>
                  \/ IsPrefix(exchange.response.held, seen'[ask.addr])
                  \/ /\ exchange.response.status = "404" /\ exchange.response.told
                     /\ seen[ask.addr] = <<>> /\ kind = "chat"
<1>1. ASSUME StoreInv, MemoryOK, [Next]_vars PROVE Shown
  <2> SUFFICES ASSUME NEW t \in Thread, at[t] = "reading",
                      at'[t] = "read" \/ (at'[t] = "answered" /\ got'[t] = "ok")
               PROVE  \/ IsPrefix(exchange.response.held, seen'[ask.addr])
                      \/ /\ exchange.response.status = "404" /\ exchange.response.told
                         /\ seen[ask.addr] = <<>> /\ kind = "chat"
    OBVIOUS
  <2> USE <1>1
  <2>1. Runs(t)
    BY OwnStep DEF StoreInv, Phases
  <2>2. HearsLog(t)
    BY <2>1
    DEF Runs, RunRefused, RunAccounts, RunTakes, RunImportsHeld, RunExport, RunUnlock,
        RunForget, RunObserves, RunStages, Reads, PostsNothing, Posts, HearsTaken,
        Collects, GivesUp, RunPanics, Inside, Returns, StoreInv, TypeOK, CallTypeOK,
        ExchangeOK
  <2>3. exchange # NoExchange /\ exchange.response \in Response /\ exchange.what = "get"
        /\ exchange.response # Awaited /\ ask.addr \in Addr
    BY <2>2, RequestTyped, AskTyped DEF HearsLog, Hears, Answered, StoreInv, TypeOK
  <2>4. /\ SaysNone(exchange.response) \/ SaysLog(exchange.response)
        /\ seen'[ask.addr] = Fetched(exchange.response)
        /\ IsPrefix(seen[ask.addr], Fetched(exchange.response))
    BY <2>2, <2>3
    DEF HearsLog, Returns, StoreInv, TypeOK, CallTypeOK, CoreTypeOK
  <2>5. exchange.response.held \in Log /\ seen[ask.addr] \in Log
    BY <2>3 DEF Response, StoreInv, TypeOK, CoreTypeOK
  <2>6. CASE Fetched(exchange.response) = exchange.response.held
    BY <2>4, <2>5, <2>6, PrefixReflexive
  <2>7. CASE SaysNone(exchange.response) /\ exchange.response.held # <<>>
    <3>1. Fetched(exchange.response) = <<>>
      BY <2>7 DEF Fetched
    <3>2. seen[ask.addr] = <<>>
      BY <2>4, <2>5, <3>1, OnlyEmptyPrefix
    <3>3. kind = "chat"
      BY <2>3, <2>7, <1>1 DEF MemoryOK, SaysNone, StoreInv, TypeOK, StoreTypeOK
    <3> QED
      BY <2>7, <3>2, <3>3 DEF SaysNone
  <2> QED
    BY <2>6, <2>7 DEF Fetched
<1>2. StoreInv /\ MemoryOK /\ [Next]_vars => [Shown]_vars
  BY <1>1
<1> QED
  BY <1>2, StoreInvariant, MemoryInvariant, PTL DEF Spec, ReadShowsTheStore

\* A write that landed is shown as landed, whether or not the store answers a
\* read after it (ReadBack).
THEOREM WritesShown == Spec => PublishedIsShown
<1> DEFINE Shown == \A t \in Thread :
              (at[t] = "collecting" /\ at'[t] = "answered") =>
                  poisoned' \/ (got'[t] = "ok"
                                /\ IsPrefix(seen[ask.addr], seen'[ask.addr])
                                /\ seen'[ask.addr] # seen[ask.addr])
<1>1. ASSUME StoreInv, [Next]_vars PROVE Shown
  <2> SUFFICES ASSUME NEW t \in Thread, at[t] = "collecting", at'[t] = "answered", ~poisoned'
               PROVE  /\ got'[t] = "ok"
                      /\ IsPrefix(seen[ask.addr], seen'[ask.addr])
                      /\ seen'[ask.addr] # seen[ask.addr]
    OBVIOUS
  <2> USE <1>1
  <2>1. Runs(t)
    BY OwnStep DEF StoreInv, Phases
  <2>2. Collects(t)
    BY <2>1
    DEF Runs, RunRefused, RunAccounts, RunTakes, RunImportsHeld, RunExport, RunUnlock,
        RunForget, RunObserves, RunStages, Reads, HearsLog, PostsNothing, Posts,
        HearsTaken, GivesUp, RunPanics, Inside
  <2>3. ask.addr \in Addr /\ written.log = Append(seen[ask.addr], "us")
    BY <2>2, AskTyped DEF Collects, StoreInv, TypeOK, HeardOK
  <2>4. seen'[ask.addr] = Append(seen[ask.addr], "us") /\ got'[t] = "ok"
    BY <2>2, <2>3 DEF Collects, Returns, StoreInv, TypeOK, CallTypeOK, CoreTypeOK
  <2> QED
    BY <2>3, <2>4, PrefixOfAppend DEF StoreInv, TypeOK, CoreTypeOK, Author
<1>2. StoreInv /\ [Next]_vars => [Shown]_vars
  BY <1>1
<1> QED
  BY <1>2, StoreInvariant, PTL DEF Spec, PublishedIsShown

=============================================================================
