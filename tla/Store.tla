------------------------------- MODULE Store --------------------------------
(***************************************************************************)
(* The store as the core reaches it (rust-core/src/store.rs, and the       *)
(* providers of rust-core/src/manager.rs in front of it): chat-store over  *)
(* HTTP, or this process's own memory.  The core makes one request at a    *)
(* time; whoever is behind its URL may not be chat-store at all.           *)
(*                                                                         *)
(* A log is a sequence of entries told apart by who wrote them.  A GET     *)
(* that is redirected is followed, so its answer is the last server's.     *)
(* The one thing taken on trust is that a success answering a POST comes   *)
(* from the route it was posted to.                                        *)
(***************************************************************************)
EXTENDS Integers, FiniteSets, Sequences, SequencesExt

CONSTANTS
    Addr,    \* accounts
    MaxLog,  \* bound: the entries others leave room for in a log
    MaxLate  \* bound: how many posts given up on may still arrive

ASSUME StoreAssumption == MaxLog \in Nat /\ MaxLate \in Nat

VARIABLES
    kind,      \* the store the app was pointed at
    served,    \* served[a]: the log it holds, <<>> when it holds none
    exchange,  \* the request that waits for a response, or NoExchange
    late,      \* posts given up on that the service may still be handed
    written    \* Written: the log a publish wrote, until it is read back

storeVars == <<kind, served, exchange, late, written>>

Author == {"us", "others"}
Log    == Seq(Author)

\* told: the body is JSON with an error in it, as chat-store's are, whoever
\* wrote it.  whole: the body is a whole artifact, no longer than one can be.
\* held: what the store held as it answered.
Response ==
    [status : {"2xx", "3xx", "404", "409", "5xx"}, told : BOOLEAN,
     whole : BOOLEAN, held : Log]

Awaited    == [status |-> "awaited"]
NoExchange == [what |-> "none"]
NothingWritten == [addr |-> "none"]

StoreInit ==
    /\ kind \in {"chat", "memory"}
    /\ served = [a \in Addr |-> <<>>]
    /\ exchange = NoExchange
    /\ late = {}
    /\ written = NothingWritten

Responds(status, told, whole) ==
    [status |-> status, told |-> told, whole |-> whole,
     held |-> served[exchange.addr]]

-----------------------------------------------------------------------------
(* What the core makes of a response.                                      *)

\* Fault: whoever answers 404, the account has published nothing.
SaysNoneAnyway(r) == r.status = "404"

\* A 404 with no reason in it is a server with no such route.  Whose reason
\* it is, nobody asks.
SaysNone(r) == r.status = "404" /\ r.told

SaysLog(r) == r.status = "2xx" /\ r.whole

\* Fault: a redirected post is sent again as a GET, which is answered.
SaysTakenFollowing(r) == r.status \in {"2xx", "3xx"}

SaysTaken(r) == r.status = "2xx"

\* What a fetch hands over: the log, or none as an empty one.
Fetched(r) == IF SaysNone(r) THEN <<>> ELSE r.held

-----------------------------------------------------------------------------
(* Requests.                                                               *)

Request(what, a, log, response) ==
    [what |-> what, addr |-> a, log |-> log, response |-> response]

\* Memory answers at once.
FromMemory(status, a) ==
    [status |-> status, told |-> TRUE, whole |-> TRUE, held |-> served[a]]

SendGet(a) ==
    /\ exchange = NoExchange
    /\ exchange' = Request("get", a, <<>>,
            IF kind = "chat" THEN Awaited
            ELSE FromMemory(IF served[a] = <<>> THEN "404" ELSE "2xx", a))
    /\ UNCHANGED <<kind, served, late, written>>

\* The store takes log where it extends the one it holds.
Takes(a, log) ==
    IF IsPrefix(served[a], log) THEN [served EXCEPT ![a] = log] ELSE served

SendPost(a, log) ==
    /\ exchange = NoExchange
    /\ served' = IF kind = "memory" THEN Takes(a, log) ELSE served
    /\ exchange' = Request("post", a, log,
            IF kind = "chat" THEN Awaited
            ELSE FromMemory(IF IsPrefix(served[a], log) THEN "2xx" ELSE "409", a))
    /\ UNCHANGED <<kind, late, written>>

Waiting(what) ==
    exchange # NoExchange /\ exchange.what = what /\ exchange.response = Awaited
Answered(what) ==
    exchange # NoExchange /\ exchange.what = what /\ exchange.response # Awaited

\* The caller hears the response.
Hears(what) == Answered(what) /\ exchange' = NoExchange

\* Fault: a request waits for as long as it takes.
TimesOutNever == FALSE /\ UNCHANGED <<exchange, late>>

\* No response, or not all of one, within the timeout.  What was sent may
\* still be served.
TimesOut ==
    /\ exchange # NoExchange /\ kind = "chat"
    /\ exchange' = NoExchange
    /\ late' = IF Waiting("post") /\ Cardinality(late) < MaxLate
               THEN late \cup {[addr |-> exchange.addr, log |-> exchange.log]}
               ELSE late

-----------------------------------------------------------------------------
(* The other end.                                                          *)

Answers(r) == exchange' = [exchange EXCEPT !.response = r]

ServesGet ==
    /\ Waiting("get")
    /\ Answers(IF served[exchange.addr] = <<>> THEN Responds("404", TRUE, TRUE)
               ELSE Responds("2xx", TRUE, TRUE))
    /\ UNCHANGED <<kind, served, late, written>>

ServesPost ==
    /\ Waiting("post")
    /\ served' = Takes(exchange.addr, exchange.log)
    /\ Answers(Responds(IF IsPrefix(served[exchange.addr], exchange.log)
                        THEN "2xx" ELSE "409", TRUE, TRUE))
    /\ UNCHANGED <<kind, late, written>>

\* An error of the service's, another server's page or its own JSON, half of
\* a log.
ServesNeither ==
    /\ Waiting("get") \/ Waiting("post")
    /\ \/ Answers(Responds("5xx", TRUE, TRUE))
       \/ \E told \in BOOLEAN : Answers(Responds("404", told, TRUE))
       \/ Waiting("get") /\ Answers(Responds("2xx", FALSE, FALSE))
       \/ Waiting("post") /\ Answers(Responds("3xx", FALSE, TRUE))
    /\ UNCHANGED <<kind, served, late, written>>

ServesLate(m) ==
    /\ m \in late
    /\ late' = late \ {m}
    /\ served' \in {served, Takes(m.addr, m.log)}
    /\ UNCHANGED <<kind, exchange, written>>

OthersPublish(a) ==
    /\ kind = "chat"
    /\ Len(served[a]) < MaxLog
    /\ served' = [served EXCEPT ![a] = Append(@, "others")]
    /\ UNCHANGED <<kind, exchange, late, written>>

OtherEnd ==
    \/ ServesGet \/ ServesPost \/ ServesNeither
    \/ \E m \in late : ServesLate(m)
    \/ \E a \in Addr : OthersPublish(a)

-----------------------------------------------------------------------------
(* Properties.                                                             *)

Post == [addr : Addr, log : Log]

StoreTypeOK ==
    /\ kind \in {"chat", "memory"}
    /\ served \in [Addr -> Log]
    /\ exchange \in {NoExchange} \cup
           [what : {"get", "post"}, addr : Addr, log : Log,
            response : Response \cup {Awaited}]
    /\ late \subseteq Post
    /\ written \in Post \cup {NothingWritten}
=============================================================================
