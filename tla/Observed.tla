------------------------------ MODULE Observed ------------------------------
(***************************************************************************)
(* The list of observed accounts (rust-core/src/observed.rs): one file     *)
(* that every process running the app over the directory reads, changes in *)
(* memory and writes whole, through a staged file they share and without a *)
(* lock.  Paths are looked up at each step, and a process that has opened  *)
(* a file goes on writing to it once it is renamed.                        *)
(***************************************************************************)
EXTENDS Integers, FiniteSets

CONSTANTS
    Proc,  \* processes with this directory
    Addr   \* accounts

VARIABLES
    list,    \* observed.json
    staged,  \* .observed.json.new
    pc,      \* where each process is in its call
    next     \* next[p]: the list p is about to write

vars == <<list, staged, pc, next>>

\* mixed: a process opened it while another was still writing to it.
File   == [whole : BOOLEAN, mixed : BOOLEAN, addresses : SUBSET Addr,
           writers : SUBSET Proc]
NoFile == [whole |-> TRUE, addresses |-> {}]

\* No file is no accounts.
Init ==
    /\ list = NoFile
    /\ staged = NoFile
    /\ pc = [p \in Proc |-> "idle"]
    /\ next = [p \in Proc |-> {}]

At(p, place)   == pc[p] = place
Goto(p, place) == pc' = [pc EXCEPT ![p] = place]

\* A list that cannot be parsed fails every call: only a whole one is read.
Start(p, changed) ==
    /\ At(p, "idle")
    /\ list.whole
    /\ changed # list.addresses
    /\ next' = [next EXCEPT ![p] = changed]
    /\ Goto(p, "open")
    /\ UNCHANGED <<list, staged>>

Add(p, a)    == Start(p, list.addresses \cup {a})
Remove(p, a) == Start(p, list.addresses \ {a})

Opened(p, f) ==
    LET others == IF f = NoFile THEN {} ELSE f.writers
    IN  [whole |-> FALSE, mixed |-> others # {}, addresses |-> {},
         writers |-> others \cup {p}]

\* Fault: the list is written under its own name.
OpenInPlace(p) ==
    /\ At(p, "open")
    /\ list' = Opened(p, list)
    /\ Goto(p, "write")
    /\ UNCHANGED <<staged, next>>

\* The staged file is opened empty, over one that is already there.
OpenStaged(p) ==
    /\ At(p, "open")
    /\ staged' = Opened(p, staged)
    /\ Goto(p, "write")
    /\ UNCHANGED <<list, next>>

\* f once p has written all of its list to it: a file nobody else was writing
\* to is whole, and of another it is not known.
Written(p, f) ==
    IF f # NoFile /\ p \in f.writers
    THEN {[f EXCEPT !.whole = w, !.addresses = next[p], !.writers = @ \ {p}] :
            w \in IF f.mixed \/ f.writers # {p} THEN BOOLEAN ELSE {TRUE}}
    ELSE {f}

WriteStaged(p) ==
    /\ At(p, "write")
    /\ list' \in Written(p, list)
    /\ staged' \in Written(p, staged)
    /\ Goto(p, "rename")
    /\ UNCHANGED next

\* Renamed by path, whoever wrote it; with nothing there the call fails.
Rename(p) ==
    /\ At(p, "rename")
    /\ IF staged = NoFile THEN UNCHANGED list ELSE list' = staged
    /\ staged' = NoFile
    /\ Goto(p, "idle")
    /\ UNCHANGED next

Abandoned(p, f) ==
    IF f = NoFile THEN f ELSE [f EXCEPT !.writers = @ \ {p}]

\* The process is gone, or the system fails its call on a file: either way the
\* staged file is left as it is.
Crash(p) ==
    /\ ~At(p, "idle")
    /\ list' = Abandoned(p, list)
    /\ staged' = Abandoned(p, staged)
    /\ Goto(p, "idle")
    /\ UNCHANGED next

Next ==
    \E p \in Proc :
        \/ \E a \in Addr : Add(p, a) \/ Remove(p, a)
        \/ OpenStaged(p) \/ WriteStaged(p) \/ Rename(p)
        \/ Crash(p)

Spec == Init /\ [][Next]_vars

-----------------------------------------------------------------------------
(* Properties.                                                             *)

\* "A reader sees one list or the previous one and never half of either" (the
\* module's header): what is under the list's name is always a whole list.
NeverHalfAList == list.whole
=============================================================================
