----------------------------- MODULE AccountLog -----------------------------
(***************************************************************************)
(* The signed account log: an append-only sequence of entries, as the core *)
(* reads it (rust-core/src/manager.rs).  The log format and its draft live *)
(* in the `account-log` crate, outside this repository; what is said of    *)
(* them here is what manager.rs relies on.  Entries are numbered from 0,   *)
(* as the code numbers them: entry i of the log is log[i + 1].             *)
(***************************************************************************)
EXTENDS Integers, FiniteSets, Sequences, SequencesExt

CONSTANTS
    Key,        \* installation keys
    Name,       \* display names, already trimmed and accepted
    Budget,     \* the bytes a log may ever hold (MAX_PAYLOAD_BYTES)
    KeyCost,    \* what endorsing a key costs (EntryCosts.installation)
    NameCost,   \* what a name costs (EntryCosts.display_name and its text)
    RemoveCost  \* what a removal costs (EntryCosts.remove)

ASSUME BudgetAssumption ==
    Budget \in Nat /\ {KeyCost, NameCost, RemoveCost} \subseteq Nat \ {0}

\* An endorsement is under the installation-signer context or under another
\* one; this app writes only the first and must read both.
Endorsement(k) == [op |-> "key", key |-> k, signer |-> TRUE]
Naming(n)      == [op |-> "name", name |-> n]
Removal(i)     == [op |-> "remove", index |-> i]

\* An entry another build wrote, under an opcode this build cannot read.
Unknown == [op |-> "unknown"]

Entry ==
    [op : {"key"}, key : Key, signer : BOOLEAN]
        \cup [op : {"name"}, name : Name]
        \cup [op : {"remove"}, index : Nat]
        \cup {Unknown}

Indices(log) == 0 .. Len(log) - 1

\* The entries an account stands by: added, and not removed since.
Live(log) ==
    {i \in Indices(log) :
        /\ log[i + 1].op \in {"key", "name"}
        /\ \A j \in Indices(log) : j > i => log[j + 1] # Removal(i)}

\* Every key in force, under any context.
LiveKeys(log) ==
    {log[i + 1].key : i \in {j \in Live(log) : log[j + 1].op = "key"}}

LiveNameIndices(log) == {i \in Live(log) : log[i + 1].op = "name"}

\* Whether n is the name in force: the highest-indexed live one.
InForce(n, log) ==
    \E i \in LiveNameIndices(log) :
        /\ log[i + 1] = Naming(n)
        /\ \A j \in LiveNameIndices(log) : j <= i

\* A log holding an opcode this build does not know can be shown but not
\* extended: signing it again would sign what cannot be read.
Readable(log) == \A i \in DOMAIN log : log[i] # Unknown

CountOf(op, log) == Cardinality({i \in DOMAIN log : log[i].op = op})

\* What the log has spent of its budget.  An unknown entry is charged as a
\* removal, the smallest an entry can be.
Size(log) ==
      KeyCost * CountOf("key", log)
    + NameCost * CountOf("name", log)
    + RemoveCost * (CountOf("remove", log) + CountOf("unknown", log))

\* What the draft takes as its next entry: a removal of a live entry, a key
\* not live under any context, any name.
CanPush(log, entry) ==
    CASE entry.op = "remove"  -> entry.index \in Live(log)
      [] entry.op = "key"     -> entry.key \notin LiveKeys(log)
      [] OTHER                -> TRUE

\* Every entry of plan is taken, each on top of those before it.
CanPushAll(log, plan) ==
    \A n \in 1 .. Len(plan) : CanPush(log \o SubSeq(plan, 1, n - 1), plan[n])

WellFormed(log) == CanPushAll(<<>>, log)

\* candidate is log with entries appended, or log itself: payload bytes that
\* start with the payload held.
Extends(candidate, log) == IsPrefix(log, candidate)
=============================================================================
