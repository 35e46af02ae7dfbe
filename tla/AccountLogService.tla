-------------------------- MODULE AccountLogService -------------------------
(***************************************************************************)
(* What every account's log promises whoever reads it, whatever apps,      *)
(* devices and late requests write to it: it only ever grows, one whole    *)
(* update at a time, every entry is one the log may hold after those       *)
(* before it, and it stays within its byte budget.                         *)
(***************************************************************************)
EXTENDS AccountLog

CONSTANT Addr

VARIABLE log

Init == log = [a \in Addr |-> <<>>]

Update(a) ==
    /\ Extends(log'[a], log[a])
    /\ WellFormed(log'[a])
    /\ Size(log'[a]) <= Budget
    /\ \A b \in Addr \ {a} : log'[b] = log[b]

Spec == Init /\ [][\E a \in Addr : Update(a)]_log
=============================================================================
