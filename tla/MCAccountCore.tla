---------------------------- MODULE MCAccountCore ---------------------------
(***************************************************************************)
(* AccountCore on instances TLC can exhaust: model values for accounts,    *)
(* keys and names, which are interchangeable, and a budget counted in      *)
(* entries, which bounds every log and with it the whole state space.      *)
(***************************************************************************)
EXTENDS AccountCore

Symmetry == Permutations(Addr) \cup Permutations(Key) \cup Permutations(Name)

\* For the runs about staging and publishing: every account is in the vault
\* without a password and stays there, and no read fails, which would change
\* nothing but `problem`.
PublishingInit ==
    /\ store = [a \in Addr |-> <<>>]
    /\ versions = [a \in Addr |-> {<<>>}]
    /\ vault = [a \in Addr |-> "open"]
    /\ observed = {} /\ unlocked = {}
    /\ record = [a \in Addr |-> <<>>]
    /\ answered = [a \in Addr |-> FALSE]
    /\ problem = [a \in Addr |-> "none"]
    /\ staged = [a \in Addr |-> {}]
    /\ dropped = [a \in Addr |-> 0]
    /\ post = NoPost
    /\ wire = {}

PublishingNext ==
    \/ \E a \in Addr :
        \/ Staging(a) \/ Others(a)
        \/ \E log \in Adoptable(a) :
            \/ Refresh(a, log) \/ PublishNotNeeded(a, log)
            \/ PublishRefused(a, log) \/ PublishSends(a, log)
    \/ PublishSucceeds \/ PublishDiverges \/ PublishFails
    \/ StoreServes
    \/ \E m \in wire : StoreServesLate(m) \/ RequestLost(m)

PublishingSpec == PublishingInit /\ [][PublishingNext]_vars
=============================================================================
