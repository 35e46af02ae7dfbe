-------------------------- MODULE AccountCoreProofs -------------------------
(***************************************************************************)
(* Theorems about AccountCore for any accounts, keys, names and budget.    *)
(***************************************************************************)
EXTENDS AccountCore, SequenceTheorems, FiniteSetTheorems, TLAPS

-----------------------------------------------------------------------------
(* Logs: what "extends" means, entry by entry.                             *)

\* A log extends another when it is no shorter and agrees with it wherever
\* both have an entry.
LEMMA ExtendsPointwise ==
  ASSUME NEW c \in Logs, NEW l \in Logs
  PROVE  Extends(c, l) <=> Len(l) <= Len(c) /\ \A i \in 1 .. Len(l) : c[i] = l[i]
<1>1. ASSUME Len(l) <= Len(c)
      PROVE  SubSeq(l, 1, Len(l)) = SubSeq(c, 1, Len(l)) <=>
             \A i \in 1 .. Len(l) : c[i] = l[i]
  BY <1>1 DEF Logs
<1> QED
  BY <1>1 DEF Extends, IsPrefix, Logs

LEMMA ExtendsReflexive ==
  ASSUME NEW l \in Logs
  PROVE  Extends(l, l)
  BY ExtendsPointwise DEF Logs

LEMMA ExtendsTransitive ==
  ASSUME NEW c \in Logs, NEW l \in Logs, NEW m \in Logs,
         Extends(c, l), Extends(l, m)
  PROVE  Extends(c, m)
<1>1. Len(l) <= Len(c) /\ \A i \in 1 .. Len(l) : c[i] = l[i]
  BY ExtendsPointwise
<1>2. Len(m) <= Len(l) /\ \A i \in 1 .. Len(m) : l[i] = m[i]
  BY ExtendsPointwise
<1>3. Len(m) <= Len(c) /\ \A i \in 1 .. Len(m) : c[i] = m[i]
  BY <1>1, <1>2 DEF Logs
<1> QED
  BY <1>3, ExtendsPointwise

LEMMA ConcatExtends ==
  ASSUME NEW l \in Logs, NEW p \in Logs
  PROVE  /\ l \o p \in Logs
         /\ Extends(l \o p, l)
         /\ Len(l \o p) = Len(l) + Len(p)
         /\ \A n \in 1 .. Len(p) : (l \o p)[Len(l) + n] = p[n]
<1>1. /\ l \o p \in Logs
      /\ Len(l \o p) = Len(l) + Len(p)
      /\ \A i \in 1 .. Len(l) + Len(p) :
            (l \o p)[i] = IF i <= Len(l) THEN l[i] ELSE p[i - Len(l)]
  BY ConcatProperties DEF Logs
<1>2. Len(l) \in Nat /\ Len(p) \in Nat
  BY DEF Logs
<1>3. Extends(l \o p, l)
  <2> DEFINE m == l \o p
  <2>1. Len(l) <= Len(l) + Len(p) /\ 1 .. Len(l) \subseteq 1 .. Len(l) + Len(p)
    BY <1>2
  <2>2. m \in Logs /\ Len(l) <= Len(m) /\ \A i \in 1 .. Len(l) : m[i] = l[i]
    BY <1>1, <1>2, <2>1
  <2> HIDE DEF m
  <2>3. Extends(m, l)
    BY <2>2, ExtendsPointwise
  <2> QED
    BY <2>3 DEF m
<1>4. ASSUME NEW n \in 1 .. Len(p)
      PROVE  (l \o p)[Len(l) + n] = p[n]
  <2>1. /\ Len(l) + n \in 1 .. Len(l) + Len(p)
        /\ ~(Len(l) + n <= Len(l))
        /\ (Len(l) + n) - Len(l) = n
    BY <1>2
  <2> HIDE DEF Logs
  <2> QED
    BY <1>1, <2>1
<1> QED
  BY <1>1, <1>3, <1>4

LEMMA AppendExtends ==
  ASSUME NEW l \in Logs, NEW e \in Entry
  PROVE  Append(l, e) \in Logs /\ Extends(Append(l, e), l)
<1>1. /\ Append(l, e) \in Logs
      /\ Len(Append(l, e)) = Len(l) + 1
      /\ \A i \in 1 .. Len(l) : Append(l, e)[i] = l[i]
  BY AppendProperties DEF Logs
<1>2. Len(l) \in Nat
  BY DEF Logs
<1> DEFINE m == Append(l, e)
<1>3. m \in Logs /\ Len(l) <= Len(m) /\ \A i \in 1 .. Len(l) : m[i] = l[i]
  BY <1>1, <1>2
<1> HIDE DEF m
<1>4. Extends(m, l)
  BY <1>3, ExtendsPointwise
<1> QED
  BY <1>3, <1>4 DEF m

-----------------------------------------------------------------------------
(* Plans: an update planned from finitely many edits is a log's worth of   *)
(* entries.                                                                *)

LEMMA EntryOfEdit ==
  ASSUME NEW e \in Edit
  PROVE  EntryOf(e) \in Entry
<1>1. CASE e \in [edit : {"add"}, key : Key]
  <2>1. EntryOf(e) = Endorsement(e.key)
    BY <1>1 DEF EntryOf
  <2>2. Endorsement(e.key) \in [op : {"key"}, key : Key, signer : BOOLEAN]
    BY <1>1 DEF Endorsement
  <2> QED
    BY <2>1, <2>2 DEF Entry
<1>2. CASE e \in [edit : {"rename"}, name : Name]
  BY <1>2 DEF EntryOf, Entry, Naming
<1>3. CASE e \in [edit : {"revoke"}, index : Nat]
  BY <1>3 DEF EntryOf, Entry, Removal
<1> QED
  BY <1>1, <1>2, <1>3 DEF Edit

LEMMA SetToSeqsSeq ==
  ASSUME NEW S \in SUBSET Edit, IsFiniteSet(S), NEW s \in SetToSeqs(S)
  PROVE  s \in Seq(Edit)
<1>1. Cardinality(S) \in Nat
  BY FS_CardinalityType
<1>2. s \in [1 .. Cardinality(S) -> S]
  BY DEF SetToSeqs
<1> QED
  BY <1>1, <1>2

LEMMA PlansAreLogs ==
  ASSUME NEW S \in SUBSET Edit, IsFiniteSet(S), NEW plan \in Plans(S)
  PROVE  plan \in Logs
<1> DEFINE R == {e \in S : e.edit = "revoke"}
<1>1. PICK r \in SetToSeqs(R), w \in SetToSeqs(S \ R) :
        plan = [n \in DOMAIN (r \o w) |-> EntryOf((r \o w)[n])]
  BY DEF Plans
<1>2. IsFiniteSet(R) /\ IsFiniteSet(S \ R) /\ R \in SUBSET Edit /\ S \ R \in SUBSET Edit
  BY FS_Subset
<1> HIDE DEF R
<1>3. r \in Seq(Edit) /\ w \in Seq(Edit)
  BY <1>2, SetToSeqsSeq
<1>4. r \o w \in Seq(Edit)
  BY <1>3
<1> DEFINE s == r \o w
<1>5. s \in Seq(Edit) /\ plan = [n \in DOMAIN s |-> EntryOf(s[n])]
  BY <1>1, <1>4
<1> HIDE DEF s
<1>6. Len(s) \in Nat /\ DOMAIN s = 1 .. Len(s) /\ \A n \in 1 .. Len(s) : s[n] \in Edit
  BY <1>5
<1>7. \A n \in 1 .. Len(s) : EntryOf(s[n]) \in Entry
  BY <1>6, EntryOfEdit
<1>8. plan \in [1 .. Len(s) -> Entry]
  BY <1>5, <1>6, <1>7
<1> QED
  BY <1>6, <1>8 DEF Logs

-----------------------------------------------------------------------------
(* Steps.                                                                  *)

\* A step is one operation of the core, one turn of the store, or someone
\* else's.
LEMMA StepCases ==
  ASSUME Next
  PROVE  \/ \E a \in Addr : Accounts(a)
         \/ \E a \in Addr : RefreshFails(a) \/ PublishReadFails(a)
         \/ \E a \in Addr : \E log \in Adoptable(a) : Refresh(a, log)
         \/ \E a \in Addr : Staging(a)
         \/ \E a \in Addr : \E log \in Adoptable(a) : PublishNotNeeded(a, log)
         \/ \E a \in Addr : \E log \in Adoptable(a) : PublishRefused(a, log)
         \/ \E a \in Addr : \E log \in Adoptable(a) : PublishSends(a, log)
         \/ PublishSucceeds \/ PublishDiverges \/ PublishFails
         \/ StoreServes
         \/ \E m \in wire : StoreServesLate(m) \/ RequestLost(m)
         \/ \E a \in Addr : \E entry \in OtherEntries(a) : OtherDevicePublishes(a, entry)
         \/ \E a \in Addr : OtherInstanceWrites(a)
<1>1. CASE \E a \in Addr : Accounts(a)
  BY <1>1
<1>2. CASE \E a \in Addr : Reading(a)
  BY <1>2 DEF Reading
<1>3. CASE \E a \in Addr : Staging(a)
  BY <1>3
<1>4. CASE \E a \in Addr : Publishing(a)
  BY <1>4 DEF Publishing
<1>5. CASE \E a \in Addr : Others(a)
  BY <1>5 DEF Others
<1> QED
  BY <1>1, <1>2, <1>3, <1>4, <1>5 DEF Next

\* Settling keeps some of what was staged, and counts the rest.
LEMMA SettledStaged ==
  ASSUME NEW S \in SUBSET Edit, IsFiniteSet(S), NEW log
  PROVE  /\ Settled(S, log) \in SUBSET Edit
         /\ IsFiniteSet(Settled(S, log))
         /\ Settled(S, log) \subseteq S
         /\ Cardinality(S \ Settled(S, log)) \in Nat
<1>1. Settled(S, log) \subseteq S
  BY DEF Settled
<1>2. IsFiniteSet(Settled(S, log)) /\ IsFiniteSet(S \ Settled(S, log))
  BY <1>1, FS_Subset
<1> QED
  BY <1>1, <1>2, FS_CardinalityType

\* What stays typed when one account's staged edits are replaced.
LEMMA StagedUpdate ==
  ASSUME TypeOK, NEW a \in Addr, NEW S \in SUBSET Edit, IsFiniteSet(S),
         staged' = [staged EXCEPT ![a] = S]
  PROVE  staged' \in [Addr -> SUBSET Edit] /\ \A b \in Addr : IsFiniteSet(staged'[b])
  BY DEF TypeOK

\* A log the resolver adopts is one the store has held.
LEMMA AdoptableLog ==
  ASSUME TypeOK, NEW a \in Addr, NEW log \in Adoptable(a)
  PROVE  log \in Logs /\ log \in versions[a] /\ Extends(log, record[a])
  BY DEF TypeOK, Adoptable

\* What Staging does, whichever edit it is about.
LEMMA StagingEffect ==
  ASSUME TypeOK, NEW a \in Addr, Staging(a)
  PROVE  /\ Idle
         /\ UNCHANGED <<disk, unlocked, read, dropped, post, remote>>
         /\ \E S \in SUBSET Edit : IsFiniteSet(S) /\ staged' = [staged EXCEPT ![a] = S]
<1>0. staged[a] \in SUBSET Edit /\ IsFiniteSet(staged[a])
  BY DEF TypeOK
<1>1. CASE \E k \in Key : StageAddInstallation(a, k)
  <2>1. PICK k \in Key : StageAddInstallation(a, k)
    BY <1>1
  <2> DEFINE S == staged[a] \cup {AddInstallation(k)}
  <2>2. S \in SUBSET Edit
    BY <1>0 DEF AddInstallation, Edit
  <2>3. IsFiniteSet(S)
    BY <1>0, FS_AddElement
  <2> QED
    BY <2>1, <2>2, <2>3 DEF StageAddInstallation, Restage
<1>2. CASE \E n \in Name : StageSetDisplayName(a, n)
  <2>1. PICK n \in Name : StageSetDisplayName(a, n)
    BY <1>2
  <2> DEFINE others == staged[a] \ Renames
             S == others \cup {SetDisplayName(n)}
  <2>2. others \in SUBSET Edit /\ S \in SUBSET Edit
    BY <1>0 DEF SetDisplayName, Edit
  <2>3. IsFiniteSet(others)
    BY <1>0, FS_Subset
  <2>4. IsFiniteSet(S)
    <3> HIDE DEF others
    <3> QED
      BY <2>3, FS_AddElement
  <2> QED
    BY <2>1, <2>2, <2>3, <2>4 DEF StageSetDisplayName, Restage
<1>3. CASE \E i \in Live(Record(a)) : StageRevoke(a, i)
  <2>1. PICK i \in Live(Record(a)) : StageRevoke(a, i)
    BY <1>3
  <2> DEFINE S == staged[a] \cup {Revoke(i)}
  <2>2. i \in Nat
    <3>1. Record(a) \in Logs
      BY DEF TypeOK, Record, Logs
    <3> QED
      BY <3>1, <2>1 DEF Live, Indices, Logs
  <2>3. S \in SUBSET Edit
    BY <1>0, <2>2 DEF Revoke, Edit
  <2>4. IsFiniteSet(S)
    BY <1>0, FS_AddElement
  <2> QED
    BY <2>1, <2>3, <2>4 DEF StageRevoke, Restage
<1>4. CASE DiscardPending(a)
  BY <1>4, FS_EmptySet DEF DiscardPending
<1> QED
  BY <1>1, <1>2, <1>3, <1>4 DEF Staging

\* A post is one, and its fields are typed, whenever it has a fate to speak of.
LEMMA PostTyped ==
  ASSUME TypeOK, post # NoPost
  PROVE  post \in Post /\ post.addr \in Addr /\ post.log \in Logs
         /\ post.plan \in Logs /\ post.firstNew \in Nat
  BY DEF TypeOK, Post

LEMMA FatePost ==
  ASSUME post.fate \in {"sent", "taken", "refused"}
  PROVE  post # NoPost
  BY DEF NoPost

\* What a publish posts: the log it read and its plan, whole and in order.
LEMMA PublishSent ==
  ASSUME TypeOK, NEW a \in Addr, NEW log \in Adoptable(a), PublishSends(a, log)
  PROVE  \E plan \in Logs :
            /\ post' = [fate |-> "sent", addr |-> a, firstNew |-> Len(log),
                        plan |-> plan, log |-> log \o plan]
            /\ log \o plan \in Logs
            /\ Extends(log \o plan, log)
            /\ Len(log \o plan) = Len(log) + Len(plan)
            /\ \A n \in 1 .. Len(plan) : (log \o plan)[Len(log) + n] = plan[n]
<1>1. PICK plan \in Plans(Settled(staged[a], log)) :
         post' = [fate |-> "sent", addr |-> a, firstNew |-> Len(log),
                  plan |-> plan, log |-> log \o plan]
  BY DEF PublishSends, FirstNew
<1>2. plan \in Logs
  <2>1. staged[a] \in SUBSET Edit /\ IsFiniteSet(staged[a])
    BY DEF TypeOK
  <2>2. Settled(staged[a], log) \in SUBSET Edit /\ IsFiniteSet(Settled(staged[a], log))
    BY <2>1, SettledStaged
  <2> QED
    BY <2>2, PlansAreLogs
<1>3. log \in Logs
  BY AdoptableLog
<1> QED
  BY <1>1, <1>2, <1>3, ConcatExtends

\* What another device appends is an entry.
LEMMA OtherEntriesTyped ==
  ASSUME TypeOK, NEW a \in Addr, NEW entry \in OtherEntries(a)
  PROVE  entry \in Entry
<1>1. store[a] \in Logs
  BY DEF TypeOK
<1>2. \A i \in Live(store[a]) : i \in Nat
  BY <1>1 DEF Live, Indices, Logs
<1> QED
  BY <1>2 DEF OtherEntries, Entry, Naming, Removal

-----------------------------------------------------------------------------
(* Types.                                                                  *)

\* Every variable keeps its type, whatever the core, the store, the network
\* and the other devices do.
THEOREM TypeCorrect == Spec => []TypeOK
<1>1. Init => TypeOK
  BY FS_EmptySet DEF Init, TypeOK, Logs, Spellings, Problems
<1>2. TypeOK /\ [Next]_vars => TypeOK'
  <2> SUFFICES ASSUME TypeOK, Next PROVE TypeOK'
    BY DEF TypeOK, vars
  <2>1. ASSUME NEW a \in Addr, Accounts(a) PROVE TypeOK'
    <3> USE DEF disk, read, edits, remote
    <3>1. UNCHANGED <<record, post, remote>>
      BY <2>1 DEF Accounts, CreateAccount, ImportAccount, Unlock, ForgetAccount,
                  Observe, StopObserving
    <3>2. vault' \in [Addr -> Spellings] /\ observed' \subseteq Addr /\ unlocked' \subseteq Addr
      BY <2>1 DEF TypeOK, Spellings, Accounts, CreateAccount, ImportAccount, Unlock,
                  ForgetAccount, Observe, StopObserving
    <3>3. staged' \in [Addr -> SUBSET Edit] /\ \A b \in Addr : IsFiniteSet(staged'[b])
      <4>1. CASE UNCHANGED staged
        BY <4>1 DEF TypeOK
      <4>2. CASE staged' = [staged EXCEPT ![a] = {}]
        BY <4>2, StagedUpdate, FS_EmptySet
      <4> QED
        BY <2>1, <4>1, <4>2 DEF Accounts, CreateAccount, ImportAccount, Unlock,
                                ForgetAccount, Observe, StopObserving
    <3>4. /\ answered' \in [Addr -> BOOLEAN]
          /\ problem' \in [Addr -> Problems]
          /\ dropped' \in [Addr -> Nat]
      <4>1. \/ UNCHANGED <<answered, problem, dropped>>
            \/ /\ answered' = [answered EXCEPT ![a] = FALSE]
               /\ problem' = [problem EXCEPT ![a] = "none"]
               /\ dropped' = [dropped EXCEPT ![a] = 0]
        BY <2>1 DEF Accounts, CreateAccount, ImportAccount, Unlock, ForgetAccount,
                    Observe, StopObserving
      <4>2. CASE UNCHANGED <<answered, problem, dropped>>
        BY <4>2 DEF TypeOK
      <4>3. CASE /\ answered' = [answered EXCEPT ![a] = FALSE]
                 /\ problem' = [problem EXCEPT ![a] = "none"]
                 /\ dropped' = [dropped EXCEPT ![a] = 0]
        BY <4>3 DEF TypeOK, Problems
      <4> QED
        BY <4>1, <4>2, <4>3
    <3> QED
      BY <3>1, <3>2, <3>3, <3>4 DEF TypeOK
  <2>2. ASSUME NEW a \in Addr, RefreshFails(a) \/ PublishReadFails(a) PROVE TypeOK'
    <3>1. problem' \in [Addr -> Problems]
      BY <2>2 DEF RefreshFails, PublishReadFails, ReadFails, TypeOK, Problems
    <3>2. UNCHANGED <<disk, unlocked, record, answered, edits, remote, post>>
      BY <2>2 DEF RefreshFails, PublishReadFails, ReadFails
    <3> QED
      BY <3>1, <3>2 DEF TypeOK, disk, edits, remote
  <2>3. ASSUME NEW a \in Addr, NEW log \in Adoptable(a),
               \/ Refresh(a, log) \/ PublishNotNeeded(a, log)
               \/ PublishRefused(a, log) \/ PublishSends(a, log)
        PROVE  TypeOK'
    <3>1. log \in Logs
      BY AdoptableLog
    <3>2. ReadLands(a, log)
      BY <2>3 DEF Refresh, PublishNotNeeded, PublishRefused, PublishSends, PublishReads
    <3>3. record' \in [Addr -> Logs] /\ answered' \in [Addr -> BOOLEAN]
          /\ problem' \in [Addr -> Problems]
      BY <3>1, <3>2 DEF ReadLands, TypeOK, Problems
    <3>4. /\ Settled(staged[a], log) \in SUBSET Edit
          /\ IsFiniteSet(Settled(staged[a], log))
          /\ Drops(a, log) \in Nat
      BY SettledStaged DEF Drops, TypeOK
    <3>5. staged' = [staged EXCEPT ![a] = Settled(staged[a], log)]
      BY <2>3 DEF Refresh, PublishNotNeeded, PublishRefused, PublishSends, PublishReads
    <3>6. staged' \in [Addr -> SUBSET Edit] /\ \A b \in Addr : IsFiniteSet(staged'[b])
      BY <3>4, <3>5, StagedUpdate
    <3>7. dropped' \in [Addr -> Nat]
      <4>1. \/ dropped' = [dropped EXCEPT ![a] = 0]
            \/ dropped' = [dropped EXCEPT ![a] = Owed(a, log)]
        BY <2>3 DEF Refresh, PublishNotNeeded, PublishRefused, PublishSends, PublishReads
      <4>2. Owed(a, log) \in Nat
        BY <3>4 DEF Owed, TypeOK
      <4> QED
        BY <4>1, <4>2 DEF TypeOK
    <3>8. UNCHANGED <<disk, unlocked, remote>>
      BY <2>3 DEF Refresh, PublishNotNeeded, PublishRefused, PublishSends, PublishReads
    <3>9. post' \in Post \cup {NoPost}
      <4>1. CASE PublishSends(a, log)
        <5>1. PICK plan \in Logs :
                /\ post' = [fate |-> "sent", addr |-> a, firstNew |-> Len(log),
                            plan |-> plan, log |-> log \o plan]
                /\ log \o plan \in Logs
          BY <4>1, PublishSent
        <5>2. Len(log) \in Nat
          BY <3>1 DEF Logs
        <5> HIDE DEF Logs
        <5> QED
          BY <5>1, <5>2 DEF Post
      <4>2. CASE ~PublishSends(a, log)
        BY <4>2, <2>3 DEF Refresh, PublishNotNeeded, PublishRefused, TypeOK
      <4> QED
        BY <4>1, <4>2
    <3> QED
      BY <3>3, <3>6, <3>7, <3>8, <3>9 DEF TypeOK, disk, remote
  <2>4. ASSUME NEW a \in Addr, Staging(a) PROVE TypeOK'
    <3>1. PICK S \in SUBSET Edit : IsFiniteSet(S) /\ staged' = [staged EXCEPT ![a] = S]
      BY <2>4, StagingEffect
    <3>2. staged' \in [Addr -> SUBSET Edit] /\ \A b \in Addr : IsFiniteSet(staged'[b])
      BY <3>1, StagedUpdate
    <3> QED
      BY <2>4, <3>2, StagingEffect DEF TypeOK, disk, read, remote
  <2>5. ASSUME PublishSucceeds PROVE TypeOK'
    <3>1. post.addr \in Addr /\ post.log \in Logs
      BY <2>5, FatePost, PostTyped DEF PublishSucceeds
    <3>2. staged' \in [Addr -> SUBSET Edit] /\ \A b \in Addr : IsFiniteSet(staged'[b])
      BY <2>5, <3>1, StagedUpdate, FS_EmptySet DEF PublishSucceeds
    <3> QED
      BY <2>5, <3>1, <3>2 DEF PublishSucceeds, TypeOK, disk, remote
  <2>6. ASSUME PublishDiverges \/ PublishFails PROVE TypeOK'
    <3>1. wire' \subseteq [addr : Addr, log : Logs]
      <4>1. CASE PublishFails
        <5>1. post.addr \in Addr /\ post.log \in Logs
          BY <4>1, PostTyped DEF PublishFails
        <5> QED
          BY <4>1, <5>1 DEF PublishFails, TypeOK
      <4>2. CASE PublishDiverges
        BY <4>2 DEF PublishDiverges, TypeOK, remote
      <4> QED
        BY <2>6, <4>1, <4>2
    <3> QED
      BY <2>6, <3>1 DEF PublishDiverges, PublishFails, TypeOK, disk, read, edits, remote
  <2>7. ASSUME StoreServes PROVE TypeOK'
    <3>1. post \in Post /\ post.addr \in Addr /\ post.log \in Logs
      BY <2>7, FatePost, PostTyped DEF StoreServes
    <3>2. store' \in [Addr -> Logs] /\ versions' \in [Addr -> SUBSET Logs]
      BY <2>7, <3>1 DEF StoreServes, StoreTakes, TypeOK
    <3>3. post' \in Post
      BY <2>7, <3>1 DEF StoreServes, Post
    <3> QED
      BY <2>7, <3>2, <3>3 DEF StoreServes, TypeOK, disk, read, edits
  <2>8. ASSUME NEW m \in wire, StoreServesLate(m) \/ RequestLost(m) PROVE TypeOK'
    <3>1. m.addr \in Addr /\ m.log \in Logs
      BY DEF TypeOK
    <3>2. store' \in [Addr -> Logs] /\ versions' \in [Addr -> SUBSET Logs]
      BY <2>8, <3>1 DEF StoreServesLate, RequestLost, StoreTakes, TypeOK
    <3>3. wire' \subseteq [addr : Addr, log : Logs]
      BY <2>8 DEF StoreServesLate, RequestLost, TypeOK
    <3> QED
      BY <2>8, <3>2, <3>3 DEF StoreServesLate, RequestLost, TypeOK, disk, read, edits
  <2>9. ASSUME NEW a \in Addr, NEW entry \in OtherEntries(a), OtherDevicePublishes(a, entry)
        PROVE  TypeOK'
    <3>1. store[a] \in Logs
      BY DEF TypeOK
    <3>2. entry \in Entry
      BY OtherEntriesTyped
    <3>3. Append(store[a], entry) \in Logs
      BY <3>1, <3>2, AppendExtends
    <3>4. store' \in [Addr -> Logs] /\ versions' \in [Addr -> SUBSET Logs]
      BY <2>9, <3>3 DEF OtherDevicePublishes, StoreTakes, TypeOK
    <3> QED
      BY <2>9, <3>4 DEF OtherDevicePublishes, TypeOK, disk, read, edits
  <2>10. ASSUME NEW a \in Addr, OtherInstanceWrites(a) PROVE TypeOK'
    <3>1. vault' \in [Addr -> Spellings] /\ observed' \subseteq Addr
      BY <2>10 DEF OtherInstanceWrites, TypeOK, Spellings
    <3> QED
      BY <2>10, <3>1 DEF OtherInstanceWrites, TypeOK, read, edits, remote
  <2> QED
    BY <2>1, <2>2, <2>3, <2>4, <2>5, <2>6, <2>7, <2>8, <2>9, <2>10, StepCases
<1> QED
  BY <1>1, <1>2, PTL DEF Spec

-----------------------------------------------------------------------------
(* Logs only grow.  What the resolver holds is a log the store has held, and *)
(* everything the store has held is at the start of what it holds now.  A  *)
(* post extends what the resolver held when it was planned: the core runs  *)
(* nothing else until the publish answers.                                 *)

HistoryInv ==
  \A a \in Addr :
    /\ record[a] \in versions[a]
    /\ store[a] \in versions[a]
    /\ \A log \in versions[a] : Extends(store[a], log)

PostInv ==
  post # NoPost =>
    /\ post.fate = "taken" => post.log \in versions[post.addr]
    /\ Extends(post.log, record[post.addr])
    /\ Len(post.log) = post.firstNew + Len(post.plan)
    /\ \A n \in 1 .. Len(post.plan) : post.log[post.firstNew + n] = post.plan[n]

LogInv == TypeOK /\ HistoryInv /\ PostInv

\* A log the store takes extends every one it has held.
LEMMA TakenLog ==
  ASSUME TypeOK, HistoryInv, NEW a \in Addr, NEW log \in Logs,
         Extends(log, store[a]), StoreTakes(a, log), UNCHANGED record
  PROVE  /\ HistoryInv'
         /\ log \in versions'[a]
         /\ \A b \in Addr : versions[b] \subseteq versions'[b]
<1>1. store' = [store EXCEPT ![a] = log]
      /\ versions' = [versions EXCEPT ![a] = versions[a] \cup {log}]
  BY DEF StoreTakes
<1>2. \A b \in Addr : versions[b] \subseteq versions'[b]
  BY <1>1 DEF TypeOK
<1>3. log \in versions'[a]
  BY <1>1 DEF TypeOK
<1>4. ASSUME NEW b \in Addr
      PROVE  /\ record'[b] \in versions'[b]
             /\ store'[b] \in versions'[b]
             /\ \A l \in versions'[b] : Extends(store'[b], l)
  <2>1. CASE b = a
    <3>1. store'[a] = log /\ versions'[a] = versions[a] \cup {log}
      BY <1>1 DEF TypeOK
    <3>2. Extends(log, log)
      BY ExtendsReflexive
    <3>3. ASSUME NEW l \in versions[a] PROVE Extends(log, l)
      <4>1. l \in Logs /\ store[a] \in Logs /\ Extends(store[a], l)
        BY DEF TypeOK, HistoryInv
      <4> QED
        BY <4>1, ExtendsTransitive
    <3> QED
      BY <2>1, <3>1, <3>2, <3>3 DEF HistoryInv
  <2>2. CASE b # a
    <3>1. store'[b] = store[b] /\ versions'[b] = versions[b]
      BY <1>1, <2>2 DEF TypeOK
    <3> QED
      BY <3>1 DEF HistoryInv
  <2> QED
    BY <2>1, <2>2
<1> QED
  BY <1>2, <1>3, <1>4 DEF HistoryInv

\* What every step of the core's own, short of a publish, leaves alone.
LEMMA CoreStepsKeepLogs ==
  ASSUME TypeOK, NEW a \in Addr,
         \/ Accounts(a) \/ Staging(a) \/ OtherInstanceWrites(a)
         \/ RefreshFails(a) \/ PublishReadFails(a)
  PROVE  UNCHANGED <<record, store, versions, post>>
<1>1. CASE Accounts(a)
  BY <1>1 DEF Accounts, CreateAccount, ImportAccount, Unlock, ForgetAccount, Observe,
              StopObserving, read, remote
<1>2. CASE Staging(a)
  BY <1>2, StagingEffect DEF read, remote
<1>3. CASE OtherInstanceWrites(a) \/ RefreshFails(a) \/ PublishReadFails(a)
  BY <1>3 DEF OtherInstanceWrites, RefreshFails, PublishReadFails, ReadFails, read, remote
<1> QED
  BY <1>1, <1>2, <1>3

\* What a read that lands does to the logs.
LEMMA ReadKeepsHistory ==
  ASSUME TypeOK, HistoryInv, NEW a \in Addr, NEW log \in Adoptable(a),
         \/ Refresh(a, log) \/ PublishNotNeeded(a, log)
         \/ PublishRefused(a, log) \/ PublishSends(a, log)
  PROVE  /\ HistoryInv'
         /\ record' = [record EXCEPT ![a] = log]
         /\ UNCHANGED <<store, versions>>
         /\ post = NoPost
         /\ PublishSends(a, log) \/ UNCHANGED post
<1>1. record' = [record EXCEPT ![a] = log]
  BY DEF Refresh, PublishNotNeeded, PublishRefused, PublishSends, PublishReads, ReadLands
<1>2. UNCHANGED <<store, versions>>
  BY DEF Refresh, PublishNotNeeded, PublishRefused, PublishSends, PublishReads, remote
<1>3. post = NoPost /\ (PublishSends(a, log) \/ UNCHANGED post)
  BY DEF Refresh, PublishNotNeeded, PublishRefused, PublishSends, PublishReads,
         MayPublish, Idle
<1>4. log \in versions[a]
  BY AdoptableLog
<1>5. HistoryInv'
  BY <1>1, <1>2, <1>4 DEF HistoryInv, TypeOK
<1> QED
  BY <1>1, <1>2, <1>3, <1>5

LEMMA LogInvKept ==
  ASSUME LogInv, TypeOK', [Next]_vars
  PROVE  /\ LogInv'
         /\ \A a \in Addr : Extends(record'[a], record[a])
<1> USE DEF LogInv
<1>0. \A a \in Addr : record[a] \in Logs /\ Extends(record[a], record[a])
  BY ExtendsReflexive DEF TypeOK
<1>a. ASSUME UNCHANGED <<record, store, versions, post>>
      PROVE  /\ HistoryInv' /\ PostInv'
             /\ \A a \in Addr : Extends(record'[a], record[a])
  BY <1>a, <1>0 DEF HistoryInv, PostInv, NoPost
<1>1. ASSUME NEW a \in Addr,
             \/ Accounts(a) \/ Staging(a) \/ OtherInstanceWrites(a)
             \/ RefreshFails(a) \/ PublishReadFails(a)
      PROVE  /\ HistoryInv' /\ PostInv'
             /\ \A b \in Addr : Extends(record'[b], record[b])
  BY <1>1, <1>a, CoreStepsKeepLogs
<1>2. ASSUME NEW a \in Addr, NEW log \in Adoptable(a),
             \/ Refresh(a, log) \/ PublishNotNeeded(a, log)
             \/ PublishRefused(a, log) \/ PublishSends(a, log)
      PROVE  /\ HistoryInv' /\ PostInv'
             /\ \A b \in Addr : Extends(record'[b], record[b])
  <2>1. /\ HistoryInv' /\ record' = [record EXCEPT ![a] = log]
        /\ post = NoPost /\ (PublishSends(a, log) \/ UNCHANGED post)
    BY <1>2, ReadKeepsHistory
  <2>2. log \in Logs /\ Extends(log, record[a])
    BY AdoptableLog
  <2>3. \A b \in Addr : Extends(record'[b], record[b])
    BY <2>1, <2>2, <1>0 DEF TypeOK
  <2>4. CASE UNCHANGED post
    BY <2>1, <2>3, <2>4 DEF PostInv, NoPost
  <2>5. CASE PublishSends(a, log)
    <3>1. PICK plan \in Logs :
            /\ post' = [fate |-> "sent", addr |-> a, firstNew |-> Len(log),
                        plan |-> plan, log |-> log \o plan]
            /\ Extends(log \o plan, log)
            /\ Len(log \o plan) = Len(log) + Len(plan)
            /\ \A n \in 1 .. Len(plan) : (log \o plan)[Len(log) + n] = plan[n]
      BY <2>5, PublishSent
    <3>2. /\ post'.fate = "sent" /\ post'.addr = a /\ post'.log = log \o plan
          /\ post'.firstNew = Len(log) /\ post'.plan = plan
      BY <3>1
    <3>3. record'[a] = log
      BY <2>1 DEF TypeOK
    <3> QED
      BY <2>1, <2>3, <3>1, <3>2, <3>3 DEF PostInv
  <2> QED
    BY <2>1, <2>4, <2>5
<1>3. ASSUME PublishSucceeds
      PROVE  /\ HistoryInv' /\ PostInv'
             /\ \A b \in Addr : Extends(record'[b], record[b])
  <2>1. post # NoPost /\ post.fate = "taken" /\ post.addr \in Addr
    BY <1>3, FatePost, PostTyped DEF PublishSucceeds
  <2>2. post.log \in versions[post.addr] /\ Extends(post.log, record[post.addr])
    BY <2>1 DEF PostInv
  <2>3. /\ record' = [record EXCEPT ![post.addr] = post.log]
        /\ UNCHANGED <<store, versions>> /\ post' = NoPost
    BY <1>3 DEF PublishSucceeds, remote
  <2>4. \A b \in Addr : Extends(record'[b], record[b])
    BY <2>1, <2>2, <2>3, <1>0 DEF TypeOK
  <2>5. HistoryInv'
    BY <2>1, <2>2, <2>3 DEF HistoryInv, TypeOK
  <2> QED
    BY <2>3, <2>4, <2>5 DEF PostInv
<1>4. ASSUME PublishDiverges \/ PublishFails
      PROVE  /\ HistoryInv' /\ PostInv'
             /\ \A b \in Addr : Extends(record'[b], record[b])
  <2>1. UNCHANGED <<record, store, versions>> /\ post' = NoPost
    BY <1>4 DEF PublishDiverges, PublishFails, read, remote
  <2> QED
    BY <2>1, <1>0 DEF HistoryInv, PostInv
<1>5. ASSUME StoreServes
      PROVE  /\ HistoryInv' /\ PostInv'
             /\ \A b \in Addr : Extends(record'[b], record[b])
  <2>1. post # NoPost /\ post \in Post /\ post.addr \in Addr /\ post.log \in Logs
    BY <1>5, FatePost, PostTyped DEF StoreServes
  <2>2. UNCHANGED record
    BY <1>5 DEF StoreServes, read
  <2>3. /\ post'.addr = post.addr /\ post'.log = post.log
        /\ post'.plan = post.plan /\ post'.firstNew = post.firstNew
    BY <1>5, <2>1 DEF StoreServes, Post
  <2>4. CASE Extends(post.log, store[post.addr])
    <3>1. StoreTakes(post.addr, post.log)
      BY <1>5, <2>4 DEF StoreServes
    <3>2. HistoryInv' /\ post.log \in versions'[post.addr]
      BY <2>1, <2>2, <2>4, <3>1, TakenLog
    <3> QED
      BY <2>1, <2>2, <2>3, <3>2, <1>0 DEF PostInv
  <2>5. CASE ~Extends(post.log, store[post.addr])
    <3>1. UNCHANGED <<store, versions>> /\ post'.fate = "refused"
      BY <1>5, <2>1, <2>5 DEF StoreServes, Post
    <3> QED
      BY <2>1, <2>2, <2>3, <3>1, <1>0 DEF PostInv, HistoryInv
  <2> QED
    BY <2>4, <2>5
<1>6. ASSUME NEW m \in wire, StoreServesLate(m) \/ RequestLost(m)
      PROVE  /\ HistoryInv' /\ PostInv'
             /\ \A b \in Addr : Extends(record'[b], record[b])
  <2>1. UNCHANGED <<record, post>> /\ m.addr \in Addr /\ m.log \in Logs
    BY <1>6 DEF StoreServesLate, RequestLost, read, TypeOK
  <2>2. CASE UNCHANGED <<store, versions>>
    BY <2>1, <2>2, <1>a
  <2>3. CASE Extends(m.log, store[m.addr]) /\ StoreTakes(m.addr, m.log)
    <3>1. HistoryInv' /\ \A b \in Addr : versions[b] \subseteq versions'[b]
      BY <2>1, <2>3, TakenLog
    <3>2. PostInv'
      BY <2>1, <3>1, PostTyped DEF PostInv, NoPost
    <3> QED
      BY <2>1, <3>1, <3>2, <1>0
  <2> QED
    BY <1>6, <2>2, <2>3 DEF StoreServesLate, RequestLost
<1>7. ASSUME NEW a \in Addr, NEW entry \in OtherEntries(a), OtherDevicePublishes(a, entry)
      PROVE  /\ HistoryInv' /\ PostInv'
             /\ \A b \in Addr : Extends(record'[b], record[b])
  <2>1. UNCHANGED <<record, post>>
    BY <1>7 DEF OtherDevicePublishes, read
  <2>2. StoreTakes(a, Append(store[a], entry))
    BY <1>7 DEF OtherDevicePublishes
  <2>3. store[a] \in Logs /\ entry \in Entry
    BY OtherEntriesTyped DEF TypeOK
  <2>4. Append(store[a], entry) \in Logs /\ Extends(Append(store[a], entry), store[a])
    BY <2>3, AppendExtends
  <2>5. HistoryInv' /\ \A b \in Addr : versions[b] \subseteq versions'[b]
    BY <2>1, <2>2, <2>4, TakenLog
  <2>6. PostInv'
    BY <2>1, <2>5, PostTyped DEF PostInv, NoPost
  <2> QED
    BY <2>1, <2>5, <2>6, <1>0
<1>8. CASE UNCHANGED vars
  BY <1>8, <1>a DEF vars
<1> QED
  BY <1>1, <1>2, <1>3, <1>4, <1>5, <1>6, <1>7, <1>8, StepCases

LEMMA LogInvHolds == Spec => []LogInv
<1>1. Init => LogInv
  <2>1. <<>> \in Logs
    BY DEF Logs
  <2>2. Extends(<<>>, <<>>)
    BY <2>1, ExtendsReflexive
  <2>3. Init => TypeOK
    BY FS_EmptySet, <2>1 DEF Init, TypeOK, Spellings, Problems
  <2> QED
    BY <2>2, <2>3 DEF Init, LogInv, HistoryInv, PostInv
<1>2. LogInv /\ TypeOK' /\ [Next]_vars => LogInv'
  BY LogInvKept
<1> QED
  BY <1>1, <1>2, TypeCorrect, PTL DEF Spec

\* The log held is never one the store has not had, however late its answers
\* and however its publishes end.
THEOREM RecordWithin == Spec => []RecordWithinStore
<1>1. LogInv => RecordWithinStore
  BY DEF LogInv, HistoryInv, RecordWithinStore
<1> QED
  BY <1>1, LogInvHolds, PTL

\* No read and no publish takes back a log that was verified once.
THEOREM RecordOnlyGrows == Spec => RecordNeverRollsBack
<1>1. LogInv /\ TypeOK' /\ [Next]_vars
        => [\A a \in Addr : Extends(record'[a], record[a])]_record
  BY LogInvKept
<1> QED
  BY <1>1, LogInvHolds, TypeCorrect, PTL DEF Spec, RecordNeverRollsBack

\* What a publish wrote is in the store's log where its answer says.
THEOREM WrittenWhereSaid == Spec => []TakenWhereSaid
<1>1. LogInv => TakenWhereSaid
  <2> SUFFICES ASSUME LogInv, post.fate = "taken", NEW n \in DOMAIN post.plan
               PROVE  /\ post.firstNew + n <= Len(store[post.addr])
                      /\ store[post.addr][post.firstNew + n] = post.plan[n]
    BY DEF TakenWhereSaid
  <2>1. /\ post # NoPost /\ post.addr \in Addr /\ post.log \in Logs
        /\ post.plan \in Logs /\ post.firstNew \in Nat
    BY FatePost, PostTyped DEF LogInv
  <2>2. n \in 1 .. Len(post.plan) /\ Len(post.plan) \in Nat
    BY <2>1 DEF Logs
  <2>3. /\ Len(post.log) = post.firstNew + Len(post.plan)
        /\ post.log[post.firstNew + n] = post.plan[n]
        /\ Extends(store[post.addr], post.log)
    BY <2>1, <2>2 DEF LogInv, PostInv, HistoryInv
  <2>4. store[post.addr] \in Logs
    BY <2>1 DEF LogInv, TypeOK
  <2>5. /\ Len(post.log) <= Len(store[post.addr])
        /\ \A i \in 1 .. Len(post.log) : store[post.addr][i] = post.log[i]
    BY <2>1, <2>3, <2>4, ExtendsPointwise
  <2>6. Len(store[post.addr]) \in Nat
    BY <2>4 DEF Logs
  <2>7. post.firstNew + n \in 1 .. Len(post.log)
    BY <2>1, <2>2, <2>3
  <2> QED
    BY <2>1, <2>2, <2>3, <2>5, <2>6, <2>7
<1> QED
  BY <1>1, LogInvHolds, PTL

-----------------------------------------------------------------------------
(* What is staged stays worth publishing.  The invariant is said of one    *)
(* account's edits and the log they are planned against; the hard steps    *)
(* are the read, which replaces both, and the staging of a name, which     *)
(* replaces another.                                                       *)

Plannable(S, known, log) ==
  /\ \A e, f \in S \cap Renames : e = f
  /\ (known /\ log # <<>> /\ Readable(log)) => \A e \in S : Pending(e, log)

EditsInv == \A a \in Addr : Plannable(staged[a], answered[a], record[a])

LEMMA SettledPlannable ==
  ASSUME NEW S, NEW log, \A e, f \in S \cap Renames : e = f
  PROVE  Plannable(Settled(S, log), TRUE, log)
  BY DEF Plannable, Settled

\* Replacing one account's edits, log and read keeps the invariant when the
\* new ones are plannable.
LEMMA EditsInvUpdate ==
  ASSUME EditsInv, NEW a \in Addr,
         \A b \in Addr \ {a} : /\ staged'[b] = staged[b]
                               /\ answered'[b] = answered[b]
                               /\ record'[b] = record[b],
         Plannable(staged'[a], answered'[a], record'[a])
  PROVE  EditsInv'
  BY DEF EditsInv, Plannable

\* Whatever is staged is pending, and a name replaces the one staged before.
LEMMA StagingPlannable ==
  ASSUME TypeOK, EditsInv, NEW a \in Addr, Staging(a)
  PROVE  Plannable(staged'[a], answered'[a], record'[a])
<1>0. /\ \A e, f \in staged[a] \cap Renames : e = f
      /\ (answered[a] /\ record[a] # <<>> /\ Readable(record[a])) =>
            \A e \in staged[a] : Pending(e, record[a])
  BY DEF EditsInv, Plannable
<1>1. UNCHANGED <<answered, record>> /\ answered[a] \in BOOLEAN
  BY StagingEffect DEF read, TypeOK
<1>2. answered[a] => Record(a) = record[a]
  BY DEF Record
<1>3. CASE \E k \in Key : StageAddInstallation(a, k)
  <2>1. PICK k \in Key : StageAddInstallation(a, k)
    BY <1>3
  <2>2. staged'[a] = staged[a] \cup {AddInstallation(k)}
    BY <2>1 DEF StageAddInstallation, Restage, TypeOK
  <2>3. answered[a] => Pending(AddInstallation(k), record[a])
    BY <2>1, <1>2 DEF StageAddInstallation, Pending, AddInstallation
  <2>4. AddInstallation(k) \notin Renames
    BY DEF AddInstallation, Renames, SetDisplayName
  <2> QED
    BY <1>0, <1>1, <2>2, <2>3, <2>4 DEF Plannable
<1>4. CASE \E n \in Name : StageSetDisplayName(a, n)
  <2>1. PICK n \in Name : StageSetDisplayName(a, n)
    BY <1>4
  <2> DEFINE others == staged[a] \ Renames
  <2>2. \/ /\ ~InForce(n, Record(a))
           /\ staged'[a] = others \cup {SetDisplayName(n)}
        \/ staged'[a] = others
    BY <2>1 DEF StageSetDisplayName, Restage, TypeOK
  <2>3. (answered[a] /\ ~InForce(n, Record(a))) => Pending(SetDisplayName(n), record[a])
    BY <1>2 DEF Pending, SetDisplayName
  <2>4. others \subseteq staged[a] /\ others \cap Renames = {}
    OBVIOUS
  <2> HIDE DEF others
  <2> QED
    BY <1>0, <1>1, <2>2, <2>3, <2>4 DEF Plannable
<1>5. CASE \E i \in Live(Record(a)) : StageRevoke(a, i)
  <2>1. PICK i \in Live(Record(a)) : StageRevoke(a, i)
    BY <1>5
  <2>2. staged'[a] = staged[a] \cup {Revoke(i)}
    BY <2>1 DEF StageRevoke, Restage, TypeOK
  <2>3. answered[a] => Pending(Revoke(i), record[a])
    BY <2>1, <1>2 DEF Pending, Revoke
  <2>4. Revoke(i) \notin Renames
    BY DEF Revoke, Renames, SetDisplayName
  <2> QED
    BY <1>0, <1>1, <2>2, <2>3, <2>4 DEF Plannable
<1>6. CASE DiscardPending(a)
  BY <1>6 DEF DiscardPending, Plannable, TypeOK
<1> QED
  BY <1>3, <1>4, <1>5, <1>6 DEF Staging

LEMMA EditsInvKept ==
  ASSUME TypeOK, EditsInv, [Next]_vars
  PROVE  EditsInv'
<1>a. ASSUME UNCHANGED <<staged, answered, record>>
      PROVE  EditsInv'
  BY <1>a DEF EditsInv, Plannable
<1>1. ASSUME NEW a \in Addr, Accounts(a) PROVE EditsInv'
  <2>1. UNCHANGED record
    BY <1>1 DEF Accounts, CreateAccount, ImportAccount, Unlock, ForgetAccount, Observe,
                StopObserving, read
  <2>2. \/ UNCHANGED <<staged, answered>>
        \/ /\ staged' = [staged EXCEPT ![a] = {}] \/ UNCHANGED staged
           /\ answered' = [answered EXCEPT ![a] = FALSE]
    BY <1>1 DEF Accounts, CreateAccount, ImportAccount, Unlock, ForgetAccount, Observe,
                StopObserving, read, edits
  <2>3. CASE UNCHANGED <<staged, answered>>
    BY <2>1, <2>3, <1>a
  <2>4. CASE /\ staged' = [staged EXCEPT ![a] = {}] \/ UNCHANGED staged
             /\ answered' = [answered EXCEPT ![a] = FALSE]
    <3>1. /\ answered'[a] = FALSE
          /\ staged'[a] = {} \/ staged'[a] = staged[a]
          /\ \A b \in Addr \ {a} : staged'[b] = staged[b] /\ answered'[b] = answered[b]
      BY <2>4 DEF TypeOK
    <3>2. Plannable(staged'[a], answered'[a], record'[a])
      BY <3>1 DEF EditsInv, Plannable
    <3> QED
      BY <2>1, <3>1, <3>2, EditsInvUpdate
  <2> QED
    BY <2>2, <2>3, <2>4
<1>2. ASSUME NEW a \in Addr, NEW log \in Adoptable(a),
             \/ Refresh(a, log) \/ PublishNotNeeded(a, log)
             \/ PublishRefused(a, log) \/ PublishSends(a, log)
      PROVE  EditsInv'
  <2>1. /\ record' = [record EXCEPT ![a] = log]
        /\ answered' = [answered EXCEPT ![a] = TRUE]
        /\ staged' = [staged EXCEPT ![a] = Settled(staged[a], log)]
    BY <1>2 DEF Refresh, PublishNotNeeded, PublishRefused, PublishSends, PublishReads,
                ReadLands
  <2>2. /\ record'[a] = log /\ answered'[a] = TRUE
        /\ staged'[a] = Settled(staged[a], log)
        /\ \A b \in Addr \ {a} : /\ staged'[b] = staged[b]
                                 /\ answered'[b] = answered[b]
                                 /\ record'[b] = record[b]
    BY <2>1 DEF TypeOK
  <2>3. Plannable(Settled(staged[a], log), TRUE, log)
    BY SettledPlannable DEF EditsInv, Plannable
  <2> QED
    BY <2>2, <2>3, EditsInvUpdate
<1>3. ASSUME NEW a \in Addr, Staging(a) PROVE EditsInv'
  <2>1. UNCHANGED <<answered, record>>
    BY <1>3, StagingEffect DEF read
  <2>2. \A b \in Addr \ {a} : staged'[b] = staged[b]
    <3>1. PICK S \in SUBSET Edit : staged' = [staged EXCEPT ![a] = S]
      BY <1>3, StagingEffect
    <3> QED
      BY <3>1 DEF TypeOK
  <2> QED
    BY <1>3, <2>1, <2>2, StagingPlannable, EditsInvUpdate
<1>4. ASSUME PublishSucceeds PROVE EditsInv'
  <2>1. post.addr \in Addr
    BY <1>4, FatePost, PostTyped DEF PublishSucceeds
  <2>2. /\ staged'[post.addr] = {}
        /\ \A b \in Addr \ {post.addr} : /\ staged'[b] = staged[b]
                                         /\ answered'[b] = answered[b]
                                         /\ record'[b] = record[b]
    BY <1>4, <2>1 DEF PublishSucceeds, TypeOK
  <2>3. Plannable({}, answered'[post.addr], record'[post.addr])
    BY DEF Plannable
  <2> QED
    BY <2>1, <2>2, <2>3, EditsInvUpdate
<1>5. ASSUME \/ \E a \in Addr : RefreshFails(a) \/ PublishReadFails(a)
             \/ PublishDiverges \/ PublishFails \/ StoreServes
             \/ \E m \in wire : StoreServesLate(m) \/ RequestLost(m)
             \/ \E a \in Addr : \E entry \in OtherEntries(a) : OtherDevicePublishes(a, entry)
             \/ \E a \in Addr : OtherInstanceWrites(a)
      PROVE  EditsInv'
  BY <1>5, <1>a DEF RefreshFails, PublishReadFails, ReadFails, PublishDiverges,
       PublishFails, StoreServes, StoreServesLate, RequestLost, OtherDevicePublishes,
       OtherInstanceWrites, read, edits
<1>6. CASE UNCHANGED vars
  BY <1>6, <1>a DEF vars
<1> QED
  BY <1>1, <1>2, <1>3, <1>4, <1>5, <1>6, StepCases

\* What is staged is pending, and holds one name at most, wherever the log it
\* is planned against can be extended.
THEOREM StagedApplies == Spec => []PlanApplies
<1>1. Init => EditsInv
  BY DEF Init, EditsInv, Plannable
<1>2. EditsInv => PlanApplies
  BY DEF EditsInv, Plannable, PlanApplies
<1> QED
  BY <1>1, <1>2, EditsInvKept, TypeCorrect, PTL DEF Spec

-----------------------------------------------------------------------------
(* Nothing outlives the account it belongs to.                             *)

\* What NothingLeftBehind says of one account over a step.
Kept(a) ==
  /\ KeyLeft(a)' => KeyLeft(a)
  /\ EditsLeft(a)' => EditsLeft(a)
  /\ ReadLeft(a)' => ReadLeft(a)

\* One account's part in a step is all that is about it.
LEMMA KeptUnchanged ==
  ASSUME NEW b \in Addr,
         vault'[b] = vault[b], b \in observed' <=> b \in observed,
         b \in unlocked' <=> b \in unlocked, staged'[b] = staged[b],
         answered'[b] = answered[b], problem'[b] = problem[b],
         dropped'[b] = dropped[b]
  PROVE  Kept(b)
  BY DEF Kept, KeyLeft, EditsLeft, ReadLeft, Manages, Knows

\* A step about a alone, when everyone else's state is as it was.
LEMMA KeptUpdate ==
  ASSUME NEW a \in Addr,
         \A b \in Addr \ {a} : /\ vault'[b] = vault[b]
                               /\ b \in observed' <=> b \in observed
                               /\ b \in unlocked' <=> b \in unlocked
                               /\ staged'[b] = staged[b]
                               /\ answered'[b] = answered[b]
                               /\ problem'[b] = problem[b]
                               /\ dropped'[b] = dropped[b],
         Kept(a)
  PROVE  \A b \in Addr : Kept(b)
<1> SUFFICES ASSUME NEW b \in Addr, b # a PROVE Kept(b)
  OBVIOUS
<1> QED
  BY KeptUnchanged

LEMMA AccountsKeep ==
  ASSUME TypeOK, NEW a \in Addr, Accounts(a)
  PROVE  \A b \in Addr : Kept(b)
<1> USE DEF disk, read, edits
<1>1. CASE \E s \in {"open", "sealed"} : CreateAccount(a, s) \/ ImportAccount(a, s)
  <2>1. PICK s \in {"open", "sealed"} : CreateAccount(a, s) \/ ImportAccount(a, s)
    BY <1>1
  <2>2. /\ vault' = [vault EXCEPT ![a] = s] /\ ~Manages(a)
        /\ unlocked' = IF s = "sealed" THEN unlocked \cup {a} ELSE unlocked
        /\ observed' \in {observed, observed \ {a}}
        /\ UNCHANGED <<staged, dropped, answered, problem>>
    BY <2>1 DEF CreateAccount, ImportAccount, Knows
  <2>3. vault'[a] = s /\ \A b \in Addr \ {a} : vault'[b] = vault[b]
    BY <2>2 DEF TypeOK
  <2>4. KeyLeft(a)' => KeyLeft(a)
    BY <2>2, <2>3 DEF KeyLeft, Manages
  <2>5. Manages(a)' /\ Knows(a)'
    BY <2>3 DEF Manages, Knows
  <2>6. Kept(a)
    BY <2>4, <2>5 DEF Kept, EditsLeft, ReadLeft
  <2> QED
    BY <2>2, <2>3, <2>6, KeptUpdate
<1>2. CASE Unlock(a)
  <2>1. /\ vault[a] = "sealed" /\ unlocked' = unlocked \cup {a}
        /\ UNCHANGED <<vault, observed, staged, dropped, answered, problem>>
    BY <1>2 DEF Unlock
  <2>2. Kept(a)
    BY <2>1 DEF Kept, KeyLeft, EditsLeft, ReadLeft, Manages, Knows
  <2> QED
    BY <2>1, <2>2, KeptUpdate
<1>3. CASE ForgetAccount(a)
  <2>1. /\ a \notin unlocked' /\ staged'[a] = {}
        /\ answered'[a] = FALSE /\ problem'[a] = "none" /\ dropped'[a] = 0
        /\ UNCHANGED observed
    BY <1>3 DEF ForgetAccount, TypeOK
  <2>2. \A b \in Addr \ {a} : /\ vault'[b] = vault[b]
                              /\ b \in unlocked' <=> b \in unlocked
                              /\ staged'[b] = staged[b]
                              /\ answered'[b] = answered[b]
                              /\ problem'[b] = problem[b]
                              /\ dropped'[b] = dropped[b]
    BY <1>3 DEF ForgetAccount, TypeOK
  <2>3. Kept(a)
    BY <2>1 DEF Kept, KeyLeft, EditsLeft, ReadLeft
  <2> QED
    BY <2>1, <2>2, <2>3, KeptUpdate
<1>4. CASE Observe(a)
  <2>1. /\ observed' = observed \cup {a}
        /\ UNCHANGED <<vault, unlocked, staged, dropped, answered, problem>>
    BY <1>4 DEF Observe
  <2>2. Kept(a)
    BY <2>1 DEF Kept, KeyLeft, EditsLeft, ReadLeft, Manages, Knows
  <2> QED
    BY <2>1, <2>2, KeptUpdate
<1>5. CASE StopObserving(a)
  <2>1. /\ answered'[a] = FALSE /\ problem'[a] = "none" /\ dropped'[a] = 0
        /\ UNCHANGED <<vault, unlocked, staged>>
    BY <1>5 DEF StopObserving, TypeOK
  <2>2. \A b \in Addr \ {a} : /\ b \in observed' <=> b \in observed
                              /\ answered'[b] = answered[b]
                              /\ problem'[b] = problem[b]
                              /\ dropped'[b] = dropped[b]
    BY <1>5 DEF StopObserving, TypeOK
  <2>3. Kept(a)
    BY <2>1 DEF Kept, KeyLeft, EditsLeft, ReadLeft, Manages
  <2> QED
    BY <2>1, <2>2, <2>3, KeptUpdate
<1> QED
  BY <1>1, <1>2, <1>3, <1>4, <1>5 DEF Accounts

\* An account that is managed or observed may have been read, and one that is
\* managed may have edits.
LEMMA ReadsKeep ==
  ASSUME NEW a \in Addr, Knows(a),
         UNCHANGED <<vault, observed, unlocked>>,
         \A b \in Addr \ {a} : /\ staged'[b] = staged[b]
                               /\ answered'[b] = answered[b]
                               /\ problem'[b] = problem[b]
                               /\ dropped'[b] = dropped[b],
         staged'[a] # {} => staged[a] # {} \/ Manages(a)
  PROVE  \A b \in Addr : Kept(b)
<1>1. Kept(a)
  BY DEF Kept, KeyLeft, EditsLeft, ReadLeft, Knows, Manages
<1> QED
  BY <1>1, KeptUpdate

\* Whatever an account is left with, another instance left it with.
LEMMA StepKeeps ==
  ASSUME TypeOK, [Next]_vars
  PROVE  \A a \in Addr : Accounts(a) \/ ~OtherInstanceWrites(a) => Kept(a)
<1> USE DEF disk, read, edits
<1>a. ASSUME UNCHANGED <<vault, observed, unlocked, staged, answered, problem, dropped>>
      PROVE  \A b \in Addr : Kept(b)
  BY <1>a, KeptUnchanged
<1>1. ASSUME NEW a \in Addr, Accounts(a) PROVE \A b \in Addr : Kept(b)
  BY <1>1, AccountsKeep
<1>2. ASSUME NEW a \in Addr, RefreshFails(a) \/ PublishReadFails(a)
      PROVE  \A b \in Addr : Kept(b)
  <2>1. Knows(a) /\ UNCHANGED <<vault, observed, unlocked, staged, answered, dropped>>
    BY <1>2 DEF RefreshFails, PublishReadFails, ReadFails, MayPublish, Knows
  <2>2. \A b \in Addr \ {a} : problem'[b] = problem[b]
    BY <1>2 DEF RefreshFails, PublishReadFails, ReadFails, TypeOK
  <2> QED
    BY <2>1, <2>2, ReadsKeep
<1>3. ASSUME NEW a \in Addr, NEW log \in Adoptable(a),
             \/ Refresh(a, log) \/ PublishNotNeeded(a, log)
             \/ PublishRefused(a, log) \/ PublishSends(a, log)
      PROVE  \A b \in Addr : Kept(b)
  <2>1. Knows(a) /\ UNCHANGED <<vault, observed, unlocked>>
    BY <1>3 DEF Refresh, PublishNotNeeded, PublishRefused, PublishSends, PublishReads,
                MayPublish, Knows
  <2>2. /\ answered' = [answered EXCEPT ![a] = TRUE]
        /\ problem' = [problem EXCEPT ![a] = "none"]
        /\ staged' = [staged EXCEPT ![a] = Settled(staged[a], log)]
    BY <1>3 DEF Refresh, PublishNotNeeded, PublishRefused, PublishSends, PublishReads,
                ReadLands
  <2>3. \/ dropped' = [dropped EXCEPT ![a] = 0]
        \/ dropped' = [dropped EXCEPT ![a] = Owed(a, log)]
    BY <1>3 DEF Refresh, PublishNotNeeded, PublishRefused, PublishSends, PublishReads
  <2>4. \A b \in Addr \ {a} : /\ staged'[b] = staged[b]
                              /\ answered'[b] = answered[b]
                              /\ problem'[b] = problem[b]
                              /\ dropped'[b] = dropped[b]
    BY <2>2, <2>3 DEF TypeOK
  <2>5. staged'[a] # {} => staged[a] # {}
    BY <2>2 DEF Settled, TypeOK
  <2> QED
    BY <2>1, <2>4, <2>5, ReadsKeep
<1>4. ASSUME NEW a \in Addr, Staging(a) PROVE \A b \in Addr : Kept(b)
  <2>1. UNCHANGED <<vault, observed, unlocked, answered, problem, dropped>>
    BY <1>4, StagingEffect
  <2>2. \A b \in Addr \ {a} : staged'[b] = staged[b]
    <3>1. PICK S \in SUBSET Edit : staged' = [staged EXCEPT ![a] = S]
      BY <1>4, StagingEffect
    <3> QED
      BY <3>1 DEF TypeOK
  <2>3. Manages(a)
    BY <1>4 DEF Staging, StageAddInstallation, StageSetDisplayName, StageRevoke,
                DiscardPending
  <2> QED
    BY <2>1, <2>2, <2>3, ReadsKeep DEF Knows
<1>5. ASSUME PublishSucceeds PROVE \A b \in Addr : Kept(b)
  <2>1. PICK a \in Addr : a = post.addr
    BY <1>5, FatePost, PostTyped DEF PublishSucceeds
  <2>2. /\ UNCHANGED <<vault, observed, unlocked, answered, problem>>
        /\ staged'[a] = {} /\ dropped'[a] = 0
        /\ \A b \in Addr \ {a} : staged'[b] = staged[b] /\ dropped'[b] = dropped[b]
    BY <1>5, <2>1 DEF PublishSucceeds, TypeOK
  <2>3. Kept(a)
    BY <2>2 DEF Kept, KeyLeft, EditsLeft, ReadLeft, Manages, Knows
  <2> QED
    BY <2>2, <2>3, KeptUpdate
<1>6. ASSUME \/ PublishDiverges \/ PublishFails \/ StoreServes
             \/ \E m \in wire : StoreServesLate(m) \/ RequestLost(m)
             \/ \E a \in Addr : \E entry \in OtherEntries(a) : OtherDevicePublishes(a, entry)
      PROVE  \A b \in Addr : Kept(b)
  BY <1>6, <1>a DEF PublishDiverges, PublishFails, StoreServes, StoreServesLate,
                    RequestLost, OtherDevicePublishes
<1>7. ASSUME NEW a \in Addr, OtherInstanceWrites(a)
      PROVE  \A b \in Addr : Accounts(b) \/ ~OtherInstanceWrites(b) => Kept(b)
  <2> SUFFICES ASSUME NEW b \in Addr, Accounts(b) \/ ~OtherInstanceWrites(b)
               PROVE  Kept(b)
    OBVIOUS
  <2>1. CASE Accounts(b)
    BY <2>1, <1>1
  <2>2. CASE b # a
    <3>1. /\ vault'[b] = vault[b]
          /\ b \in observed' <=> b \in observed
      BY <1>7, <2>2 DEF OtherInstanceWrites, TypeOK
    <3>2. /\ staged'[b] = staged[b] /\ answered'[b] = answered[b]
          /\ problem'[b] = problem[b] /\ dropped'[b] = dropped[b]
          /\ b \in unlocked' <=> b \in unlocked
      BY <1>7 DEF OtherInstanceWrites
    <3> QED
      BY <3>1, <3>2, KeptUnchanged
  <2> QED
    BY <1>7, <2>1, <2>2
<1>8. ASSUME UNCHANGED vars PROVE \A b \in Addr : Kept(b)
  BY <1>8, <1>a DEF vars
<1> QED
  BY <1>1, <1>2, <1>3, <1>4, <1>5, <1>6, <1>7, <1>8, StepCases

\* No call of the app leaves anything of an account it has let go, whatever
\* other instances do to the directory.
THEOREM LeavesNothing == Spec => NothingLeftBehind
<1>1. TypeOK /\ [Next]_vars =>
        (\A a \in Addr :
            Accounts(a) \/ ~OtherInstanceWrites(a) =>
                /\ KeyLeft(a)' => KeyLeft(a)
                /\ EditsLeft(a)' => EditsLeft(a)
                /\ ReadLeft(a)' => ReadLeft(a))
  <2> SUFFICES ASSUME TypeOK, [Next]_vars, NEW a \in Addr,
                      Accounts(a) \/ ~OtherInstanceWrites(a)
               PROVE  Kept(a)
    BY DEF Kept
  <2> QED
    BY StepKeeps
<1> QED
  BY <1>1, TypeCorrect, PTL DEF Spec, NothingLeftBehind
=============================================================================
