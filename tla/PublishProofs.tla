---------------------------- MODULE PublishProofs ----------------------------
(***************************************************************************)
(* Theorems about what AccountCore publishes: an update planned from what  *)
(* is staged is one the log takes, it writes every edit it was planned     *)
(* from, and whoever writes, late or not, the logs keep the contract of    *)
(* AccountLogService.                                                      *)
(***************************************************************************)
EXTENDS AccountCoreProofs

-----------------------------------------------------------------------------
(* What is live in a log that others have been appended to.                *)

\* The entries of a log and of what is appended to it, by their numbers.
LEMMA ConcatEntries ==
  ASSUME NEW l \in Logs, NEW p \in Logs
  PROVE  /\ l \o p \in Logs
         /\ Len(l) \in Nat /\ Len(p) \in Nat
         /\ Len(l \o p) = Len(l) + Len(p)
         /\ \A i \in Indices(l) : i \in Indices(l \o p) /\ (l \o p)[i + 1] = l[i + 1]
         /\ \A n \in 1 .. Len(p) : /\ Len(l) + n - 1 \in Indices(l \o p)
                                   /\ (l \o p)[Len(l) + n] = p[n]
<1>1. /\ l \o p \in Logs
      /\ Len(l \o p) = Len(l) + Len(p)
      /\ \A i \in 1 .. Len(l) + Len(p) :
            (l \o p)[i] = IF i <= Len(l) THEN l[i] ELSE p[i - Len(l)]
  BY ConcatProperties DEF Logs
<1>2. Len(l) \in Nat /\ Len(p) \in Nat
  BY DEF Logs
<1> DEFINE m == l \o p
<1>3. /\ m \in Logs /\ Len(m) = Len(l) + Len(p)
      /\ \A i \in 1 .. Len(l) + Len(p) :
            m[i] = IF i <= Len(l) THEN l[i] ELSE p[i - Len(l)]
  BY <1>1
<1> HIDE DEF m, Logs
<1>4. \A i \in Indices(l) : i \in Indices(m) /\ m[i + 1] = l[i + 1]
  BY <1>2, <1>3 DEF Indices
<1>5. ASSUME NEW n \in 1 .. Len(p)
      PROVE  Len(l) + n - 1 \in Indices(m) /\ m[Len(l) + n] = p[n]
  <2>1. /\ Len(l) + n \in 1 .. Len(l) + Len(p) /\ ~(Len(l) + n <= Len(l))
        /\ Len(l) + n - Len(l) = n
        /\ Len(l) + n - 1 \in 0 .. Len(l) + Len(p) - 1
    BY <1>2
  <2> QED
    BY <1>3, <2>1 DEF Indices
<1> QED
  BY <1>2, <1>3, <1>4, <1>5 DEF m

LEMMA AppendedEntry ==
  ASSUME NEW l \in Logs, NEW p \in Logs,
         NEW i \in Indices(l \o p), i \notin Indices(l)
  PROVE  \E n \in 1 .. Len(p) : i = Len(l) + n - 1 /\ (l \o p)[i + 1] = p[n]
<1> DEFINE m == l \o p
           n == i + 1 - Len(l)
<1>1. Len(l) \in Nat /\ Len(p) \in Nat /\ Len(m) = Len(l) + Len(p)
  BY ConcatEntries
<1>2. i \in Len(l) .. Len(l) + Len(p) - 1
  BY <1>1 DEF Indices
<1>3. n \in 1 .. Len(p) /\ i = Len(l) + n - 1 /\ i + 1 = Len(l) + n
  BY <1>1, <1>2
<1>4. m[Len(l) + n] = p[n]
  <2> HIDE DEF n
  <2> QED
    BY <1>3, ConcatEntries
<1> HIDE DEF m, n
<1> QED
  BY <1>3, <1>4 DEF m

\* What was live stays live until it is removed.
LEMMA StillLive ==
  ASSUME NEW l \in Logs, NEW p \in Logs, NEW i \in Live(l),
         \A n \in 1 .. Len(p) : p[n] # Removal(i)
  PROVE  i \in Live(l \o p)
<1> DEFINE m == l \o p
<1>1. i \in Indices(l) /\ i \in Indices(m) /\ m[i + 1] = l[i + 1]
  BY ConcatEntries DEF Live
<1>2. ASSUME NEW j \in Indices(m), j > i PROVE m[j + 1] # Removal(i)
  <2>1. CASE j \in Indices(l)
    <3>1. m[j + 1] = l[j + 1]
      BY <2>1, ConcatEntries
    <3> QED
      BY <1>2, <2>1, <3>1 DEF Live
  <2>2. CASE j \notin Indices(l)
    BY <2>2, AppendedEntry
  <2> QED
    BY <2>1, <2>2
<1> HIDE DEF m
<1>3. i \in Live(m)
  BY <1>1, <1>2 DEF Live
<1> QED
  BY <1>3 DEF m

\* What is live of the log others were appended to was live before.
LEMMA WasLive ==
  ASSUME NEW l \in Logs, NEW p \in Logs, NEW i \in Live(l \o p), i \in Indices(l)
  PROVE  i \in Live(l)
<1> DEFINE m == l \o p
<1>1. \A j \in Indices(l) : j \in Indices(m) /\ m[j + 1] = l[j + 1]
  BY ConcatEntries
<1>2. i \in Live(m)
  OBVIOUS
<1> HIDE DEF m
<1> QED
  BY <1>1, <1>2 DEF Live

\* A key in force is one of the log's, in force before, or one appended.
LEMMA KeyInForce ==
  ASSUME NEW l \in Logs, NEW p \in Logs, NEW k \in LiveKeys(l \o p)
  PROVE  \/ k \in LiveKeys(l)
         \/ \E n \in 1 .. Len(p) : p[n].op = "key" /\ p[n].key = k
<1> DEFINE m == l \o p
<1>1. PICK i \in Live(m) : m[i + 1].op = "key" /\ m[i + 1].key = k
  BY DEF LiveKeys
<1>2. i \in Indices(m)
  BY <1>1 DEF Live
<1>3. CASE i \in Indices(l)
  <2>1. i \in Live(l) /\ m[i + 1] = l[i + 1]
    BY <1>1, <1>3, WasLive, ConcatEntries
  <2> QED
    BY <1>1, <2>1 DEF LiveKeys
<1>4. CASE i \notin Indices(l)
  <2>1. \E n \in 1 .. Len(p) : m[i + 1] = p[n]
    BY <1>2, <1>4, AppendedEntry
  <2> QED
    BY <1>1, <2>1
<1> QED
  BY <1>3, <1>4

-----------------------------------------------------------------------------
(* A plan lists the entries of the edits it is made of, each exactly once. *)

LEMMA SeqsListOnce ==
  ASSUME NEW S, IsFiniteSet(S), NEW s \in SetToSeqs(S)
  PROVE  /\ Cardinality(S) \in Nat
         /\ s \in [1 .. Cardinality(S) -> S]
         /\ \A i, j \in 1 .. Cardinality(S) : s[i] = s[j] => i = j
         /\ \A e \in S : \E i \in 1 .. Cardinality(S) : s[i] = e
<1> DEFINE D == 1 .. Cardinality(S)
<1>1. Cardinality(S) \in Nat
  BY FS_CardinalityType
<1>2. s \in [D -> S] /\ \A i, j \in D : s[i] = s[j] => i = j
  BY DEF SetToSeqs
<1>3. s \in Injection(D, S)
  BY <1>2 DEF Injection, IsInjective
<1>4. IsFiniteSet(D) /\ Cardinality(D) = Cardinality(S)
  BY <1>1, FS_Interval
<1>5. s \in Surjection(D, S)
  <2> HIDE DEF D
  <2> QED
    BY <1>3, <1>4, FS_Injection
<1>6. \A e \in S : \E i \in D : s[i] = e
  BY <1>5 DEF Surjection
<1> QED
  BY <1>1, <1>2, <1>6

\* s lists S: each of its edits once.
Lists(s, S) ==
  /\ s \in Seq(S)
  /\ \A i, j \in DOMAIN s : s[i] = s[j] => i = j
  /\ \A e \in S : \E i \in DOMAIN s : s[i] = e

\* Two listings one after the other, when they have nothing in common.
LEMMA ListsConcat ==
  ASSUME NEW R, NEW W, NEW r, NEW w, Lists(r, R), Lists(w, W), R \cap W = {}
  PROVE  Lists(r \o w, R \cup W)
<1> DEFINE S == R \cup W
           s == r \o w
<1>1. r \in Seq(R) /\ w \in Seq(W) /\ r \in Seq(S) /\ w \in Seq(S)
  <2>1. r \in Seq(R) /\ w \in Seq(W)
    BY DEF Lists
  <2> QED
    BY <2>1, SeqMonotonic
<1>2. /\ s \in Seq(S) /\ Len(s) = Len(r) + Len(w)
      /\ \A i \in 1 .. Len(r) + Len(w) :
            s[i] = IF i <= Len(r) THEN r[i] ELSE w[i - Len(r)]
  <2> HIDE DEF S
  <2> QED
    BY <1>1, ConcatProperties
<1>3. /\ Len(r) \in Nat /\ DOMAIN r = 1 .. Len(r) /\ \A i \in 1 .. Len(r) : r[i] \in R
      /\ Len(w) \in Nat /\ DOMAIN w = 1 .. Len(w) /\ \A i \in 1 .. Len(w) : w[i] \in W
  BY <1>1
<1> HIDE DEF s
<1>4. DOMAIN s = 1 .. Len(r) + Len(w)
  BY <1>2
<1>5. \A i \in 1 .. Len(r) : i \in DOMAIN s /\ s[i] = r[i]
  BY <1>2, <1>3, <1>4
<1>6. \A i \in 1 .. Len(w) : Len(r) + i \in DOMAIN s /\ s[Len(r) + i] = w[i]
  <2> SUFFICES ASSUME NEW i \in 1 .. Len(w)
               PROVE  Len(r) + i \in DOMAIN s /\ s[Len(r) + i] = w[i]
    OBVIOUS
  <2>1. /\ Len(r) + i \in 1 .. Len(r) + Len(w) /\ ~(Len(r) + i <= Len(r))
        /\ Len(r) + i - Len(r) = i
    BY <1>3
  <2> QED
    BY <1>2, <1>4, <2>1
<1>7. ASSUME NEW i \in 1 .. Len(r) + Len(w)
      PROVE  \/ i \in 1 .. Len(r) /\ s[i] = r[i]
             \/ i - Len(r) \in 1 .. Len(w) /\ s[i] = w[i - Len(r)]
  <2>1. i \in 1 .. Len(r) \/ (i - Len(r) \in 1 .. Len(w) /\ ~(i <= Len(r)))
    BY <1>3
  <2>2. CASE i <= Len(r)
    BY <1>2, <1>3, <2>2
  <2>3. CASE ~(i <= Len(r))
    BY <1>2, <1>3, <2>1, <2>3
  <2> QED
    BY <2>2, <2>3
<1>8. ASSUME NEW i \in DOMAIN s, NEW j \in DOMAIN s, s[i] = s[j]
      PROVE  i = j
  <2>0. i \in Int /\ j \in Int /\ Len(r) \in Int
    BY <1>3, <1>4
  <2>1. CASE s[i] \in R
    <3>1. i \in 1 .. Len(r) /\ s[i] = r[i] /\ j \in 1 .. Len(r) /\ s[j] = r[j]
      BY <1>3, <1>4, <1>7, <1>8, <2>1
    <3> QED
      BY <1>3, <1>8, <3>1 DEF Lists
  <2>2. CASE s[i] \notin R
    <3>1. /\ i - Len(r) \in 1 .. Len(w) /\ s[i] = w[i - Len(r)]
          /\ j - Len(r) \in 1 .. Len(w) /\ s[j] = w[j - Len(r)]
      BY <1>3, <1>4, <1>7, <1>8, <2>2
    <3>2. i - Len(r) = j - Len(r)
      BY <1>3, <1>8, <3>1 DEF Lists
    <3> QED
      BY <2>0, <3>2
  <2> QED
    BY <2>1, <2>2
<1>9. ASSUME NEW e \in S PROVE \E i \in DOMAIN s : s[i] = e
  <2>1. CASE e \in R
    <3>1. PICK i \in 1 .. Len(r) : r[i] = e
      BY <1>3, <2>1 DEF Lists
    <3> QED
      BY <1>5, <3>1
  <2>2. CASE e \in W
    <3>1. PICK i \in 1 .. Len(w) : w[i] = e
      BY <1>3, <2>2 DEF Lists
    <3> QED
      BY <1>6, <3>1
  <2> QED
    BY <2>1, <2>2
<1> QED
  BY <1>2, <1>8, <1>9 DEF Lists, s

LEMMA PlanListsEdits ==
  ASSUME NEW S \in SUBSET Edit, IsFiniteSet(S), NEW plan \in Plans(S)
  PROVE  \E s : /\ Lists(s, S)
                /\ DOMAIN plan = DOMAIN s
                /\ \A n \in DOMAIN plan : plan[n] = EntryOf(s[n])
<1> DEFINE R == {e \in S : e.edit = "revoke"}
<1>1. PICK r \in SetToSeqs(R), w \in SetToSeqs(S \ R) :
        plan = [n \in DOMAIN (r \o w) |-> EntryOf((r \o w)[n])]
  BY DEF Plans
<1>2. IsFiniteSet(R) /\ IsFiniteSet(S \ R) /\ S = R \cup (S \ R) /\ R \cap (S \ R) = {}
  BY FS_Subset
<1> HIDE DEF R
<1>3. ASSUME NEW T, IsFiniteSet(T), NEW s \in SetToSeqs(T) PROVE Lists(s, T)
  <2>1. Cardinality(T) \in Nat /\ s \in [1 .. Cardinality(T) -> T]
    BY <1>3, SeqsListOnce
  <2>2. s \in Seq(T) /\ DOMAIN s = 1 .. Cardinality(T)
    BY <2>1
  <2> QED
    BY <1>3, <2>2, SeqsListOnce DEF Lists
<1>4. Lists(r, R) /\ Lists(w, S \ R)
  BY <1>2, <1>3
<1>5. Lists(r \o w, S)
  BY <1>2, <1>4, ListsConcat
<1> QED
  BY <1>1, <1>5

-----------------------------------------------------------------------------
(* An update planned from edits that are all pending.                      *)

\* An edit is one of three kinds, and no two ask for the same entry.
LEMMA EditKinds ==
  ASSUME NEW e \in Edit
  PROVE  \/ /\ e.edit = "add" /\ e.key \in Key /\ e = AddInstallation(e.key)
            /\ EntryOf(e) = Endorsement(e.key)
         \/ /\ e.edit = "rename" /\ e.name \in Name /\ e = SetDisplayName(e.name)
            /\ EntryOf(e) = Naming(e.name)
         \/ /\ e.edit = "revoke" /\ e.index \in Nat /\ e = Revoke(e.index)
            /\ EntryOf(e) = Removal(e.index)
  BY DEF Edit, EntryOf, AddInstallation, SetDisplayName, Revoke

LEMMA EntryOfInjective ==
  ASSUME NEW e \in Edit, NEW f \in Edit, EntryOf(e) = EntryOf(f)
  PROVE  e = f
  BY EditKinds DEF Endorsement, Naming, Removal, AddInstallation, SetDisplayName, Revoke

LEMMA PlanTaken ==
  ASSUME NEW log \in Logs, NEW S \in SUBSET Edit, IsFiniteSet(S),
         \A e \in S : Pending(e, log), NEW plan \in Plans(S)
  PROVE  CanPushAll(log, plan)
<1>1. plan \in Logs
  BY PlansAreLogs
<1>2. PICK s : /\ Lists(s, S)
               /\ DOMAIN plan = DOMAIN s
               /\ \A n \in DOMAIN plan : plan[n] = EntryOf(s[n])
  BY PlanListsEdits
<1>3. /\ Len(plan) \in Nat /\ DOMAIN plan = 1 .. Len(plan)
      /\ \A n \in 1 .. Len(plan) : plan[n] \in Entry
  BY <1>1 DEF Logs
<1>4. \A n \in 1 .. Len(plan) : s[n] \in S /\ s[n] \in Edit /\ plan[n] = EntryOf(s[n])
  <2>1. s \in Seq(S) /\ DOMAIN s = 1 .. Len(plan)
    BY <1>2, <1>3 DEF Lists
  <2> QED
    BY <1>2, <1>3, <2>1
<1>5. \A i, j \in 1 .. Len(plan) : plan[i] = plan[j] => i = j
  <2>1. \A i, j \in 1 .. Len(plan) : s[i] = s[j] => i = j
    BY <1>2, <1>3 DEF Lists
  <2> QED
    BY <1>4, <2>1, EntryOfInjective
<1> SUFFICES ASSUME NEW n \in 1 .. Len(plan)
             PROVE  CanPush(log \o SubSeq(plan, 1, n - 1), plan[n])
  BY DEF CanPushAll
<1> DEFINE before == SubSeq(plan, 1, n - 1)
<1>6. /\ before \in Logs /\ Len(before) = n - 1
      /\ \A i \in 1 .. n - 1 : before[i] = plan[i]
  <2>1. /\ n \in Int /\ 1 \in Int /\ n - 1 \in Int
        /\ \A i \in 1 .. n - 1 : i \in 1 .. Len(plan) /\ plan[i] \in Entry
    BY <1>3
  <2>2. /\ before \in Seq(Entry)
        /\ Len(before) = IF 1 <= n - 1 THEN n - 1 - 1 + 1 ELSE 0
        /\ \A i \in 1 .. n - 1 - 1 + 1 : before[i] = plan[1 + i - 1]
    BY <2>1, SubSeqProperties
  <2> QED
    BY <1>3, <2>1, <2>2 DEF Logs
<1> HIDE DEF before
<1>7. \A i \in 1 .. Len(before) : before[i] # plan[n]
  BY <1>3, <1>5, <1>6
<1>8. CASE s[n].edit = "add"
  <2>1. plan[n] = Endorsement(s[n].key)
    BY <1>4, <1>8, EditKinds
  <2>2. s[n].key \notin LiveKeys(log)
    BY <1>4, <1>8 DEF Pending
  <2>3. ASSUME NEW i \in 1 .. Len(before), before[i].op = "key", before[i].key = s[n].key
        PROVE  FALSE
    <3>1. i \in 1 .. Len(plan) /\ before[i] = plan[i] /\ plan[i] = EntryOf(s[i])
      BY <1>3, <1>4, <1>6
    <3>2. EntryOf(s[i]) = Endorsement(s[i].key)
      <4>1. EntryOf(s[i]).op = "key"
        BY <2>3, <3>1
      <4>2. s[i] \in Edit
        BY <1>4, <3>1
      <4> QED
        BY <4>1, <4>2, EditKinds DEF Naming, Removal
    <3>3. plan[i] = Endorsement(s[n].key)
      <4>1. Endorsement(s[i].key).key = s[i].key
        BY DEF Endorsement
      <4> QED
        BY <2>3, <3>1, <3>2, <4>1
    <3> QED
      BY <1>7, <2>1, <3>1, <3>3
  <2>4. s[n].key \notin LiveKeys(log \o before)
    BY <1>6, <2>2, <2>3, KeyInForce
  <2> QED
    BY <2>1, <2>4 DEF CanPush, Endorsement, before
<1>9. CASE s[n].edit = "rename"
  <2>1. plan[n] = Naming(s[n].name)
    BY <1>4, <1>9, EditKinds
  <2> QED
    BY <2>1 DEF CanPush, Naming
<1>10. CASE s[n].edit = "revoke"
  <2>1. plan[n] = Removal(s[n].index)
    BY <1>4, <1>10, EditKinds
  <2>2. s[n].index \in Live(log)
    BY <1>4, <1>10 DEF Pending
  <2>3. s[n].index \in Live(log \o before)
    BY <1>6, <1>7, <2>1, <2>2, StillLive
  <2> QED
    BY <2>1, <2>3 DEF CanPush, Removal, before
<1> QED
  BY <1>4, <1>8, <1>9, <1>10, EditKinds

\* What an entry of a plan asks for is so once the plan is written: what it
\* adds is live, and what it names is the name in force.
LEMMA PlanWrites ==
  ASSUME NEW log \in Logs, NEW S \in SUBSET Edit, IsFiniteSet(S),
         \A e \in S : Pending(e, log), \A e, f \in S \cap Renames : e = f,
         NEW plan \in Plans(S), NEW e \in S
  PROVE  Holds(log \o plan, e)
<1>1. plan \in Logs
  BY PlansAreLogs
<1>2. PICK s : /\ Lists(s, S)
               /\ DOMAIN plan = DOMAIN s
               /\ \A n \in DOMAIN plan : plan[n] = EntryOf(s[n])
  BY PlanListsEdits
<1>3. Len(plan) \in Nat /\ DOMAIN plan = 1 .. Len(plan) /\ Len(log) \in Nat
  BY <1>1 DEF Logs
<1>4. \A n \in 1 .. Len(plan) : s[n] \in S /\ s[n] \in Edit /\ plan[n] = EntryOf(s[n])
  <2>1. s \in Seq(S) /\ DOMAIN s = 1 .. Len(plan)
    BY <1>2, <1>3 DEF Lists
  <2> QED
    BY <1>2, <1>3, <2>1
<1>5. PICK n \in 1 .. Len(plan) : s[n] = e
  BY <1>2, <1>3 DEF Lists
<1> DEFINE m == log \o plan
           new == Len(log) + n - 1
<1>6. /\ m \in Logs /\ new \in Indices(m) /\ m[new + 1] = plan[n] /\ new \in Nat
      /\ \A i \in Indices(log) : i < new
  <2>1. m \in Logs /\ new \in Indices(m) /\ m[Len(log) + n] = plan[n]
    BY <1>1, ConcatEntries
  <2>2. new + 1 = Len(log) + n /\ new \in Nat /\ \A i \in Indices(log) : i < new
    BY <1>3 DEF Indices
  <2> HIDE DEF new, m
  <2> QED
    BY <2>1, <2>2
<1>7. ASSUME NEW i \in Indices(m), i \notin Indices(log)
      PROVE  \E x \in 1 .. Len(plan) : i = Len(log) + x - 1 /\ m[i + 1] = plan[x]
  BY <1>1, <1>7, AppendedEntry
<1> HIDE DEF m
<1>8. plan[n] = EntryOf(e) /\ e \in Edit
  BY <1>4, <1>5
<1>9. ASSUME plan[n].op \in {"key", "name"} PROVE new \in Live(m)
  <2>1. ASSUME NEW j \in Indices(m), j > new, m[j + 1] = Removal(new) PROVE FALSE
    <3>1. j \notin Indices(log)
      <4> HIDE DEF new
      <4> QED
        BY <1>6, <2>1 DEF Indices
    <3>2. PICK x \in 1 .. Len(plan) : plan[x] = Removal(new)
      BY <1>7, <2>1, <3>1
    <3>3. s[x] \in S /\ s[x] \in Edit /\ EntryOf(s[x]) = Removal(new)
      BY <1>4, <3>2
    <3>4. s[x].edit = "revoke" /\ s[x].index = new
      BY <3>3, EditKinds DEF Endorsement, Naming, Removal
    <3>5. new \in Live(log)
      BY <3>3, <3>4 DEF Pending
    <3> HIDE DEF new
    <3> QED
      BY <1>6, <3>5 DEF Live
  <2> HIDE DEF new
  <2> QED
    BY <1>6, <1>9, <2>1 DEF Live
<1>10. CASE e.edit = "add"
  <2>1. plan[n] = Endorsement(e.key)
    BY <1>8, <1>10, EditKinds
  <2>2. new \in Live(m) /\ m[new + 1].op = "key" /\ m[new + 1].key = e.key
    BY <1>6, <1>9, <2>1 DEF Endorsement
  <2> HIDE DEF new
  <2>3. e.key \in LiveKeys(m)
    BY <2>2 DEF LiveKeys
  <2> QED
    BY <1>10, <2>3 DEF Holds, m
<1>11. CASE e.edit = "rename"
  <2>1. plan[n] = Naming(e.name) /\ e \in Renames
    BY <1>8, <1>11, EditKinds DEF Renames
  <2>2. new \in LiveNameIndices(m) /\ m[new + 1] = Naming(e.name)
    BY <1>6, <1>9, <2>1 DEF Naming, LiveNameIndices
  <2>3. ASSUME NEW j \in LiveNameIndices(m) PROVE j <= new
    <3>1. j \in Indices(m) /\ m[j + 1].op = "name"
      BY DEF LiveNameIndices, Live
    <3>2. CASE j \in Indices(log)
      BY <1>3, <1>6, <3>2 DEF Indices
    <3>3. CASE j \notin Indices(log)
      <4>1. PICK x \in 1 .. Len(plan) : j = Len(log) + x - 1 /\ m[j + 1] = plan[x]
        BY <1>7, <3>1, <3>3
      <4>2. s[x] \in S /\ s[x] \in Edit /\ EntryOf(s[x]).op = "name"
        BY <1>4, <3>1, <4>1
      <4>3. s[x] \in Renames
        BY <4>2, EditKinds DEF Endorsement, Removal, Renames
      <4>4. s[x] = s[n]
        BY <1>5, <2>1, <4>2, <4>3
      <4>5. x = n
        BY <1>2, <1>3, <4>4 DEF Lists
      <4> QED
        BY <1>6, <4>1, <4>5
    <3> QED
      BY <3>2, <3>3
  <2> HIDE DEF new
  <2>4. InForce(e.name, m)
    BY <2>2, <2>3 DEF InForce
  <2> QED
    BY <1>11, <2>4 DEF Holds, m
<1>12. CASE e.edit = "revoke"
  <2>1. plan[n] = Removal(e.index)
    BY <1>8, <1>12, EditKinds
  <2>2. new + 1 \in DOMAIN m
    <3> HIDE DEF new
    <3> QED
      BY <1>6 DEF Indices, Logs
  <2> HIDE DEF new
  <2>3. \E i \in DOMAIN m : m[i] = Removal(e.index)
    BY <1>6, <2>1, <2>2
  <2> QED
    BY <1>12, <2>3 DEF Holds, m
<1> QED
  BY <1>8, <1>10, <1>11, <1>12, EditKinds

-----------------------------------------------------------------------------
(* What is staged can be published.  A revocation is staged of an entry of *)
(* the log held, and that log only grows: so no revocation is staged of a  *)
(* log that holds nothing, which is where settling settles nothing.  While *)
(* a publish waits nothing is staged, so what it posted is all there is.   *)

RevokesOf(S, log) ==
  \A e \in S : e.edit = "revoke" =>
     e.index \in Indices(log) /\ log[e.index + 1].op \in {"key", "name"}

RevokesInv == \A a \in Addr : RevokesOf(staged[a], record[a])

HeldInv == post # NoPost => \A e \in staged[post.addr] : Holds(post.log, e)

PlanInv == LogInv /\ EditsInv /\ RevokesInv /\ HeldInv

LEMMA RevokesOfExtension ==
  ASSUME NEW S, NEW T, NEW l \in Logs, NEW c \in Logs, Extends(c, l),
         RevokesOf(S, l), T \subseteq S
  PROVE  RevokesOf(T, c)
<1>1. Len(l) <= Len(c) /\ \A i \in 1 .. Len(l) : c[i] = l[i]
  BY ExtendsPointwise
<1>2. Len(l) \in Nat /\ Len(c) \in Nat
  BY DEF Logs
<1>3. \A i \in Indices(l) : i \in Indices(c) /\ c[i + 1] = l[i + 1]
  BY <1>1, <1>2 DEF Indices
<1> QED
  BY <1>3 DEF RevokesOf

\* Every edit that settling leaves of a log that can be extended is pending.
LEMMA AllPending ==
  ASSUME NEW S \in SUBSET Edit, NEW log \in Logs, Readable(log),
         log # <<>> => \A e \in S : Pending(e, log), RevokesOf(S, log)
  PROVE  \A e \in S : Pending(e, log)
<1> SUFFICES ASSUME log = <<>>, NEW e \in S PROVE Pending(e, log)
  OBVIOUS
<1>1. Indices(log) = {}
  BY DEF Indices
<1>2. Live(log) = {} /\ LiveKeys(log) = {} /\ ~InForce(e.name, log)
  BY <1>1 DEF Live, LiveKeys, LiveNameIndices, InForce
<1>3. e.edit # "revoke"
  BY <1>1 DEF RevokesOf
<1> QED
  BY <1>2, <1>3, EditKinds DEF Pending

\* An edit that is not pending any more is what the log says.
LEMMA NotPendingHeld ==
  ASSUME NEW e \in Edit, NEW log \in Logs, ~Pending(e, log), RevokesOf({e}, log)
  PROVE  Holds(log, e)
<1>1. CASE e.edit = "add" \/ e.edit = "rename"
  BY <1>1 DEF Pending, Holds
<1>2. CASE e.edit = "revoke"
  <2>1. e.index \in Indices(log) /\ log[e.index + 1].op \in {"key", "name"}
    BY <1>2 DEF RevokesOf
  <2>2. e.index \notin Live(log)
    BY <1>2 DEF Pending
  <2>3. PICK j \in Indices(log) : log[j + 1] = Removal(e.index)
    BY <2>1, <2>2 DEF Live
  <2>4. j + 1 \in DOMAIN log
    BY <2>3 DEF Indices, Logs
  <2> QED
    BY <1>2, <2>3, <2>4 DEF Holds
<1> QED
  BY <1>1, <1>2, EditKinds

\* What reading a log leaves staged.
LEMMA SettledPending ==
  ASSUME TypeOK, RevokesInv, NEW a \in Addr, NEW log \in Adoptable(a)
  PROVE  /\ RevokesOf(staged[a], log) /\ RevokesOf(Settled(staged[a], log), log)
         /\ Readable(log) => \A e \in Settled(staged[a], log) : Pending(e, log)
         /\ \A e \in staged[a] \ Settled(staged[a], log) : Holds(log, e)
<1> DEFINE S == Settled(staged[a], log)
<1>1. log \in Logs /\ Extends(log, record[a]) /\ record[a] \in Logs
  BY AdoptableLog DEF TypeOK
<1>2. staged[a] \in SUBSET Edit /\ IsFiniteSet(staged[a])
  BY DEF TypeOK
<1>3. S \in SUBSET Edit /\ S \subseteq staged[a]
  BY <1>2, SettledStaged
<1>4. RevokesOf(staged[a], log) /\ RevokesOf(S, log)
  BY <1>1, <1>3, RevokesOfExtension DEF RevokesInv
<1>5. ASSUME Readable(log) PROVE \A e \in S : Pending(e, log)
  <2>1. log # <<>> => \A e \in S : Pending(e, log)
    BY <1>5 DEF Settled
  <2> HIDE DEF S
  <2> QED
    BY <1>1, <1>3, <1>4, <1>5, <2>1, AllPending
<1>6. ASSUME NEW e \in staged[a] \ S PROVE Holds(log, e)
  <2>1. ~Pending(e, log) /\ e \in Edit
    BY <1>2 DEF Settled
  <2>2. RevokesOf({e}, log)
    BY <1>4 DEF RevokesOf
  <2> QED
    BY <1>1, <2>1, <2>2, NotPendingHeld
<1> QED
  BY <1>4, <1>5, <1>6

LEMMA StagingRevokes ==
  ASSUME TypeOK, RevokesInv, NEW a \in Addr, Staging(a)
  PROVE  RevokesInv'
<1>1. UNCHANGED record
  BY StagingEffect DEF read
<1>2. \A b \in Addr \ {a} : staged'[b] = staged[b]
  <2>1. PICK S \in SUBSET Edit : staged' = [staged EXCEPT ![a] = S]
    BY StagingEffect
  <2> QED
    BY <2>1 DEF TypeOK
<1>3. RevokesOf(staged'[a], record[a])
  <2>1. CASE \E k \in Key : StageAddInstallation(a, k)
    BY <2>1 DEF StageAddInstallation, Restage, RevokesInv, RevokesOf, AddInstallation, TypeOK
  <2>2. CASE \E n \in Name : StageSetDisplayName(a, n)
    <3>1. PICK n \in Name : StageSetDisplayName(a, n)
      BY <2>2
    <3>2. \/ staged'[a] = (staged[a] \ Renames) \cup {SetDisplayName(n)}
          \/ staged'[a] = staged[a] \ Renames
      BY <3>1 DEF StageSetDisplayName, Restage, TypeOK
    <3> QED
      BY <3>2 DEF RevokesInv, RevokesOf, SetDisplayName
  <2>3. CASE \E i \in Live(Record(a)) : StageRevoke(a, i)
    <3>1. PICK i \in Live(Record(a)) : StageRevoke(a, i)
      BY <2>3
    <3>2. Record(a) = record[a]
      BY <3>1 DEF Record, Live, Indices
    <3>3. i \in Indices(record[a]) /\ record[a][i + 1].op \in {"key", "name"}
      BY <3>1, <3>2 DEF Live
    <3>4. staged'[a] = staged[a] \cup {Revoke(i)}
      BY <3>1 DEF StageRevoke, Restage, TypeOK
    <3> QED
      BY <3>3, <3>4 DEF RevokesInv, RevokesOf, Revoke
  <2>4. CASE DiscardPending(a)
    BY <2>4 DEF DiscardPending, RevokesOf, TypeOK
  <2> QED
    BY <2>1, <2>2, <2>3, <2>4 DEF Staging
<1> QED
  BY <1>1, <1>2, <1>3 DEF RevokesInv

\* Nothing but staging and reading touches what is staged, other than to
\* take it all away; a post is there only while neither happens.
LEMMA EditsOnlyLeave ==
  ASSUME LogInv, LogInv', RevokesInv, HeldInv,
         \A a \in Addr : Extends(record'[a], record[a]),
         \A a \in Addr : staged'[a] \subseteq staged[a],
         \/ post' = NoPost
         \/ post # NoPost /\ post'.addr = post.addr /\ post'.log = post.log
  PROVE  RevokesInv' /\ HeldInv'
<1>1. RevokesInv'
  <2>1. \A a \in Addr : record[a] \in Logs /\ record'[a] \in Logs
    BY DEF LogInv, TypeOK
  <2> QED
    BY <2>1, RevokesOfExtension DEF RevokesInv
<1>2. HeldInv'
  <2>1. post # NoPost => post.addr \in Addr
    BY PostTyped DEF LogInv
  <2> QED
    BY <2>1 DEF HeldInv
<1> QED
  BY <1>1, <1>2

LEMMA ReadKeepsPlan ==
  ASSUME PlanInv, LogInv', NEW a \in Addr, NEW log \in Adoptable(a),
         \/ Refresh(a, log) \/ PublishNotNeeded(a, log)
         \/ PublishRefused(a, log) \/ PublishSends(a, log)
  PROVE  RevokesInv' /\ HeldInv'
<1> USE DEF PlanInv, LogInv
<1>1. /\ record' = [record EXCEPT ![a] = log] /\ post = NoPost
      /\ PublishSends(a, log) \/ UNCHANGED post
  BY ReadKeepsHistory
<1>2. staged' = [staged EXCEPT ![a] = Settled(staged[a], log)]
  BY DEF Refresh, PublishNotNeeded, PublishRefused, PublishSends, PublishReads
<1>3. /\ staged'[a] = Settled(staged[a], log) /\ record'[a] = log
      /\ \A b \in Addr \ {a} : staged'[b] = staged[b] /\ record'[b] = record[b]
  BY <1>1, <1>2 DEF TypeOK
<1>4. /\ RevokesOf(Settled(staged[a], log), log)
      /\ Readable(log) => \A e \in Settled(staged[a], log) : Pending(e, log)
  BY SettledPending
<1>5. RevokesInv'
  BY <1>3, <1>4 DEF RevokesInv
<1>6. CASE UNCHANGED post
  BY <1>1, <1>5, <1>6 DEF HeldInv
<1>7. CASE PublishSends(a, log)
  <2> DEFINE S == Settled(staged[a], log)
  <2>1. PICK plan \in Plans(S) :
          post' = [fate |-> "sent", addr |-> a, firstNew |-> FirstNew(a, log),
                   plan |-> plan, log |-> log \o plan]
    BY <1>7 DEF PublishSends
  <2>2. post'.addr = a /\ post'.log = log \o plan
    BY <2>1
  <2>3. log \in Logs /\ S \in SUBSET Edit /\ IsFiniteSet(S) /\ S \subseteq staged[a]
    BY AdoptableLog, SettledStaged DEF TypeOK
  <2>4. \A e, f \in S \cap Renames : e = f
    BY <2>3 DEF EditsInv, Plannable
  <2>5. \A e \in S : Pending(e, log)
    BY <1>4, <1>7 DEF PublishSends
  <2> HIDE DEF S
  <2>6. \A e \in S : Holds(log \o plan, e)
    BY <2>3, <2>4, <2>5, PlanWrites
  <2> QED
    BY <1>3, <1>5, <2>2, <2>6 DEF HeldInv, S
<1> QED
  BY <1>1, <1>6, <1>7

LEMMA PlanInvKept ==
  ASSUME PlanInv, LogInv', EditsInv', [Next]_vars,
         \A a \in Addr : Extends(record'[a], record[a])
  PROVE  PlanInv'
<1> SUFFICES RevokesInv' /\ HeldInv'
  BY DEF PlanInv
<1> USE DEF PlanInv
<1>1. ASSUME NEW a \in Addr, Accounts(a) PROVE RevokesInv' /\ HeldInv'
  <2>1. UNCHANGED post /\ post = NoPost
    BY <1>1 DEF Accounts, CreateAccount, ImportAccount, Unlock, ForgetAccount, Observe,
                StopObserving, Idle
  <2>2. UNCHANGED staged \/ staged' = [staged EXCEPT ![a] = {}]
    BY <1>1 DEF Accounts, CreateAccount, ImportAccount, Unlock, ForgetAccount, Observe,
                StopObserving, edits
  <2>3. \A b \in Addr : staged'[b] \subseteq staged[b]
    BY <2>2 DEF LogInv, TypeOK
  <2> QED
    BY <2>1, <2>3, EditsOnlyLeave
<1>2. ASSUME NEW a \in Addr, NEW log \in Adoptable(a),
             \/ Refresh(a, log) \/ PublishNotNeeded(a, log)
             \/ PublishRefused(a, log) \/ PublishSends(a, log)
      PROVE  RevokesInv' /\ HeldInv'
  BY <1>2, ReadKeepsPlan
<1>3. ASSUME NEW a \in Addr, Staging(a) PROVE RevokesInv' /\ HeldInv'
  <2>1. UNCHANGED post /\ post = NoPost
    BY <1>3, StagingEffect DEF LogInv, Idle
  <2> QED
    BY <1>3, <2>1, StagingRevokes DEF LogInv, HeldInv
<1>4. ASSUME PublishSucceeds PROVE RevokesInv' /\ HeldInv'
  <2>1. post' = NoPost /\ staged' = [staged EXCEPT ![post.addr] = {}]
    BY <1>4 DEF PublishSucceeds
  <2>2. \A b \in Addr : staged'[b] \subseteq staged[b]
    BY <2>1 DEF LogInv, TypeOK
  <2> QED
    BY <2>1, <2>2, EditsOnlyLeave
<1>5. ASSUME \/ \E a \in Addr : RefreshFails(a) \/ PublishReadFails(a)
             \/ \E m \in wire : StoreServesLate(m) \/ RequestLost(m)
             \/ \E a \in Addr : \E entry \in OtherEntries(a) : OtherDevicePublishes(a, entry)
             \/ \E a \in Addr : OtherInstanceWrites(a)
             \/ UNCHANGED vars
      PROVE  RevokesInv' /\ HeldInv'
  <2>1. UNCHANGED <<staged, post>>
    BY <1>5 DEF RefreshFails, PublishReadFails, ReadFails, StoreServesLate, RequestLost,
                OtherDevicePublishes, OtherInstanceWrites, edits, vars, MayPublish, Idle
  <2> QED
    BY <2>1, EditsOnlyLeave
<1>6. ASSUME PublishDiverges \/ PublishFails PROVE RevokesInv' /\ HeldInv'
  <2>1. UNCHANGED staged /\ post' = NoPost
    BY <1>6 DEF PublishDiverges, PublishFails, edits
  <2> QED
    BY <2>1, EditsOnlyLeave
<1>7. ASSUME StoreServes PROVE RevokesInv' /\ HeldInv'
  <2>1. UNCHANGED staged /\ post # NoPost /\ post \in Post
    BY <1>7, FatePost, PostTyped DEF StoreServes, edits, LogInv
  <2>2. post'.addr = post.addr /\ post'.log = post.log
    BY <1>7, <2>1 DEF StoreServes, Post
  <2> QED
    BY <2>1, <2>2, EditsOnlyLeave
<1> QED
  BY <1>1, <1>2, <1>3, <1>4, <1>5, <1>6, <1>7, StepCases

LEMMA PlanInvHolds == Spec => []PlanInv
<1>1. Init => EditsInv /\ RevokesInv /\ HeldInv
  BY DEF Init, EditsInv, Plannable, RevokesInv, RevokesOf, HeldInv
<1>2. Init => LogInv
  <2>1. <<>> \in Logs
    BY DEF Logs
  <2>2. Extends(<<>>, <<>>)
    BY <2>1, ExtendsReflexive
  <2>3. Init => TypeOK
    BY FS_EmptySet, <2>1 DEF Init, TypeOK, Spellings, Problems
  <2> QED
    BY <2>2, <2>3 DEF Init, LogInv, HistoryInv, PostInv
<1>3. PlanInv /\ LogInv' /\ [Next]_vars => PlanInv'
  <2> SUFFICES ASSUME PlanInv, LogInv', [Next]_vars PROVE PlanInv'
    OBVIOUS
  <2>1. LogInv /\ TypeOK /\ TypeOK' /\ EditsInv
    BY DEF PlanInv, LogInv
  <2>2. EditsInv' /\ \A a \in Addr : Extends(record'[a], record[a])
    BY <2>1, EditsInvKept, LogInvKept
  <2> QED
    BY <2>2, PlanInvKept
<1>4. Init => PlanInv
  BY <1>1, <1>2 DEF PlanInv
<1> QED
  BY <1>3, <1>4, LogInvHolds, PTL DEF Spec

\* Whatever other devices wrote since, an update planned from what is staged is
\* one the log takes, in whichever order its edits are listed (planned_entries,
\* push).
THEOREM NeverRefused == Spec => []PlanNeverRefused
<1>1. PlanInv => PlanNeverRefused
  <2> SUFFICES ASSUME PlanInv, NEW a \in Addr, answered[a], Readable(record[a]),
                      NEW plan \in Plans(staged[a])
               PROVE  CanPushAll(record[a], plan)
    BY DEF PlanNeverRefused
  <2>1. record[a] \in Logs /\ staged[a] \in SUBSET Edit /\ IsFiniteSet(staged[a])
    BY DEF PlanInv, LogInv, TypeOK
  <2>2. RevokesOf(staged[a], record[a])
    BY DEF PlanInv, RevokesInv
  <2>3. record[a] # <<>> => \A e \in staged[a] : Pending(e, record[a])
    BY DEF PlanInv, EditsInv, Plannable
  <2>4. \A e \in staged[a] : Pending(e, record[a])
    BY <2>1, <2>2, <2>3, AllPending
  <2> QED
    BY <2>1, <2>4, PlanTaken
<1> QED
  BY <1>1, PlanInvHolds, PTL

-----------------------------------------------------------------------------
(* Nothing staged, and no count of what was dropped, is lost on the way.   *)

\* Who may take an edit off the list, and when.
MayLeave(a, e) ==
  \/ \E log \in versions[a] : Holds(log, e)
  \/ DiscardPending(a)
  \/ ForgetAccount(a)
  \/ \E n \in Name : StageSetDisplayName(a, n)

LEMMA StagingKeepsOthers ==
  ASSUME TypeOK, NEW a \in Addr, Staging(a), NEW e \in staged[a] \ staged'[a]
  PROVE  DiscardPending(a) \/ \E n \in Name : StageSetDisplayName(a, n)
<1>1. CASE \E k \in Key : StageAddInstallation(a, k)
  BY <1>1 DEF StageAddInstallation, Restage, TypeOK
<1>2. CASE \E i \in Live(Record(a)) : StageRevoke(a, i)
  BY <1>2 DEF StageRevoke, Restage, TypeOK
<1> QED
  BY <1>1, <1>2 DEF Staging

LEMMA StagedLeaves ==
  ASSUME PlanInv, [Next]_vars
  PROVE  \A a \in Addr : \A e \in staged[a] \ staged'[a] : MayLeave(a, e)
<1> USE DEF PlanInv, LogInv
<1>1. ASSUME NEW a \in Addr, Accounts(a)
      PROVE  \A b \in Addr : \A e \in staged[b] \ staged'[b] : MayLeave(b, e)
  <2>1. UNCHANGED staged \/ ForgetAccount(a)
    BY <1>1 DEF Accounts, CreateAccount, ImportAccount, Unlock, Observe, StopObserving, edits
  <2>2. \A b \in Addr \ {a} : staged'[b] = staged[b]
    BY <2>1 DEF ForgetAccount, TypeOK
  <2> QED
    BY <2>1, <2>2 DEF MayLeave
<1>2. ASSUME NEW a \in Addr, NEW log \in Adoptable(a),
             \/ Refresh(a, log) \/ PublishNotNeeded(a, log)
             \/ PublishRefused(a, log) \/ PublishSends(a, log)
      PROVE  \A b \in Addr : \A e \in staged[b] \ staged'[b] : MayLeave(b, e)
  <2>1. staged' = [staged EXCEPT ![a] = Settled(staged[a], log)]
    BY <1>2 DEF Refresh, PublishNotNeeded, PublishRefused, PublishSends, PublishReads
  <2>2. /\ staged'[a] = Settled(staged[a], log)
        /\ \A b \in Addr \ {a} : staged'[b] = staged[b]
    BY <2>1 DEF TypeOK
  <2>3. /\ log \in versions[a]
        /\ \A e \in staged[a] \ Settled(staged[a], log) : Holds(log, e)
    BY AdoptableLog, SettledPending
  <2> QED
    BY <2>2, <2>3 DEF MayLeave
<1>3. ASSUME NEW a \in Addr, Staging(a)
      PROVE  \A b \in Addr : \A e \in staged[b] \ staged'[b] : MayLeave(b, e)
  <2>1. \A b \in Addr \ {a} : staged'[b] = staged[b]
    <3>1. PICK S \in SUBSET Edit : staged' = [staged EXCEPT ![a] = S]
      BY <1>3, StagingEffect
    <3> QED
      BY <3>1 DEF TypeOK
  <2>2. \A e \in staged[a] \ staged'[a] : MayLeave(a, e)
    BY <1>3, StagingKeepsOthers DEF MayLeave
  <2> QED
    BY <2>1, <2>2
<1>4. ASSUME PublishSucceeds
      PROVE  \A b \in Addr : \A e \in staged[b] \ staged'[b] : MayLeave(b, e)
  <2>1. post # NoPost /\ post.fate = "taken" /\ post.addr \in Addr
    BY <1>4, FatePost, PostTyped DEF PublishSucceeds
  <2>2. /\ post.log \in versions[post.addr]
        /\ \A e \in staged[post.addr] : Holds(post.log, e)
    BY <2>1 DEF PostInv, HeldInv
  <2>3. \A b \in Addr \ {post.addr} : staged'[b] = staged[b]
    BY <1>4, <2>1 DEF PublishSucceeds, TypeOK
  <2> QED
    BY <2>1, <2>2, <2>3 DEF MayLeave
<1>5. ASSUME \/ \E a \in Addr : RefreshFails(a) \/ PublishReadFails(a)
             \/ PublishDiverges \/ PublishFails \/ StoreServes
             \/ \E m \in wire : StoreServesLate(m) \/ RequestLost(m)
             \/ \E a \in Addr : \E entry \in OtherEntries(a) : OtherDevicePublishes(a, entry)
             \/ \E a \in Addr : OtherInstanceWrites(a)
             \/ UNCHANGED vars
      PROVE  \A b \in Addr : \A e \in staged[b] \ staged'[b] : MayLeave(b, e)
  BY <1>5 DEF RefreshFails, PublishReadFails, ReadFails, PublishDiverges, PublishFails,
       StoreServes, StoreServesLate, RequestLost, OtherDevicePublishes,
       OtherInstanceWrites, edits, vars
<1> QED
  BY <1>1, <1>2, <1>3, <1>4, <1>5, StepCases

\* A staged edit is given up by the person, or because a log the store took
\* says what it asks for (settle): whatever is read, posted, lost or refused
\* meanwhile.
THEOREM StagedLeft == Spec => StagedLeavesOnlyWhenHeld
<1>1. PlanInv /\ [Next]_vars =>
        (\A a \in Addr : \A e \in staged[a] \ staged'[a] :
            \/ \E log \in versions[a] : Holds(log, e)
            \/ DiscardPending(a)
            \/ ForgetAccount(a)
            \/ \E n \in Name : StageSetDisplayName(a, n))
  BY StagedLeaves DEF MayLeave
<1> QED
  BY <1>1, PlanInvHolds, PTL DEF Spec, StagedLeavesOnlyWhenHeld

\* What answers a count, or takes it away with the account.
Answered(a) ==
  \/ \E log \in Adoptable(a) : Refresh(a, log) \/ PublishNotNeeded(a, log)
  \/ PublishSucceeds
  \/ ForgetAccount(a)
  \/ StopObserving(a)

LEMMA DropsKept ==
  ASSUME TypeOK, [Next]_vars, NEW a \in Addr, dropped'[a] < dropped[a]
  PROVE  Answered(a)
<1>0. dropped[a] \in Nat /\ dropped'[a] # dropped[a]
  BY DEF TypeOK
<1>1. ASSUME NEW b \in Addr, Accounts(b) PROVE Answered(a)
  <2>1. \/ UNCHANGED dropped
        \/ (ForgetAccount(b) \/ StopObserving(b)) /\ dropped' = [dropped EXCEPT ![b] = 0]
    BY <1>1 DEF Accounts, CreateAccount, ImportAccount, Unlock, Observe, ForgetAccount,
                StopObserving, edits
  <2>2. b = a /\ (ForgetAccount(b) \/ StopObserving(b))
    BY <1>0, <2>1 DEF TypeOK
  <2> QED
    BY <2>2 DEF Answered
<1>2. ASSUME NEW b \in Addr, NEW log \in Adoptable(b),
             \/ Refresh(b, log) \/ PublishNotNeeded(b, log)
             \/ PublishRefused(b, log) \/ PublishSends(b, log)
      PROVE  Answered(a)
  <2>1. CASE Refresh(b, log) \/ PublishNotNeeded(b, log)
    <3>1. dropped' = [dropped EXCEPT ![b] = 0]
      BY <2>1 DEF Refresh, PublishNotNeeded
    <3>2. b = a
      BY <1>0, <3>1 DEF TypeOK
    <3> QED
      BY <2>1, <3>2 DEF Answered
  <2>2. CASE PublishReads(b, log)
    <3>1. dropped' = [dropped EXCEPT ![b] = Owed(b, log)]
      BY <2>2 DEF PublishReads
    <3>2. b = a /\ dropped'[a] = Owed(a, log)
      BY <1>0, <3>1 DEF TypeOK
    <3>3. Drops(a, log) \in Nat
      BY SettledStaged DEF Drops, TypeOK
    <3> QED
      BY <1>0, <3>2, <3>3 DEF Owed
  <2> QED
    BY <1>2, <2>1, <2>2 DEF PublishRefused, PublishSends
<1>3. ASSUME \/ \E b \in Addr : RefreshFails(b) \/ PublishReadFails(b)
             \/ \E b \in Addr : Staging(b)
             \/ PublishDiverges \/ PublishFails \/ StoreServes
             \/ \E m \in wire : StoreServesLate(m) \/ RequestLost(m)
             \/ \E b \in Addr : \E entry \in OtherEntries(b) : OtherDevicePublishes(b, entry)
             \/ \E b \in Addr : OtherInstanceWrites(b)
             \/ UNCHANGED vars
      PROVE  FALSE
  <2>1. UNCHANGED dropped
    <3>1. CASE \E b \in Addr : Staging(b)
      BY <3>1, StagingEffect
    <3>2. CASE ~\E b \in Addr : Staging(b)
      BY <1>3, <3>2 DEF RefreshFails, PublishReadFails, ReadFails, PublishDiverges,
         PublishFails, StoreServes, StoreServesLate, RequestLost, OtherDevicePublishes,
         OtherInstanceWrites, edits, vars
    <3> QED
      BY <3>1, <3>2
  <2> QED
    BY <1>0, <2>1
<1>4. ASSUME PublishSucceeds PROVE Answered(a)
  BY <1>4 DEF Answered
<1> QED
  BY <1>1, <1>2, <1>3, <1>4, StepCases

\* A count of dropped edits is not given up before an answer carries it, but
\* with the account's key or by stopping to observe it.
THEOREM DropsAnswered == Spec => DropsReachAnAnswer
<1>1. TypeOK /\ [Next]_vars =>
        (\A a \in Addr :
            dropped'[a] < dropped[a] =>
                \/ \E log \in Adoptable(a) : Refresh(a, log) \/ PublishNotNeeded(a, log)
                \/ PublishSucceeds
                \/ ForgetAccount(a)
                \/ StopObserving(a))
  BY DropsKept DEF Answered
<1> QED
  BY <1>1, TypeCorrect, PTL DEF Spec, DropsReachAnAnswer

-----------------------------------------------------------------------------
(* What a log costs.  An update costs what its edits do, in whichever      *)
(* order it lists them: so the one measured and the one posted cost the    *)
(* same.                                                                   *)

Positions(op, log) == {i \in DOMAIN log : log[i].op = op}

LEMMA PositionsFinite ==
  ASSUME NEW op, NEW log \in Logs
  PROVE  /\ IsFiniteSet(Positions(op, log))
         /\ CountOf(op, log) = Cardinality(Positions(op, log))
         /\ CountOf(op, log) \in Nat
<1>1. DOMAIN log = 1 .. Len(log) /\ Len(log) \in Nat
  BY DEF Logs
<1>2. IsFiniteSet(1 .. Len(log))
  BY <1>1, FS_Interval
<1>3. IsFiniteSet(Positions(op, log))
  BY <1>1, <1>2, FS_Subset DEF Positions
<1>4. Cardinality(Positions(op, log)) \in Nat
  BY <1>3, FS_CardinalityType
<1> QED
  BY <1>3, <1>4 DEF CountOf, Positions

\* A function that is one to one and onto counts its range by its domain.
LEMMA CountedBy ==
  ASSUME NEW S, NEW T, IsFiniteSet(S), NEW f \in [S -> T],
         \A x, y \in S : f[x] = f[y] => x = y,
         \A t \in T : \E x \in S : f[x] = t
  PROVE  IsFiniteSet(T) /\ Cardinality(T) = Cardinality(S)
<1>1. f \in Bijection(S, T)
  BY DEF Bijection, Injection, Surjection, IsInjective
<1> QED
  BY <1>1, FS_Bijection DEF ExistsBijection

LEMMA CountConcat ==
  ASSUME NEW op, NEW l \in Logs, NEW p \in Logs
  PROVE  CountOf(op, l \o p) = CountOf(op, l) + CountOf(op, p)
<1> DEFINE m == l \o p
           A == Positions(op, l)
           C == Positions(op, p)
           B == {Len(l) + i : i \in C}
<1>1. /\ m \in Logs /\ Len(l) \in Nat /\ Len(p) \in Nat /\ Len(m) = Len(l) + Len(p)
      /\ DOMAIN l = 1 .. Len(l) /\ DOMAIN p = 1 .. Len(p)
      /\ DOMAIN m = 1 .. Len(l) + Len(p)
  <2>1. m \in Logs /\ Len(m) = Len(l) + Len(p)
    BY ConcatEntries
  <2> HIDE DEF m
  <2> QED
    BY <2>1 DEF Logs
<1>2. \A i \in 1 .. Len(l) + Len(p) : m[i] = IF i <= Len(l) THEN l[i] ELSE p[i - Len(l)]
  BY ConcatProperties DEF Logs
<1> HIDE DEF m
<1>3. IsFiniteSet(A) /\ IsFiniteSet(C) /\ A \subseteq 1 .. Len(l) /\ C \subseteq 1 .. Len(p)
  BY <1>1, PositionsFinite DEF Positions
<1>4. IsFiniteSet(B) /\ Cardinality(B) = Cardinality(C)
  <2> DEFINE f == [i \in C |-> Len(l) + i]
  <2>1. f \in [C -> B] /\ \A t \in B : \E x \in C : f[x] = t
    OBVIOUS
  <2>2. \A x, y \in C : f[x] = f[y] => x = y
    <3>1. \A x, y \in 1 .. Len(p) : Len(l) + x = Len(l) + y => x = y
      BY <1>1
    <3> HIDE DEF C
    <3> QED
      BY <1>3, <3>1
  <2> HIDE DEF f, B, C
  <2> QED
    BY <1>3, <2>1, <2>2, CountedBy
<1>5. A \cap B = {}
  <2>1. \A i \in 1 .. Len(p) : Len(l) + i \notin 1 .. Len(l)
    BY <1>1
  <2> HIDE DEF A, C
  <2> QED
    BY <1>3, <2>1
<1>6. Positions(op, m) = A \cup B
  <2>1. ASSUME NEW i \in Positions(op, m) PROVE i \in A \cup B
    <3>1. i \in 1 .. Len(l) + Len(p) /\ m[i].op = op
      BY <1>1 DEF Positions
    <3>2. CASE i <= Len(l)
      BY <1>1, <1>2, <3>1, <3>2 DEF Positions
    <3>3. CASE ~(i <= Len(l))
      <4>1. i - Len(l) \in 1 .. Len(p) /\ i = Len(l) + (i - Len(l))
        BY <1>1, <3>1, <3>3
      <4>2. i - Len(l) \in C
        BY <1>1, <1>2, <3>1, <3>3, <4>1 DEF Positions
      <4> QED
        BY <4>1, <4>2
    <3> QED
      BY <3>2, <3>3
  <2>2. ASSUME NEW i \in A PROVE i \in Positions(op, m)
    <3>1. i \in 1 .. Len(l) /\ l[i].op = op /\ i \in 1 .. Len(l) + Len(p) /\ i <= Len(l)
      BY <1>1 DEF Positions
    <3> QED
      BY <1>1, <1>2, <3>1 DEF Positions
  <2>3. ASSUME NEW c \in C PROVE Len(l) + c \in Positions(op, m)
    <3>1. c \in 1 .. Len(p) /\ p[c].op = op
      BY <1>1 DEF Positions
    <3>2. /\ Len(l) + c \in 1 .. Len(l) + Len(p) /\ ~(Len(l) + c <= Len(l))
          /\ Len(l) + c - Len(l) = c
      BY <1>1, <3>1
    <3> QED
      BY <1>1, <1>2, <3>1, <3>2 DEF Positions
  <2> QED
    BY <2>1, <2>2, <2>3
<1> HIDE DEF A, B, C
<1>7. Cardinality(A \cup B) = Cardinality(A) + Cardinality(B)
  <2>1. Cardinality(A \cup B) = Cardinality(A) + Cardinality(B) - Cardinality(A \cap B)
    BY <1>3, <1>4, FS_Union
  <2>2. Cardinality(A \cap B) = 0 /\ Cardinality(A) \in Nat /\ Cardinality(B) \in Nat
    BY <1>3, <1>4, <1>5, FS_EmptySet, FS_CardinalityType
  <2> QED
    BY <2>1, <2>2
<1>8. CountOf(op, m) = Cardinality(A \cup B)
  BY <1>1, <1>6, PositionsFinite
<1>9. CountOf(op, l) = Cardinality(A) /\ CountOf(op, p) = Cardinality(B)
  BY <1>4, PositionsFinite DEF A, C
<1> QED
  BY <1>7, <1>8, <1>9 DEF m

LEMMA PlanCount ==
  ASSUME NEW op, NEW S \in SUBSET Edit, IsFiniteSet(S), NEW plan \in Plans(S)
  PROVE  CountOf(op, plan) = Cardinality({e \in S : EntryOf(e).op = op})
<1> DEFINE C == Positions(op, plan)
           T == {e \in S : EntryOf(e).op = op}
<1>1. plan \in Logs
  BY PlansAreLogs
<1>2. PICK s : /\ Lists(s, S)
               /\ DOMAIN plan = DOMAIN s
               /\ \A n \in DOMAIN plan : plan[n] = EntryOf(s[n])
  BY PlanListsEdits
<1>3. \A n \in DOMAIN plan : s[n] \in S
  BY <1>2 DEF Lists
<1> DEFINE f == [n \in C |-> s[n]]
<1>4. f \in [C -> T]
  BY <1>2, <1>3 DEF Positions
<1>5. \A x, y \in C : f[x] = f[y] => x = y
  BY <1>2 DEF Positions, Lists
<1>6. ASSUME NEW t \in T PROVE \E x \in C : f[x] = t
  <2>1. PICK x \in DOMAIN s : s[x] = t
    BY <1>2 DEF Lists
  <2>2. x \in C
    BY <1>2, <2>1 DEF Positions
  <2> QED
    BY <2>1, <2>2
<1>7. IsFiniteSet(C) /\ CountOf(op, plan) = Cardinality(C)
  BY <1>1, PositionsFinite
<1> HIDE DEF f, C, T
<1>8. Cardinality(T) = Cardinality(C)
  BY <1>4, <1>5, <1>6, <1>7, CountedBy
<1> QED
  BY <1>7, <1>8 DEF T

LEMMA PlansCostTheSame ==
  ASSUME NEW log \in Logs, NEW S \in SUBSET Edit, IsFiniteSet(S),
         NEW plan \in Plans(S), NEW other \in Plans(S)
  PROVE  Size(log \o plan) = Size(log \o other)
<1>1. plan \in Logs /\ other \in Logs
  BY PlansAreLogs
<1>2. ASSUME NEW op
      PROVE  CountOf(op, log \o plan) = CountOf(op, log \o other)
  <2>1. /\ CountOf(op, log \o plan) = CountOf(op, log) + CountOf(op, plan)
        /\ CountOf(op, log \o other) = CountOf(op, log) + CountOf(op, other)
    BY <1>1, CountConcat
  <2>2. CountOf(op, plan) = CountOf(op, other)
    BY PlanCount
  <2> QED
    BY <2>1, <2>2
<1> QED
  BY <1>2 DEF Size

-----------------------------------------------------------------------------
(* The service.  Every log that is served, was served or may yet be served *)
(* is well formed and within budget: a plan is measured on the log it      *)
(* extends, another device's draft takes the entry it appends, and the     *)
(* store takes nothing that does not extend what it holds.                 *)

LEMMA WellFormedConcat ==
  ASSUME NEW l \in Logs, NEW p \in Logs, WellFormed(l), CanPushAll(l, p)
  PROVE  WellFormed(l \o p)
<1> DEFINE m == l \o p
<1>1. /\ m \in Logs /\ Len(l) \in Nat /\ Len(p) \in Nat /\ Len(m) = Len(l) + Len(p)
      /\ \A i \in 1 .. Len(l) + Len(p) : m[i] = IF i <= Len(l) THEN l[i] ELSE p[i - Len(l)]
  BY ConcatEntries, ConcatProperties DEF Logs
<1>2. ASSUME NEW n \in 1 .. Len(l)
      PROVE  SubSeq(m, 1, n - 1) = SubSeq(l, 1, n - 1) /\ m[n] = l[n]
  <2> HIDE DEF m
  <2>1. /\ n \in 1 .. Len(l) + Len(p) /\ n <= Len(l)
        /\ \A i \in 1 .. n - 1 : i \in 1 .. Len(l) + Len(p) /\ i <= Len(l)
    BY <1>1
  <2>2. m[n] = l[n] /\ \A i \in 1 .. n - 1 : m[i] = l[i]
    BY <1>1, <2>1
  <2>3. SubSeq(m, 1, n - 1) = SubSeq(l, 1, n - 1)
    BY <1>1, <2>2 DEF Logs
  <2> QED
    BY <2>2, <2>3
<1>3. ASSUME NEW n \in 1 .. Len(p)
      PROVE  /\ SubSeq(m, 1, Len(l) + n - 1) = l \o SubSeq(p, 1, n - 1)
             /\ m[Len(l) + n] = p[n]
  <2> DEFINE b == SubSeq(p, 1, n - 1)
             c == SubSeq(m, 1, Len(l) + n - 1)
  <2> HIDE DEF m
  <2>1. b \in Logs /\ Len(b) = n - 1 /\ \A i \in 1 .. n - 1 : b[i] = p[i]
    BY <1>1 DEF Logs
  <2>2. /\ c \in Logs /\ Len(c) = Len(l) + n - 1
        /\ \A i \in 1 .. Len(l) + n - 1 : c[i] = m[i]
    <3>1. Len(l) + n - 1 \in 0 .. Len(m)
      BY <1>1
    <3>2. \A k \in 0 .. Len(m) : /\ SubSeq(m, 1, k) \in Logs /\ Len(SubSeq(m, 1, k)) = k
                                  /\ \A i \in 1 .. k : SubSeq(m, 1, k)[i] = m[i]
      BY <1>1 DEF Logs
    <3> QED
      BY <3>1, <3>2
  <2> HIDE DEF b, c
  <2>3. /\ l \o b \in Logs /\ Len(l \o b) = Len(l) + (n - 1)
        /\ \A i \in 1 .. Len(l) + (n - 1) :
              (l \o b)[i] = IF i <= Len(l) THEN l[i] ELSE b[i - Len(l)]
    <3>1. /\ l \o b \in Logs /\ Len(l \o b) = Len(l) + Len(b)
          /\ \A i \in 1 .. Len(l) + Len(b) :
                (l \o b)[i] = IF i <= Len(l) THEN l[i] ELSE b[i - Len(l)]
      BY <2>1, ConcatProperties DEF Logs
    <3> HIDE DEF Logs
    <3> QED
      BY <2>1, <3>1
  <2> DEFINE d == l \o b
  <2> HIDE DEF d
  <2>4. ASSUME NEW i \in 1 .. Len(l) + n - 1 PROVE c[i] = d[i]
    <3>1. /\ i \in 1 .. Len(l) + (n - 1) /\ i \in 1 .. Len(l) + Len(p)
          /\ ~(i <= Len(l)) => i - Len(l) \in 1 .. n - 1
      BY <1>1
    <3>2. CASE i <= Len(l)
      BY <1>1, <2>2, <2>3, <3>1, <3>2 DEF d
    <3>3. CASE ~(i <= Len(l))
      BY <1>1, <2>1, <2>2, <2>3, <3>1, <3>3 DEF d
    <3> QED
      BY <3>2, <3>3
  <2>5. c = d
    <3>1. c \in Seq(Entry) /\ d \in Seq(Entry) /\ Len(c) = Len(d)
      BY <1>1, <2>2, <2>3 DEF Logs, d
    <3> QED
      BY <2>2, <2>4, <3>1, SeqEqual
  <2>6. m[Len(l) + n] = p[n]
    BY ConcatEntries DEF m
  <2> QED
    BY <2>5, <2>6 DEF b, c, d
<1> SUFFICES ASSUME NEW n \in 1 .. Len(m)
             PROVE  CanPush(<<>> \o SubSeq(m, 1, n - 1), m[n])
  BY DEF WellFormed, CanPushAll
<1>4. SubSeq(m, 1, n - 1) \in Seq(Entry)
  <2> HIDE DEF m
  <2> QED
    BY <1>1 DEF Logs
<1>5. <<>> \o SubSeq(m, 1, n - 1) = SubSeq(m, 1, n - 1)
  <2> HIDE DEF m
  <2> QED
    BY <1>4, ConcatEmptySeq
<1>6. CASE n \in 1 .. Len(l)
  <2>1. SubSeq(l, 1, n - 1) \in Seq(Entry)
    BY <1>6 DEF Logs
  <2>2. <<>> \o SubSeq(l, 1, n - 1) = SubSeq(l, 1, n - 1)
    BY <2>1, ConcatEmptySeq
  <2>3. CanPush(<<>> \o SubSeq(l, 1, n - 1), l[n])
    BY <1>6 DEF WellFormed, CanPushAll
  <2> HIDE DEF m
  <2> QED
    BY <1>2, <1>5, <1>6, <2>2, <2>3
<1>7. CASE n \notin 1 .. Len(l)
  <2> DEFINE k == n - Len(l)
  <2>1. k \in 1 .. Len(p) /\ Len(l) + k = n /\ Len(l) + k - 1 = n - 1
    BY <1>1, <1>7
  <2> HIDE DEF k, m
  <2>2. CanPush(l \o SubSeq(p, 1, k - 1), p[k])
    BY <2>1 DEF CanPushAll
  <2>3. SubSeq(m, 1, Len(l) + k - 1) = l \o SubSeq(p, 1, k - 1) /\ m[Len(l) + k] = p[k]
    BY <1>3, <2>1
  <2>4. SubSeq(m, 1, n - 1) = l \o SubSeq(p, 1, k - 1) /\ m[n] = p[k]
    BY <2>1, <2>3
  <2> QED
    BY <1>5, <2>2, <2>4
<1> QED
  BY <1>6, <1>7

LEMMA EmptyLogServed == WellFormed(<<>>) /\ Size(<<>>) <= Budget
<1>1. \A op : CountOf(op, <<>>) = 0
  <2>1. \A op : Positions(op, <<>>) = {}
    BY DEF Positions
  <2> QED
    BY <2>1, FS_EmptySet DEF CountOf, Positions
<1>2. Size(<<>>) = 0
  BY <1>1, BudgetAssumption DEF Size
<1> QED
  BY <1>2, BudgetAssumption DEF WellFormed, CanPushAll

\* One entry more, when the draft takes it.
LEMMA WellFormedAppend ==
  ASSUME NEW l \in Logs, NEW e \in Entry, WellFormed(l), CanPush(l, e)
  PROVE  WellFormed(Append(l, e))
<1> DEFINE p == <<e>>
<1>1. p \in Logs /\ Len(p) = 1 /\ p[1] = e /\ Append(l, e) = l \o p
  BY AppendIsConcat DEF Logs
<1> HIDE DEF p
<1>2. l \o SubSeq(p, 1, 1 - 1) = l
  <2>1. SubSeq(p, 1, 1 - 1) = <<>>
    BY SubSeqEmpty
  <2>2. l \o <<>> = l
    BY ConcatEmptySeq DEF Logs
  <2> QED
    BY <2>1, <2>2
<1>3. CanPushAll(l, p)
  <2> SUFFICES ASSUME NEW n \in 1 .. 1
               PROVE  CanPush(l \o SubSeq(p, 1, n - 1), p[n])
    BY <1>1 DEF CanPushAll
  <2>1. n = 1
    OBVIOUS
  <2> QED
    BY <1>1, <1>2, <2>1
<1> QED
  BY <1>1, <1>3, WellFormedConcat

Sound(log) == WellFormed(log) /\ Size(log) <= Budget

ServedInv ==
  /\ \A a \in Addr : \A log \in versions[a] : Sound(log)
  /\ post # NoPost => Sound(post.log)
  /\ \A m \in wire : Sound(m.log)

\* What a publish posts.
LEMMA SentSound ==
  ASSUME TypeOK, ServedInv, NEW a \in Addr, NEW log \in Adoptable(a),
         PublishSends(a, log)
  PROVE  post' # NoPost /\ Sound(post'.log)
<1> DEFINE S == Settled(staged[a], log)
<1>1. PICK plan \in Plans(S) :
        /\ CanPushAll(log, plan)
        /\ post' = [fate |-> "sent", addr |-> a, firstNew |-> FirstNew(a, log),
                    plan |-> plan, log |-> log \o plan]
  BY DEF PublishSends
<1>2. PICK measured \in Plans(S) : Size(log \o measured) <= Budget
  BY DEF PublishSends, Fits
<1>3. log \in Logs /\ log \in versions[a] /\ S \in SUBSET Edit /\ IsFiniteSet(S)
  BY AdoptableLog, SettledStaged DEF TypeOK
<1> HIDE DEF S
<1>4. plan \in Logs
  BY <1>3, PlansAreLogs
<1>5. WellFormed(log \o plan)
  BY <1>1, <1>3, <1>4, WellFormedConcat DEF ServedInv, Sound
<1>6. Size(log \o plan) <= Budget
  BY <1>2, <1>3, PlansCostTheSame
<1>7. post'.fate = "sent" /\ post'.log = log \o plan
  BY <1>1
<1> QED
  BY <1>5, <1>6, <1>7, <1>1 DEF Sound, NoPost

\* Taking a log makes it one of the versions, and nothing else.
LEMMA TakenSound ==
  ASSUME TypeOK, ServedInv, NEW a \in Addr, NEW log \in Logs, Sound(log),
         StoreTakes(a, log)
  PROVE  \A b \in Addr : \A l \in versions'[b] : Sound(l)
<1>1. versions' = [versions EXCEPT ![a] = versions[a] \cup {log}]
  BY DEF StoreTakes
<1>2. \A b \in Addr : versions'[b] \subseteq versions[b] \cup {log}
  BY <1>1 DEF TypeOK
<1> QED
  BY <1>2 DEF ServedInv

\* What another device appends.
LEMMA OtherSound ==
  ASSUME LogInv, ServedInv, NEW a \in Addr, NEW entry \in OtherEntries(a),
         OtherDevicePublishes(a, entry)
  PROVE  /\ Append(store[a], entry) \in Logs
         /\ Extends(Append(store[a], entry), store[a])
         /\ Sound(Append(store[a], entry))
<1>1. store[a] \in Logs /\ store[a] \in versions[a] /\ entry \in Entry
  BY OtherEntriesTyped DEF LogInv, TypeOK, HistoryInv
<1>2. WellFormed(Append(store[a], entry))
  BY <1>1, WellFormedAppend DEF OtherDevicePublishes, ServedInv, Sound
<1> QED
  BY <1>1, <1>2, AppendExtends DEF OtherDevicePublishes, Sound

\* The service reads a log as the core does.
LEMMA ServiceReads ==
  ASSUME NEW l, NEW k
  PROVE  /\ Service!Extends(l, k) = Extends(l, k)
         /\ Service!WellFormed(l) = WellFormed(l)
         /\ Service!Size(l) = Size(l)
<1>1. Service!Extends(l, k) = Extends(l, k)
  BY DEF Service!Extends, Extends, Service!IsPrefix, IsPrefix
<1>2. \A log : Service!Live(log) = Live(log)
  BY DEF Service!Live, Live, Service!Indices, Indices, Service!Removal, Removal
<1>3. \A log : Service!LiveKeys(log) = LiveKeys(log)
  BY <1>2 DEF Service!LiveKeys, LiveKeys
<1>4. \A log, e : Service!CanPush(log, e) = CanPush(log, e)
  BY <1>2, <1>3 DEF Service!CanPush, CanPush
<1>5. Service!WellFormed(l) = WellFormed(l)
  BY <1>4 DEF Service!WellFormed, WellFormed, Service!CanPushAll, CanPushAll
<1>6. \A op : Service!CountOf(op, l) = CountOf(op, l)
  BY DEF Service!CountOf, CountOf, Service!Cardinality, Cardinality
<1> QED
  BY <1>1, <1>5, <1>6 DEF Service!Size, Size

\* What the service sees of a log the store takes: one update of one account.
LEMMA TakenUpdates ==
  ASSUME TypeOK, NEW a \in Addr, NEW log \in Logs, Extends(log, store[a]),
         Sound(log), StoreTakes(a, log)
  PROVE  Service!Update(a)
<1>1. store' = [store EXCEPT ![a] = log]
  BY DEF StoreTakes
<1>2. store'[a] = log /\ \A b \in Addr \ {a} : store'[b] = store[b]
  BY <1>1 DEF TypeOK
<1> QED
  BY <1>2, ServiceReads DEF Sound, Service!Update

\* A step of the core, of the store or of anyone else is one update of one
\* account's log, or no update at all.
LEMMA ServedInvKept ==
  ASSUME LogInv, ServedInv, [Next]_vars
  PROVE  ServedInv' /\ (UNCHANGED store \/ \E a \in Addr : Service!Update(a))
<1> DEFINE Implements == ServedInv' /\ (UNCHANGED store \/ \E a \in Addr : Service!Update(a))
<1> USE DEF LogInv
<1>a. ASSUME UNCHANGED <<store, versions, wire>>,
             UNCHANGED post \/ post' = NoPost \/ (post' # NoPost /\ Sound(post'.log))
      PROVE  Implements
  BY <1>a DEF ServedInv
<1>1. ASSUME NEW a \in Addr,
             \/ Accounts(a) \/ Staging(a) \/ OtherInstanceWrites(a)
             \/ RefreshFails(a) \/ PublishReadFails(a)
      PROVE  Implements
  <2>1. UNCHANGED <<store, versions, post>>
    BY <1>1, CoreStepsKeepLogs
  <2>2. CASE Accounts(a)
    BY <1>a, <2>1, <2>2 DEF Accounts, CreateAccount, ImportAccount, Unlock, ForgetAccount,
                            Observe, StopObserving, remote
  <2>3. CASE Staging(a)
    BY <1>a, <2>1, <2>3, StagingEffect DEF remote
  <2>4. CASE OtherInstanceWrites(a) \/ RefreshFails(a) \/ PublishReadFails(a)
    BY <1>a, <2>1, <2>4 DEF OtherInstanceWrites, RefreshFails, PublishReadFails, ReadFails,
                            remote
  <2> QED
    BY <1>1, <2>2, <2>3, <2>4
<1>2. ASSUME NEW a \in Addr, NEW log \in Adoptable(a),
             \/ Refresh(a, log) \/ PublishNotNeeded(a, log)
             \/ PublishRefused(a, log) \/ PublishSends(a, log)
      PROVE  Implements
  <2>1. UNCHANGED <<store, versions, wire>>
    BY <1>2 DEF Refresh, PublishNotNeeded, PublishRefused, PublishSends, PublishReads, remote
  <2>2. PublishSends(a, log) \/ UNCHANGED post
    BY <1>2, ReadKeepsHistory
  <2>3. PublishSends(a, log) => post' # NoPost /\ Sound(post'.log)
    BY SentSound
  <2> QED
    BY <1>a, <2>1, <2>2, <2>3
<1>3. ASSUME PublishSucceeds \/ PublishDiverges PROVE Implements
  <2>1. UNCHANGED <<store, versions, wire>> /\ post' = NoPost
    BY <1>3 DEF PublishSucceeds, PublishDiverges, remote
  <2> QED
    BY <1>a, <2>1
<1>4. ASSUME PublishFails PROVE Implements
  <2>1. UNCHANGED <<store, versions>> /\ post' = NoPost /\ Sound(post.log)
    BY <1>4 DEF PublishFails, ServedInv
  <2>2. wire' \subseteq wire \cup {[addr |-> post.addr, log |-> post.log]}
    BY <1>4 DEF PublishFails
  <2>3. \A m \in wire' : Sound(m.log)
    BY <2>1, <2>2 DEF ServedInv
  <2> QED
    BY <2>1, <2>3 DEF ServedInv
<1>5. ASSUME StoreServes PROVE Implements
  <2>1. post # NoPost /\ post \in Post /\ post.addr \in Addr /\ post.log \in Logs
    BY <1>5, FatePost, PostTyped DEF StoreServes
  <2>2. post'.log = post.log /\ Sound(post.log) /\ wire' = wire
    BY <1>5, <2>1 DEF StoreServes, Post, ServedInv
  <2>3. CASE Extends(post.log, store[post.addr])
    <3>1. StoreTakes(post.addr, post.log)
      BY <1>5, <2>3 DEF StoreServes
    <3>2. \A b \in Addr : \A l \in versions'[b] : Sound(l)
      BY <2>1, <2>2, <3>1, TakenSound
    <3>3. Service!Update(post.addr)
      BY <2>1, <2>2, <2>3, <3>1, TakenUpdates
    <3> QED
      BY <2>1, <2>2, <3>2, <3>3 DEF ServedInv
  <2>4. CASE ~Extends(post.log, store[post.addr])
    <3>1. UNCHANGED <<store, versions>>
      BY <1>5, <2>4 DEF StoreServes
    <3> QED
      BY <2>2, <3>1 DEF ServedInv
  <2> QED
    BY <2>3, <2>4
<1>6. ASSUME NEW m \in wire, StoreServesLate(m) \/ RequestLost(m) PROVE Implements
  <2>1. post' = post /\ m.addr \in Addr /\ m.log \in Logs /\ Sound(m.log)
    BY <1>6 DEF StoreServesLate, RequestLost, TypeOK, ServedInv
  <2>2. \A l \in wire' : Sound(l.log)
    BY <1>6 DEF StoreServesLate, RequestLost, ServedInv
  <2>3. CASE UNCHANGED <<store, versions>>
    BY <2>1, <2>2, <2>3 DEF ServedInv
  <2>4. CASE Extends(m.log, store[m.addr]) /\ StoreTakes(m.addr, m.log)
    <3>1. \A b \in Addr : \A l \in versions'[b] : Sound(l)
      BY <2>1, <2>4, TakenSound
    <3>2. Service!Update(m.addr)
      BY <2>1, <2>4, TakenUpdates
    <3> QED
      BY <2>1, <2>2, <3>1, <3>2 DEF ServedInv
  <2> QED
    BY <1>6, <2>3, <2>4 DEF StoreServesLate, RequestLost
<1>7. ASSUME NEW a \in Addr, NEW entry \in OtherEntries(a), OtherDevicePublishes(a, entry)
      PROVE  Implements
  <2> DEFINE log == Append(store[a], entry)
  <2>1. log \in Logs /\ Extends(log, store[a]) /\ Sound(log)
    BY <1>7, OtherSound
  <2>2. StoreTakes(a, log) /\ UNCHANGED <<post, wire>>
    BY <1>7 DEF OtherDevicePublishes
  <2> HIDE DEF log
  <2>3. \A b \in Addr : \A l \in versions'[b] : Sound(l)
    BY <2>1, <2>2, TakenSound
  <2>4. Service!Update(a)
    BY <2>1, <2>2, TakenUpdates
  <2> QED
    BY <2>2, <2>3, <2>4 DEF ServedInv
<1>8. CASE UNCHANGED vars
  BY <1>8, <1>a DEF vars
<1> QED
  BY <1>1, <1>2, <1>3, <1>4, <1>5, <1>6, <1>7, <1>8, StepCases

\* The core, the store and everyone who writes to it implement the log service:
\* seen from outside, every account's log starts empty and only ever changes by
\* one whole update, well formed after what was there and within the budget.
THEOREM ServesLogs == Spec => ServiceContract
<1>1. Init => Service!Init /\ ServedInv
  <2> SUFFICES ASSUME Init PROVE Service!Init /\ ServedInv
    OBVIOUS
  <2>1. /\ store = [a \in Addr |-> <<>>] /\ versions = [a \in Addr |-> {<<>>}]
        /\ post = NoPost /\ wire = {}
    BY DEF Init
  <2> QED
    BY <2>1, EmptyLogServed DEF Service!Init, ServedInv, Sound
<1>2. LogInv /\ ServedInv /\ [Next]_vars =>
        ServedInv' /\ [\E a \in Addr : Service!Update(a)]_store
  BY ServedInvKept
<1> QED
  BY <1>1, <1>2, LogInvHolds, PTL DEF Spec, ServiceContract, Service!Spec
=============================================================================
