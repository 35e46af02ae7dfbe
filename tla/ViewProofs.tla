----------------------------- MODULE ViewProofs -----------------------------
(***************************************************************************)
(* Theorems about View for any accounts, presses and bounds.               *)
(***************************************************************************)
EXTENDS View, FiniteSetTheorems, SequenceTheorems, TLAPS

-----------------------------------------------------------------------------
(* Finite sets of numbers: each element has its rank, and there is a least. *)

Upto(S, n) == {m \in S : m <= n}

LEMMA RankTaken ==
  ASSUME NEW S \in SUBSET Nat, IsFiniteSet(S), NEW k \in 1 .. Cardinality(S)
  PROVE  \E n \in S : Cardinality(Upto(S, n)) = k
<1> DEFINE T == 1 .. Cardinality(S)
           f == [n \in S |-> Cardinality(Upto(S, n))]
<1>1. Cardinality(S) \in Nat
  BY FS_CardinalityType
<1>2. IsFiniteSet(T) /\ Cardinality(T) = Cardinality(S)
  BY <1>1, FS_Interval
<1>3. \A n \in S : /\ IsFiniteSet(Upto(S, n)) /\ Cardinality(Upto(S, n)) \in Nat
                   /\ Cardinality(Upto(S, n)) <= Cardinality(S)
                   /\ Cardinality(Upto(S, n)) # 0
  <2> SUFFICES ASSUME NEW n \in S
               PROVE  /\ IsFiniteSet(Upto(S, n)) /\ Cardinality(Upto(S, n)) \in Nat
                      /\ Cardinality(Upto(S, n)) <= Cardinality(S)
                      /\ Cardinality(Upto(S, n)) # 0
    OBVIOUS
  <2>1. Upto(S, n) \in SUBSET S /\ n \in Upto(S, n)
    BY DEF Upto
  <2>2. IsFiniteSet(Upto(S, n)) /\ Cardinality(Upto(S, n)) <= Cardinality(S)
    BY <2>1, FS_Subset
  <2> QED
    BY <2>1, <2>2, FS_CardinalityType, FS_EmptySet
<1>4. f \in [S -> T]
  <2>1. \A n \in S : Cardinality(Upto(S, n)) \in T
    BY <1>1, <1>3
  <2> QED
    BY <2>1
<1>5. \A m, n \in S : f[m] = f[n] => m = n
  <2>1. ASSUME NEW m \in S, NEW n \in S, m < n
        PROVE  Cardinality(Upto(S, m)) # Cardinality(Upto(S, n))
    <3>0. m \in Nat /\ n \in Nat /\ ~(n <= m) /\ n <= n
          /\ \A x \in S : x \in Nat /\ (x <= m => x <= n)
      BY <2>1
    <3>1. Upto(S, m) \in SUBSET Upto(S, n) /\ n \notin Upto(S, m) /\ n \in Upto(S, n)
      BY <3>0 DEF Upto
    <3>2. IsFiniteSet(Upto(S, n))
      BY <1>3
    <3>3. Cardinality(Upto(S, n)) = Cardinality(Upto(S, m)) => Upto(S, n) = Upto(S, m)
      BY <3>1, <3>2, FS_Subset
    <3> QED
      BY <3>1, <3>3
  <2> SUFFICES ASSUME NEW m \in S, NEW n \in S, m # n PROVE f[m] # f[n]
    OBVIOUS
  <2>2. m < n \/ n < m
    OBVIOUS
  <2> QED
    BY <2>1, <2>2
<1> HIDE DEF f, T
<1>6. f \in Injection(S, T)
  BY <1>4, <1>5 DEF Injection, IsInjective
<1>7. f \in Surjection(S, T)
  BY <1>2, <1>6, FS_Injection
<1>8. \E n \in S : f[n] = k
  BY <1>7 DEF Surjection, T
<1> QED
  BY <1>8 DEF f

LEMMA LeastTaken ==
  ASSUME NEW S \in SUBSET Nat, IsFiniteSet(S), S # {}
  PROVE  \E n \in S : \A m \in S : n <= m
<1>1. Cardinality(S) \in Nat /\ Cardinality(S) # 0
  BY FS_CardinalityType, FS_EmptySet
<1>2. PICK n \in S : Cardinality(Upto(S, n)) = 1
  BY <1>1, RankTaken
<1>3. Upto(S, n) \in SUBSET S /\ n \in Upto(S, n)
  BY DEF Upto
<1>4. IsFiniteSet(Upto(S, n))
  BY <1>3, FS_Subset
<1>5. \E x : Upto(S, n) = {x}
  BY <1>2, <1>4, FS_Singleton
<1>6. Upto(S, n) = {n}
  BY <1>3, <1>5
<1>7. \A m \in S : m <= n => m = n
  BY <1>6 DEF Upto
<1> QED
  BY <1>7

\* What never changes on the way from c to n is there what it was.
LEMMA Unchanging ==
  ASSUME NEW f, NEW c \in Nat, NEW n \in Nat, c <= n,
         \A k \in Nat : c < k /\ k <= n => f[k] = f[k - 1]
  PROVE  f[n] = f[c]
<1> DEFINE D == {k \in c .. n : f[k] # f[c]}
<1>1. IsFiniteSet(D) /\ D \in SUBSET Nat
  <2>1. D \in SUBSET (c .. n) /\ IsFiniteSet(c .. n)
    BY FS_Interval
  <2> QED
    BY <2>1, FS_Subset
<1>2. CASE D = {}
  BY <1>2
<1>3. CASE D # {}
  <2>1. PICK k \in D : \A j \in D : k <= j
    BY <1>1, <1>3, LeastTaken
  <2>2. k \in Nat /\ c < k /\ k <= n /\ f[k] # f[c]
    BY <2>1
  <2>3. f[k] = f[k - 1]
    BY <2>2
  <2>4. k - 1 \in c .. n /\ k - 1 < k
    BY <2>2
  <2>5. k - 1 \in D
    BY <2>2, <2>3, <2>4
  <2> QED
    BY <2>1, <2>4, <2>5
<1> QED
  BY <1>2, <1>3

-----------------------------------------------------------------------------
(* What is said.                                                           *)

Before(steps, n) == IF n = 1 THEN here ELSE steps[n - 1]
Changes(steps) == {n \in DOMAIN steps : steps[n] # Before(steps, n)}
Nth(steps, k) == CHOOSE n \in Changes(steps) : Cardinality(Upto(Changes(steps), n)) = k

LEMMA SaidIs ==
  ASSUME NEW steps
  PROVE  Said(steps) = [k \in 1 .. Cardinality(Changes(steps)) |->
                           Message(steps[Nth(steps, k)], "none", None)]
BY DEF Said, Changes, Nth, Before, Upto

LEMMA ChangesFinite ==
  ASSUME NEW P, NEW steps \in Seq(P)
  PROVE  /\ Changes(steps) \in SUBSET (1 .. Len(steps))
         /\ Changes(steps) \in SUBSET Nat
         /\ IsFiniteSet(Changes(steps))
         /\ Cardinality(Changes(steps)) \in Nat
<1>1. DOMAIN steps = 1 .. Len(steps) /\ Len(steps) \in Nat
  BY LenProperties
<1>2. Changes(steps) \in SUBSET (1 .. Len(steps)) /\ Changes(steps) \in SUBSET Nat
  BY <1>1 DEF Changes
<1>3. IsFiniteSet(1 .. Len(steps))
  BY <1>1, FS_Interval
<1> QED
  BY <1>2, <1>3, FS_Subset, FS_CardinalityType

LEMMA NthTaken ==
  ASSUME NEW P, NEW steps \in Seq(P), NEW k \in 1 .. Cardinality(Changes(steps))
  PROVE  /\ Nth(steps, k) \in Changes(steps)
         /\ Cardinality(Upto(Changes(steps), Nth(steps, k))) = k
<1>1. \E n \in Changes(steps) : Cardinality(Upto(Changes(steps), n)) = k
  BY ChangesFinite, RankTaken
<1> QED
  BY <1>1 DEF Nth

\* Every message says properties that were set, and answers nothing.
Sayings(P) == {Message(p, "none", None) : p \in P}

LEMMA SaidSteps ==
  ASSUME NEW P, NEW steps \in Seq(P)
  PROVE  Said(steps) \in Seq(Sayings(P))
<1> DEFINE N == Cardinality(Changes(steps))
           e(k) == Message(steps[Nth(steps, k)], "none", None)
<1>1. N \in Nat
  BY ChangesFinite
<1>2. ASSUME NEW k \in 1 .. N PROVE e(k) \in Sayings(P)
  <2>1. Nth(steps, k) \in 1 .. Len(steps)
    BY NthTaken, ChangesFinite
  <2>2. steps[Nth(steps, k)] \in P
    BY <2>1, ElementOfSeq
  <2> QED
    BY <2>2 DEF Sayings
<1>3. Said(steps) = [k \in 1 .. N |-> e(k)]
  BY SaidIs
<1> HIDE DEF N, e
<1>4. [k \in 1 .. N |-> e(k)] \in Seq(Sayings(P))
  BY <1>1, <1>2, IsASeq
<1> QED
  BY <1>3, <1>4

\* The properties once all of steps is set.
After(steps) == IF steps = <<>> THEN here ELSE Last(steps)

\* The last thing said, when anything is, is what the properties are.
LEMMA SaidLast ==
  ASSUME NEW P, NEW steps \in Seq(P)
  PROVE  /\ Said(steps) = <<>> => After(steps) = here
         /\ Said(steps) # <<>> => Said(steps)[Len(Said(steps))].props = After(steps)
<1> DEFINE C == Changes(steps)
           L == Len(steps)
           f == [n \in Nat |-> IF n = 0 THEN here ELSE steps[n]]
<1>1. L \in Nat /\ Cardinality(C) \in Nat /\ IsFiniteSet(C) /\ C \in SUBSET (1 .. L)
  BY ChangesFinite, LenProperties
<1>2. After(steps) = f[L]
  BY <1>1, EmptySeq DEF After, Last
<1>3. f[0] = here /\ \A n \in 1 .. L : f[n] = steps[n]
  BY <1>1
<1>4. \A n \in 1 .. L : n \notin C => f[n] = f[n - 1]
  <2> SUFFICES ASSUME NEW n \in 1 .. L, n \notin C PROVE f[n] = f[n - 1]
    OBVIOUS
  <2>1. n \in DOMAIN steps
    BY LenProperties
  <2>2. steps[n] = Before(steps, n)
    BY <2>1 DEF Changes
  <2>3. n - 1 \in Nat /\ (n = 1 \/ (n - 1 \in 1 .. L))
    BY <1>1
  <2> QED
    BY <1>3, <2>2, <2>3 DEF Before
<1>5. Len(Said(steps)) = Cardinality(C)
      /\ \A k \in 1 .. Cardinality(C) : Said(steps)[k].props = steps[Nth(steps, k)]
  BY <1>1, SaidIs DEF Message
<1>6. Said(steps) = <<>> <=> C = {}
  BY <1>1, <1>5, SaidSteps, EmptySeq, FS_EmptySet
<1> HIDE DEF f, L
<1>7. CASE C = {}
  <2>1. \A k \in Nat : 0 < k /\ k <= L => f[k] = f[k - 1]
    BY <1>4, <1>7, <1>1
  <2>2. f[L] = f[0]
    BY <1>1, <2>1, Unchanging
  <2> QED
    BY <1>2, <1>3, <1>6, <1>7, <2>2
<1>8. CASE C # {}
  <2> DEFINE c == Nth(steps, Cardinality(C))
  <2>1. Cardinality(C) \in 1 .. Cardinality(C)
    BY <1>1, <1>8, FS_EmptySet
  <2>2. c \in C /\ Cardinality(Upto(C, c)) = Cardinality(C)
    BY <2>1, NthTaken
  <2> HIDE DEF c
  <2>3. Upto(C, c) \in SUBSET C
    BY DEF Upto
  <2>4. Upto(C, c) = C
    BY <1>1, <2>2, <2>3, FS_Subset
  <2>5. \A n \in C : n <= c
    BY <2>4 DEF Upto
  <2>6. c \in 1 .. L
    BY <1>1, <2>2
  <2>7. \A k \in Nat : c < k /\ k <= L => f[k] = f[k - 1]
    BY <1>1, <1>4, <2>5, <2>6
  <2>8. f[L] = f[c]
    BY <1>1, <2>6, <2>7, Unchanging
  <2>9. Said(steps)[Len(Said(steps))].props = steps[c]
    BY <1>5, <2>1 DEF c
  <2> QED
    BY <1>2, <1>3, <1>6, <1>8, <2>6, <2>8, <2>9
<1> QED
  BY <1>7, <1>8

-----------------------------------------------------------------------------
(* How many of a sequence are of a kind.                                   *)

Hits(s, W) == {n \in DOMAIN s : s[n] \in W}
Many(s, W) == Cardinality(Hits(s, W))

LEMMA HitsFinite ==
  ASSUME NEW S, NEW s \in Seq(S), NEW W
  PROVE  /\ Hits(s, W) \in SUBSET (1 .. Len(s)) /\ IsFiniteSet(Hits(s, W))
         /\ Many(s, W) \in Nat
         /\ Many(s, W) = 0 <=> \A n \in 1 .. Len(s) : s[n] \notin W
<1>1. DOMAIN s = 1 .. Len(s) /\ Len(s) \in Nat
  BY LenProperties
<1>2. IsFiniteSet(1 .. Len(s)) /\ Hits(s, W) \in SUBSET (1 .. Len(s))
  BY <1>1, FS_Interval DEF Hits
<1>3. IsFiniteSet(Hits(s, W))
  BY <1>2, FS_Subset
<1>4. Many(s, W) = 0 <=> Hits(s, W) = {}
  BY <1>3, FS_EmptySet DEF Many
<1> QED
  BY <1>1, <1>2, <1>3, <1>4, FS_CardinalityType DEF Many, Hits

LEMMA ManyNone ==
  ASSUME NEW S, NEW s \in Seq(S), NEW W, S \cap W = {}
  PROVE  Many(s, W) = 0
<1>1. \A n \in 1 .. Len(s) : s[n] \in S
  BY ElementOfSeq
<1> QED
  BY <1>1, HitsFinite

LEMMA ManyOne ==
  ASSUME NEW x, NEW W
  PROVE  Many(<<x>>, W) = IF x \in W THEN 1 ELSE 0
<1>1. Hits(<<x>>, W) = IF x \in W THEN {1} ELSE {}
  BY DEF Hits
<1> QED
  BY <1>1, FS_Singleton, FS_EmptySet DEF Many

LEMMA ManyConcat ==
  ASSUME NEW S, NEW s \in Seq(S), NEW t \in Seq(S), NEW W
  PROVE  Many(s \o t, W) = Many(s, W) + Many(t, W)
<1> DEFINE m == s \o t
           A == Hits(s, W)
           C == Hits(t, W)
           B == {Len(s) + i : i \in C}
<1>1. /\ m \in Seq(S) /\ Len(s) \in Nat /\ Len(t) \in Nat /\ Len(m) = Len(s) + Len(t)
      /\ DOMAIN s = 1 .. Len(s) /\ DOMAIN t = 1 .. Len(t)
      /\ DOMAIN m = 1 .. Len(s) + Len(t)
  <2>1. m \in Seq(S) /\ Len(m) = Len(s) + Len(t)
    BY ConcatProperties
  <2> HIDE DEF m
  <2> QED
    BY <2>1, LenProperties
<1>2. \A i \in 1 .. Len(s) + Len(t) : m[i] = IF i <= Len(s) THEN s[i] ELSE t[i - Len(s)]
  BY ConcatProperties
<1> HIDE DEF m
<1>3. IsFiniteSet(A) /\ IsFiniteSet(C) /\ A \subseteq 1 .. Len(s) /\ C \subseteq 1 .. Len(t)
  BY HitsFinite
<1>4. IsFiniteSet(B) /\ Cardinality(B) = Cardinality(C)
  <2> DEFINE f == [i \in C |-> Len(s) + i]
  <2>1. f \in [C -> B] /\ \A x \in B : \E i \in C : f[i] = x
    OBVIOUS
  <2>2. \A x, y \in C : f[x] = f[y] => x = y
    <3>1. \A x, y \in 1 .. Len(t) : Len(s) + x = Len(s) + y => x = y
      BY <1>1
    <3> HIDE DEF C
    <3> QED
      BY <1>3, <3>1
  <2> HIDE DEF f, B, C
  <2>3. f \in Bijection(C, B)
    BY <2>1, <2>2 DEF Bijection, Injection, Surjection, IsInjective
  <2> QED
    BY <1>3, <2>3, FS_Bijection DEF ExistsBijection
<1>5. A \cap B = {}
  <2>1. \A i \in 1 .. Len(t) : Len(s) + i \notin 1 .. Len(s)
    BY <1>1
  <2> HIDE DEF A, C
  <2> QED
    BY <1>3, <2>1
<1>6. Hits(m, W) = A \cup B
  <2>1. ASSUME NEW i \in Hits(m, W) PROVE i \in A \cup B
    <3>1. i \in 1 .. Len(s) + Len(t) /\ m[i] \in W
      BY <1>1 DEF Hits
    <3>2. CASE i <= Len(s)
      BY <1>1, <1>2, <3>1, <3>2 DEF Hits
    <3>3. CASE ~(i <= Len(s))
      <4>1. i - Len(s) \in 1 .. Len(t) /\ i = Len(s) + (i - Len(s))
        BY <1>1, <3>1, <3>3
      <4>2. i - Len(s) \in C
        BY <1>1, <1>2, <3>1, <3>3, <4>1 DEF Hits
      <4> QED
        BY <4>1, <4>2
    <3> QED
      BY <3>2, <3>3
  <2>2. ASSUME NEW i \in A PROVE i \in Hits(m, W)
    <3>1. i \in 1 .. Len(s) /\ s[i] \in W /\ i \in 1 .. Len(s) + Len(t) /\ i <= Len(s)
      BY <1>1 DEF Hits
    <3> QED
      BY <1>1, <1>2, <3>1 DEF Hits
  <2>3. ASSUME NEW c \in C PROVE Len(s) + c \in Hits(m, W)
    <3>1. c \in 1 .. Len(t) /\ t[c] \in W
      BY <1>1 DEF Hits
    <3>2. /\ Len(s) + c \in 1 .. Len(s) + Len(t) /\ ~(Len(s) + c <= Len(s))
          /\ Len(s) + c - Len(s) = c
      BY <1>1, <3>1
    <3> QED
      BY <1>1, <1>2, <3>1, <3>2 DEF Hits
  <2> QED
    BY <2>1, <2>2, <2>3
<1>7. Cardinality(A) \in Nat /\ Cardinality(C) \in Nat /\ Cardinality(A) = Many(s, W)
      /\ Cardinality(C) = Many(t, W)
  BY HitsFinite DEF Many
<1> HIDE DEF A, B, C
<1>8. Cardinality(A \cup B) = Cardinality(A) + Cardinality(B) - Cardinality(A \cap B)
  BY <1>3, <1>4, FS_Union
<1>9. Cardinality(A \cap B) = 0
  BY <1>5, FS_EmptySet
<1>10. Many(m, W) = Cardinality(A \cup B)
  BY <1>6 DEF Many
<1> QED
  BY <1>4, <1>7, <1>8, <1>9, <1>10 DEF m

\* The first of a sequence and the rest.
LEMMA HeadFirst ==
  ASSUME NEW S, NEW s \in Seq(S), s # <<>>
  PROVE  /\ Head(s) \in S /\ Tail(s) \in Seq(S) /\ s = <<Head(s)>> \o Tail(s)
         /\ Len(s) \in Nat \ {0} /\ Head(s) = s[1] /\ Len(Tail(s)) = Len(s) - 1
         /\ \A n \in 1 .. Len(s) - 1 : Tail(s)[n] = s[n + 1]
<1>1. /\ Head(s) \in S /\ Tail(s) \in Seq(S) /\ Len(Tail(s)) = Len(s) - 1
      /\ \A i \in 1 .. Len(Tail(s)) : Tail(s)[i] = s[i + 1]
  BY HeadTailProperties
<1>2. Len(s) \in Nat \ {0}
  BY EmptySeq
<1>3. Head(s) = s[1]
  OBVIOUS
<1> DEFINE t == <<Head(s)>> \o Tail(s)
<1>4. <<Head(s)>> \in Seq(S) /\ Len(<<Head(s)>>) = 1 /\ <<Head(s)>>[1] = Head(s)
  BY <1>1
<1>5. /\ t \in Seq(S) /\ Len(t) = 1 + Len(Tail(s))
      /\ \A i \in 1 .. 1 + Len(Tail(s)) :
            t[i] = IF i <= 1 THEN <<Head(s)>>[i] ELSE Tail(s)[i - 1]
  BY <1>1, <1>4, ConcatProperties
<1> HIDE DEF t
<1>6. \A i \in 1 .. Len(t) : t[i] = s[i]
  BY <1>1, <1>2, <1>3, <1>4, <1>5
<1>7. Len(t) = Len(s)
  BY <1>1, <1>2, <1>5
<1>8. t = s
  BY <1>5, <1>6, <1>7, SeqEqual
<1> QED
  BY <1>1, <1>2, <1>3, <1>8 DEF t

LEMMA ManyTail ==
  ASSUME NEW S, NEW s \in Seq(S), s # <<>>, NEW W
  PROVE  Many(s, W) = (IF Head(s) \in W THEN 1 ELSE 0) + Many(Tail(s), W)
<1>1. Tail(s) \in Seq(S) /\ s = <<Head(s)>> \o Tail(s) /\ <<Head(s)>> \in Seq(S)
  BY HeadFirst
<1>2. Many(<<Head(s)>> \o Tail(s), W) = Many(<<Head(s)>>, W) + Many(Tail(s), W)
  BY <1>1, ManyConcat
<1> QED
  BY <1>1, <1>2, ManyOne

LEMMA ManyAppend ==
  ASSUME NEW S, NEW s \in Seq(S), NEW x \in S, NEW W
  PROVE  Many(Append(s, x), W) = Many(s, W) + IF x \in W THEN 1 ELSE 0
<1>1. Append(s, x) = s \o <<x>> /\ <<x>> \in Seq(S)
  BY AppendIsConcat
<1>2. Many(s \o <<x>>, W) = Many(s, W) + Many(<<x>>, W)
  BY <1>1, ManyConcat
<1> QED
  BY <1>1, <1>2, ManyOne

-----------------------------------------------------------------------------
(* What the backend does, whichever call it is about.                      *)

\* The calls it makes of its own.
Chained == {c \in Requests : c.what \in {"accounts", "state", "refresh"} /\ c.meant = None}

\* What a reply is answered with.
Endings == {<<>>, <<"failed">>, <<"succeeded">>, <<"exported", "succeeded">>}

For(w)    == {c \in Requests : c.what = w}
Ends(w)   == {m \in Messages : m.what = w /\ m.signal \in {"succeeded", "failed"}}
Within(P) == {m \in Messages : m.props \in P}

\* Properties that busy, set or reset, leaves in P.
Whole(P) == P \subseteq Properties /\ \A p \in P, b \in BOOLEAN : [p EXCEPT !.busy = b] \in P

\* What is said ends with what the properties are.
UpToDate(told, now, before) ==
  /\ told = <<>> => now = before
  /\ told # <<>> => told[Len(told)].props = now

LEMMA SayingsTyped ==
  ASSUME NEW P \in SUBSET Properties
  PROVE  Sayings(P) \subseteq {m \in Within(P) : m.signal = "none"}
BY DEF Sayings, Message, Messages, Within

LEMMA SaidKept ==
  ASSUME NEW P \in SUBSET Properties, NEW steps \in Seq(P)
  PROVE  /\ Said(steps) \in Seq(Within(P))
         /\ \A w : Many(Said(steps), Ends(w)) = 0
         /\ UpToDate(Said(steps), After(steps), here)
<1>1. Said(steps) \in Seq(Sayings(P)) /\ Sayings(P) \subseteq Within(P)
  BY SaidSteps, SayingsTyped
<1>2. \A w : Sayings(P) \cap Ends(w) = {}
  BY SayingsTyped DEF Ends
<1>3. \A w : Many(Said(steps), Ends(w)) = 0
  BY <1>1, <1>2, ManyNone
<1> QED
  BY <1>1, <1>3, SeqMonotonic, SaidLast DEF UpToDate

LEMMA AfterSteps ==
  ASSUME NEW P, here \in P, NEW steps \in Seq(P)
  PROVE  After(steps) \in P
<1>1. steps # <<>> => Len(steps) \in 1 .. Len(steps)
  BY EmptySeq
<1> QED
  BY <1>1, ElementOfSeq DEF After, Last

Answering(p, signals, w) == [n \in DOMAIN signals |-> Message(p, signals[n], w)]

\* One success or one failure, when there is an answer, is the last thing it says.
AnswersWith(ans, P, p, signals, w) ==
  /\ ans \in Seq(Within(P))
  /\ \A v : Many(ans, Ends(v)) = IF signals # <<>> /\ v = w THEN 1 ELSE 0
  /\ \A n \in DOMAIN ans : ans[n].props = p
  /\ signals # <<>> =>
       \E n \in DOMAIN ans : ans[n].what = w /\ ans[n].signal = signals[Len(signals)]

LEMMA AnswerSays ==
  ASSUME NEW P \in SUBSET Properties, NEW p \in P, NEW signals \in Endings, NEW w \in Calls
  PROVE  AnswersWith(Answering(p, signals, w), P, p, signals, w)
<1> DEFINE m(s) == Message(p, s, w)
           ans == Answering(p, signals, w)
<1>1. \A s \in {"none", "succeeded", "failed", "exported"} :
        /\ m(s) \in Within(P) /\ m(s).props = p /\ m(s).what = w /\ m(s).signal = s
  BY DEF Message, Messages, Within
<1>2. \A v : /\ m("succeeded") \in Ends(v) <=> v = w
             /\ m("failed") \in Ends(v) <=> v = w
             /\ m("exported") \notin Ends(v)
  BY <1>1 DEF Ends, Within
<1>3. CASE signals = <<>>
  <2>0. <<>> \in Seq({}) /\ DOMAIN <<>> = {}
    OBVIOUS
  <2>1. ans = <<>>
    <3>1. ans = [n \in {} |-> m(signals[n])]
      BY <1>3, <2>0 DEF Answering
    <3>2. [n \in {} |-> m(signals[n])] = <<>>
      BY <2>0
    <3> QED
      BY <3>1, <3>2
  <2>2. \A v : Many(<<>>, Ends(v)) = 0
    <3>1. \A v : {} \cap Ends(v) = {}
      OBVIOUS
    <3> QED
      BY <2>0, <3>1, ManyNone
  <2>3. <<>> \in Seq(Within(P))
    BY EmptySeq
  <2> QED
    BY <1>3, <2>0, <2>1, <2>2, <2>3 DEF AnswersWith
<1>4. ASSUME NEW s \in {"succeeded", "failed"}, signals = <<s>>
      PROVE  /\ ans = <<m(s)>>
             /\ signals[Len(signals)] = s
  BY <1>4 DEF Answering
<1>5. ASSUME signals = <<"exported", "succeeded">>
      PROVE  /\ ans = <<m("exported"), m("succeeded")>>
             /\ signals[Len(signals)] = "succeeded"
  BY <1>5 DEF Answering
<1> HIDE DEF m
<1>6. ASSUME NEW s \in {"succeeded", "failed"}, signals = <<s>>
      PROVE  /\ ans \in Seq(Within(P))
             /\ \A v : Many(ans, Ends(v)) = IF v = w THEN 1 ELSE 0
             /\ \A n \in DOMAIN ans : ans[n].props = p
             /\ \E n \in DOMAIN ans :
                 /\ ans[n].what = w /\ ans[n].signal = signals[Len(signals)]
  <2>1. \A v : Many(<<m(s)>>, Ends(v)) = IF v = w THEN 1 ELSE 0
    BY <1>2, ManyOne
  <2>2. <<m(s)>> \in Seq(Within(P)) /\ DOMAIN <<m(s)>> = {1} /\ <<m(s)>>[1] = m(s)
    BY <1>1
  <2> HIDE DEF ans
  <2> QED
    BY <1>1, <1>4, <1>6, <2>1, <2>2
<1>7. ASSUME signals = <<"exported", "succeeded">>
      PROVE  /\ ans \in Seq(Within(P))
             /\ \A v : Many(ans, Ends(v)) = IF v = w THEN 1 ELSE 0
             /\ \A n \in DOMAIN ans : ans[n].props = p
             /\ \E n \in DOMAIN ans :
                 /\ ans[n].what = w /\ ans[n].signal = signals[Len(signals)]
  <2> DEFINE x == m("exported")
             y == m("succeeded")
  <2>1. <<x>> \in Seq(Within(P)) /\ <<y>> \in Seq(Within(P)) /\ <<x, y>> = <<x>> \o <<y>>
    BY <1>1
  <2>2. \A v : Many(<<x, y>>, Ends(v)) = Many(<<x>>, Ends(v)) + Many(<<y>>, Ends(v))
    <3> SUFFICES ASSUME NEW v
                 PROVE  Many(<<x, y>>, Ends(v)) = Many(<<x>>, Ends(v)) + Many(<<y>>, Ends(v))
      OBVIOUS
    <3> DEFINE s == <<x>>
               t == <<y>>
    <3>1. s \in Seq(Within(P)) /\ t \in Seq(Within(P)) /\ <<x, y>> = s \o t
      BY <2>1
    <3> HIDE DEF s, t
    <3>2. Many(s \o t, Ends(v)) = Many(s, Ends(v)) + Many(t, Ends(v))
      BY <3>1, ManyConcat
    <3> QED
      BY <3>1, <3>2 DEF s, t
  <2>3. \A v : Many(<<x>>, Ends(v)) = 0 /\ Many(<<y>>, Ends(v)) = IF v = w THEN 1 ELSE 0
    BY <1>2, ManyOne
  <2>4. \A v : Many(<<x, y>>, Ends(v)) = IF v = w THEN 1 ELSE 0
    BY <2>2, <2>3
  <2>5. /\ <<x, y>> \in Seq(Within(P)) /\ DOMAIN <<x, y>> = {1, 2}
        /\ <<x, y>>[1] = x /\ <<x, y>>[2] = y
    BY <1>1
  <2>6. x.props = p /\ y.props = p /\ y.what = w /\ y.signal = "succeeded"
    BY <1>1
  <2> HIDE DEF ans, x, y
  <2>7. ans = <<x, y>> /\ signals[Len(signals)] = "succeeded"
    BY <1>5, <1>7 DEF x, y
  <2>8. \A n \in DOMAIN ans : ans[n].props = p
    BY <2>5, <2>6, <2>7
  <2>9. 2 \in DOMAIN ans /\ ans[2] = y
    BY <2>5, <2>7
  <2> QED
    BY <2>4, <2>5, <2>6, <2>7, <2>8, <2>9
<1> QED
  BY <1>3, <1>6, <1>7 DEF Endings, AnswersWith

LEMMA UpToDateConcat ==
  ASSUME NEW S, NEW s \in Seq(S), NEW t \in Seq(S), NEW now, NEW mid, NEW before,
         UpToDate(s, mid, before), UpToDate(t, now, mid)
  PROVE  UpToDate(s \o t, now, before)
<1>1. /\ Len(s) \in Nat /\ Len(t) \in Nat /\ s \o t \in Seq(S)
      /\ Len(s \o t) = Len(s) + Len(t)
      /\ \A i \in 1 .. Len(s) + Len(t) :
           (s \o t)[i] = IF i <= Len(s) THEN s[i] ELSE t[i - Len(s)]
  BY ConcatProperties, LenProperties
<1>2. CASE t = <<>>
  BY <1>2, ConcatEmptySeq DEF UpToDate
<1>3. CASE t # <<>>
  <2>1. Len(t) # 0
    BY <1>3, EmptySeq
  <2>2. /\ Len(s \o t) \in 1 .. Len(s) + Len(t) /\ ~(Len(s \o t) <= Len(s))
        /\ Len(s \o t) - Len(s) = Len(t)
    BY <1>1, <2>1
  <2>3. (s \o t)[Len(s \o t)] = t[Len(t)]
    BY <1>1, <2>2
  <2>4. s \o t # <<>>
    BY <1>1, <2>2, EmptySeq
  <2> QED
    BY <1>3, <2>3, <2>4 DEF UpToDate
<1> QED
  BY <1>2, <1>3

\* A call that lands: what it leaves to do, and what it says.
LEMMA LandsSays ==
  ASSUME NEW P, Whole(P), here \in P, NEW steps \in Seq(P), NEW calls, NEW signals \in Endings,
         jobs \in Seq(Requests), jobs # <<>>, down \in Seq(Messages),
         Lands(steps, calls, signals)
  PROVE  /\ here' \in P
         /\ jobs' = Tail(jobs) \o calls
         /\ \E told \in Seq(Within(P)) :
              /\ down' = down \o told
              /\ UpToDate(told, here', here)
              /\ \A w : Many(told, Ends(w)) =
                          IF signals # <<>> /\ w = Head(jobs).what THEN 1 ELSE 0
              /\ signals # <<>> =>
                   \E n \in DOMAIN told :
                      /\ told[n].what = Head(jobs).what
                      /\ told[n].signal = signals[Len(signals)]
<1> DEFINE w == Head(jobs).what
           last == After(steps)
           rest == Tail(jobs) \o calls
           idle == [last EXCEPT !.busy = rest # <<>>]
           said == Said(steps)
           ans  == Answering(last, signals, w)
           end  == IF idle = last THEN <<>> ELSE <<Message(idle, "none", None)>>
           told == said \o ans \o end
<1>0. Head(jobs) \in Requests
  BY HeadFirst
<1>1. w \in Calls
  BY <1>0 DEF Requests
<1>2. P \in SUBSET Properties /\ last \in P /\ idle \in P
  BY AfterSteps DEF Whole
<1>3. jobs' = rest /\ here' = idle /\ down' = down \o (said \o ans \o end)
  <2>1. After(steps) = IF steps = <<>> THEN here ELSE Last(steps)
    BY DEF After
  <2>2. ans = [n \in DOMAIN signals |-> Message(last, signals[n], Head(jobs).what)]
    BY DEF Answering
  <2> HIDE DEF ans
  <2> QED
    BY <2>1, <2>2 DEF Lands
<1>4. /\ said \in Seq(Within(P)) /\ \A v : Many(said, Ends(v)) = 0
      /\ UpToDate(said, last, here)
  BY <1>2, SaidKept
<1> HIDE DEF said, idle, last, w, rest
<1>5. /\ ans \in Seq(Within(P))
      /\ \A v : Many(ans, Ends(v)) = IF signals # <<>> /\ v = w THEN 1 ELSE 0
      /\ \A n \in DOMAIN ans : ans[n].props = last
      /\ signals # <<>> =>
           \E n \in DOMAIN ans : ans[n].what = w /\ ans[n].signal = signals[Len(signals)]
  <2>1. AnswersWith(ans, P, last, signals, w)
    BY <1>1, <1>2, AnswerSays
  <2> QED
    BY <2>1 DEF AnswersWith
<1> HIDE DEF ans
<1>6. /\ end \in Seq(Within(P)) /\ \A v : Many(end, Ends(v)) = 0
      /\ end = <<>> => idle = last
      /\ end # <<>> => Len(end) = 1 /\ end[1].props = idle
  <2>1. CASE idle = last
    <3>1. end = <<>> /\ <<>> \in Seq({}) /\ <<>> \in Seq(Within(P))
      BY <2>1
    <3>2. \A v : {} \cap Ends(v) = {}
      OBVIOUS
    <3>3. \A v : Many(<<>>, Ends(v)) = 0
      BY <3>1, <3>2, ManyNone
    <3> QED
      BY <2>1, <3>1, <3>3
  <2>2. CASE idle # last
    <3> DEFINE m == Message(idle, "none", None)
    <3>1. m \in Within(P) /\ m.signal = "none" /\ m.props = idle
      BY <1>2 DEF Message, Within, Messages
    <3>2. \A v : m \notin Ends(v)
      BY <3>1 DEF Ends
    <3> HIDE DEF m
    <3>3. \A v : Many(<<m>>, Ends(v)) = 0
      BY <3>2, ManyOne
    <3>4. end = <<m>>
      BY <2>2 DEF m
    <3> HIDE DEF end
    <3>5. <<m>> \in Seq(Within(P)) /\ <<m>> # <<>> /\ Len(<<m>>) = 1 /\ <<m>>[1] = m
      BY <3>1
    <3> QED
      BY <3>1, <3>3, <3>4, <3>5
  <2> QED
    BY <2>1, <2>2
<1> HIDE DEF end
<1>7. Within(P) \subseteq Messages
  BY DEF Within
<1>8. said \in Seq(Messages) /\ ans \in Seq(Messages) /\ end \in Seq(Messages)
  BY <1>4, <1>5, <1>6, <1>7, SeqMonotonic
<1>9. /\ said \o ans \in Seq(Within(P)) /\ said \o ans \in Seq(Messages)
      /\ Len(said \o ans) = Len(said) + Len(ans)
      /\ \A i \in 1 .. Len(said) + Len(ans) :
           (said \o ans)[i] = IF i <= Len(said) THEN said[i] ELSE ans[i - Len(said)]
  BY <1>4, <1>5, <1>8, ConcatProperties
<1>10. /\ told \in Seq(Within(P))
       /\ Len(told) = Len(said \o ans) + Len(end)
       /\ \A i \in 1 .. Len(said \o ans) + Len(end) :
            told[i] = IF i <= Len(said \o ans) THEN (said \o ans)[i]
                      ELSE end[i - Len(said \o ans)]
  BY <1>6, <1>9, ConcatProperties
<1>11. down' = down \o told
  BY <1>3
<1>12. \A v : Many(told, Ends(v)) = IF signals # <<>> /\ v = w THEN 1 ELSE 0
  <2> SUFFICES ASSUME NEW v
               PROVE  Many(told, Ends(v)) = IF signals # <<>> /\ v = w THEN 1 ELSE 0
    OBVIOUS
  <2>1. Many(said \o ans, Ends(v)) = Many(said, Ends(v)) + Many(ans, Ends(v))
    BY <1>4, <1>5, ManyConcat
  <2>2. Many(told, Ends(v)) = Many(said \o ans, Ends(v)) + Many(end, Ends(v))
    BY <1>6, <1>9, ManyConcat
  <2> QED
    BY <1>4, <1>5, <1>6, <2>1, <2>2
<1>13. /\ Len(said) \in Nat /\ Len(ans) \in Nat /\ Len(end) \in Nat
       /\ DOMAIN ans = 1 .. Len(ans) /\ DOMAIN told = 1 .. Len(told)
  BY <1>4, <1>5, <1>6, <1>10, LenProperties
<1>14. UpToDate(told, here', here)
  <2>1. UpToDate(ans, last, last)
    <3>1. ans # <<>> => Len(ans) \in DOMAIN ans
      BY <1>5, <1>13, EmptySeq
    <3> QED
      BY <1>5, <3>1 DEF UpToDate
  <2>2. UpToDate(end, idle, last)
    BY <1>6 DEF UpToDate
  <2>3. UpToDate(said \o ans, last, here)
    BY <1>4, <1>5, <2>1, UpToDateConcat
  <2>4. UpToDate((said \o ans) \o end, idle, here)
    BY <1>6, <1>9, <2>2, <2>3, UpToDateConcat
  <2> QED
    BY <1>3, <2>4 DEF told
<1> HIDE DEF told
<1>15. signals # <<>> =>
         \E n \in DOMAIN told : told[n].what = w /\ told[n].signal = signals[Len(signals)]
  <2> SUFFICES ASSUME signals # <<>>
               PROVE  \E n \in DOMAIN told :
                         told[n].what = w /\ told[n].signal = signals[Len(signals)]
    OBVIOUS
  <2>1. PICK n \in DOMAIN ans : ans[n].what = w /\ ans[n].signal = signals[Len(signals)]
    BY <1>5
  <2>2. /\ n \in 1 .. Len(ans) /\ Len(said) + n \in 1 .. Len(told)
        /\ Len(said) + n \in 1 .. Len(said \o ans)
        /\ Len(said) + n \in 1 .. Len(said \o ans) + Len(end)
        /\ Len(said) + n - Len(said) = n /\ ~(Len(said) + n <= Len(said))
    BY <1>9, <1>10, <1>13
  <2>3. told[Len(said) + n] = ans[n]
    BY <1>9, <1>10, <2>2
  <2> QED
    BY <1>13, <2>1, <2>2, <2>3
<1> QED
  BY <1>2, <1>3, <1>10, <1>11, <1>12, <1>14, <1>15 DEF rest, w, told

\* A slot called: busy, and perhaps another account on screen.
LEMMA QueuesSays ==
  ASSUME NEW P, Whole(P), here \in P, NEW steps \in Seq(P), NEW calls,
         down \in Seq(Messages), Queues(steps, calls)
  PROVE  /\ here' \in P
         /\ jobs' = jobs \o calls
         /\ \E told \in Seq(Within(P)) :
              /\ down' = down \o told
              /\ UpToDate(told, here', here)
              /\ \A w : Many(told, Ends(w)) = 0
<1> DEFINE p == After(steps)
           q == [p EXCEPT !.busy = TRUE]
           all == IF calls = <<>> THEN steps ELSE Append(steps, q)
<1>1. P \in SUBSET Properties /\ p \in P /\ q \in P
  BY AfterSteps DEF Whole
<1>2. all \in Seq(P)
  BY <1>1, AppendProperties
<1>3. jobs' = jobs \o calls /\ down' = down \o Said(all) /\ here' = After(all)
  BY DEF Queues, After
<1> HIDE DEF all
<1>4. /\ Said(all) \in Seq(Within(P)) /\ \A w : Many(Said(all), Ends(w)) = 0
      /\ UpToDate(Said(all), After(all), here)
  BY <1>1, <1>2, SaidKept
<1>5. After(all) \in P
  BY <1>2, AfterSteps
<1> QED
  BY <1>3, <1>4, <1>5

LEMMA RequestTyped ==
  ASSUME NEW c \in Requests
  PROVE  /\ c.what \in Calls /\ c.addr \in Addr \cup {None} /\ c.meant \in Addr \cup {None}
         /\ c.what \in Takes \cup {"observeAccount"} => c.addr \in Addr
BY DEF Requests

LEMMA CallTyped ==
  ASSUME NEW w \in Calls, NEW a \in Addr \cup {None},
         w \in Takes \cup {"observeAccount"} => a \in Addr
  PROVE  /\ Call(w, a) \in Requests /\ Call(w, a).what = w /\ Call(w, a).addr = a
         /\ Call(w, a).meant = None
         /\ w \in {"accounts", "state", "refresh"} => Call(w, a) \in Chained
BY DEF Call, Requests, Chained

LEMMA WholeProperties == Whole(Properties)
BY DEF Whole, Properties

\* What a slot queues: the call itself, of the selected account when it is
\* about that one, or calls of the backend's own.
LEMMA ArrivesQueues ==
  ASSUME TypeOK, Arrives
  PROVE  /\ up # <<>> /\ alive /\ up' = Tail(up)
         /\ UNCHANGED <<view, alive, held, broken, presses>>
         /\ \E steps \in Seq(Properties), calls \in Seq(Requests) :
              /\ Queues(steps, calls)
              /\ \/ /\ steps = <<>>
                    /\ \E c \in Requests :
                         /\ calls = <<c>>
                         /\ c.what = Head(up).what /\ c.meant = Head(up).meant
                         /\ c.addr = IF c.what \in OfSelected THEN here.selected
                                     ELSE Head(up).addr
                 \/ /\ Head(up).what = "refresh"
                    /\ steps = <<>> /\ calls \in Seq(Chained)
                 \/ /\ Head(up).what = "selectAccount"
                    /\ steps = <<>> /\ calls = <<>>
                 \/ /\ Head(up).what = "selectAccount"
                    /\ steps = <<[here EXCEPT !.selected = Head(up).addr]>>
                    /\ calls = <<Call("state", Head(up).addr), Call("refresh", Head(up).addr)>>
<1> DEFINE c == Head(up)
           Told(steps, calls) ==
              /\ Queues(steps, calls)
              /\ \/ /\ steps = <<>>
                    /\ \E d \in Requests :
                         /\ calls = <<d>>
                         /\ d.what = Head(up).what /\ d.meant = Head(up).meant
                         /\ d.addr = IF d.what \in OfSelected THEN here.selected
                                     ELSE Head(up).addr
                 \/ /\ Head(up).what = "refresh"
                    /\ steps = <<>> /\ calls \in Seq(Chained)
                 \/ /\ Head(up).what = "selectAccount"
                    /\ steps = <<>> /\ calls = <<>>
                 \/ /\ Head(up).what = "selectAccount"
                    /\ steps = <<[here EXCEPT !.selected = Head(up).addr]>>
                    /\ calls = <<Call("state", Head(up).addr), Call("refresh", Head(up).addr)>>
           Goal == \E steps \in Seq(Properties), calls \in Seq(Requests) : Told(steps, calls)
<1>1. /\ up # <<>> /\ alive /\ up' = Tail(up)
      /\ UNCHANGED <<view, alive, held, broken, presses>>
  BY DEF Arrives
<1>2. c \in Requests /\ here \in Properties /\ here.selected \in Addr \cup {None}
  BY <1>1, HeadFirst DEF TypeOK, Properties
<1>3. /\ c.what \in Calls /\ c.addr \in Addr \cup {None}
      /\ c.meant \in Addr \cup {None}
  BY <1>2, RequestTyped
<1>4. <<>> \in Seq(Properties) /\ <<>> \in Seq(Requests) /\ Chained \subseteq Requests
  BY EmptySeq DEF Chained
<1>5. CASE c.what = "selectAccount"
  <2> DEFINE steps == <<[here EXCEPT !.selected = c.addr]>>
             calls == <<Call("state", c.addr), Call("refresh", c.addr)>>
  <2>1. Call("state", c.addr) \in Requests /\ Call("refresh", c.addr) \in Requests
    BY <1>3, CallTyped DEF Calls, Takes
  <2>2. [here EXCEPT !.selected = c.addr] \in Properties
    BY <1>2, <1>3 DEF Properties
  <2>3. steps \in Seq(Properties) /\ calls \in Seq(Requests)
    BY <2>1, <2>2
  <2>4. Queues(<<>>, <<>>) \/ Queues(steps, calls)
    BY <1>5 DEF Arrives, OfSelected
  <2> QED
    BY <1>1, <1>4, <1>5, <2>3, <2>4
<1>6. CASE c.what = "refresh"
  <2> DEFINE d == IF here.selected = None THEN Call("accounts", None)
                  ELSE Call("refresh", here.selected)
  <2>1. d \in Chained
    BY <1>2, CallTyped DEF Calls, Takes
  <2>2. Queues(<<>>, <<d>>)
    BY <1>6 DEF Arrives, OfSelected
  <2> HIDE DEF d
  <2>3. <<d>> \in Seq(Chained) /\ <<d>> \in Seq(Requests)
    BY <1>4, <2>1
  <2> QED
    BY <1>1, <1>4, <1>6, <2>2, <2>3
<1>7. CASE c.what \in OfSelected
  <2> DEFINE d == [c EXCEPT !.addr = here.selected]
  <2>1. /\ d \in Requests /\ d.what = c.what /\ d.meant = c.meant
        /\ d.addr = here.selected
    BY <1>2, <1>3, <1>7 DEF Requests, OfSelected, Takes
  <2>2. Queues(<<>>, <<d>>)
    <3>1. c.what # "selectAccount" /\ c.what # "refresh"
      BY <1>7 DEF OfSelected
    <3> QED
      BY <1>7, <3>1 DEF Arrives
  <2> HIDE DEF d
  <2>3. <<d>> \in Seq(Requests)
    BY <2>1
  <2>4. Told(<<>>, <<d>>)
    BY <1>7, <2>1, <2>2
  <2> QED
    BY <1>1, <1>4, <2>3, <2>4
<1>8. CASE c.what \notin OfSelected \cup {"selectAccount", "refresh"}
  <2>1. Queues(<<>>, <<c>>)
    <3>1. c.what # "selectAccount" /\ c.what # "refresh" /\ c.what \notin OfSelected
      BY <1>8
    <3> QED
      BY <3>1 DEF Arrives
  <2>2. <<c>> \in Seq(Requests)
    BY <1>2
  <2>3. Told(<<>>, <<c>>)
    BY <1>2, <1>8, <2>1
  <2> QED
    BY <1>1, <1>4, <2>2, <2>3
<1> QED
  BY <1>5, <1>6, <1>7, <1>8

-----------------------------------------------------------------------------
(* The replies.                                                            *)

\* Whatever lands, the same account is on screen.
Same == {p \in Properties : p.selected = here.selected}

LEMMA WholeSame == Whole(Same)
BY DEF Whole, Same, Properties

Own == {"accounts", "state", "refresh"}

\* A reply is handled by setting properties, making calls and answering; only
\* an account taken, let go, or found gone puts another on screen.
Handled(steps, calls, signals) ==
  /\ Lands(steps, calls, signals)
  /\ steps \in Seq(Properties) /\ calls \in Seq(Chained) /\ signals \in Endings
  /\ signals # <<>> <=> Head(jobs).what \notin Own
  /\ held' \in SUBSET Addr
  /\ \/ here.selected \notin held
     \/ held' = held /\ steps \in Seq(Same)
     \/ Head(jobs).what \in Moves /\ signals = <<"succeeded">>

LEMMA ChainedCall ==
  ASSUME NEW w \in Own, NEW a \in Addr \cup {None}
  PROVE  Call(w, a) \in Chained
BY CallTyped DEF Own, Calls, Takes

LEMMA HereTyped ==
  ASSUME TypeOK
  PROVE  /\ here \in Properties /\ here \in Same
         /\ here.selected \in Addr \cup {None} /\ held \in SUBSET Addr
BY DEF TypeOK, Properties, Same

LEMMA HeadTyped ==
  ASSUME TypeOK, jobs # <<>>
  PROVE  Head(jobs) \in Requests
<1>1. jobs \in Seq(Requests)
  BY DEF TypeOK
<1> QED
  BY <1>1, HeadFirst

LEMMA AccountsHandled ==
  ASSUME TypeOK, LandAccounts
  PROVE  \E steps, calls, signals : Handled(steps, calls, signals)
<1> DEFINE read   == [here EXCEPT !.problem = FALSE]
           listed == [read EXCEPT !.list = held]
           kept   == here.selected \in held
<1>0. /\ here \in Properties /\ here.selected \in Addr \cup {None} /\ held \in SUBSET Addr
      /\ Head(jobs).what = "accounts" /\ held' = held
  BY HereTyped DEF LandAccounts, Landing
<1>1. /\ Head(jobs).what \in Own /\ Head(jobs).what \notin Moves
      /\ <<>> \in Endings /\ <<>> \in Seq(Chained)
  BY <1>0, EmptySeq DEF Own, Endings, Moves, Takes
<1>2. CASE broken
  <2> DEFINE steps == <<[here EXCEPT !.problem = TRUE]>>
  <2>1. Lands(steps, <<>>, <<>>)
    BY <1>2 DEF LandAccounts
  <2>2. [here EXCEPT !.problem = TRUE] \in Same /\ Same \subseteq Properties
    BY <1>0 DEF Properties, Same
  <2>3. steps \in Seq(Same) /\ steps \in Seq(Properties)
    BY <2>2
  <2> QED
    BY <1>0, <1>1, <2>1, <2>3 DEF Handled
<1>3. CASE ~broken /\ held = {}
  <2> DEFINE steps == <<read, listed, [listed EXCEPT !.selected = None],
                        [listed EXCEPT !.selected = None, !.shown = None]>>
  <2>1. Lands(steps, <<>>, <<>>)
    BY <1>3 DEF LandAccounts
  <2>2. /\ read \in Properties /\ listed \in Properties
        /\ [listed EXCEPT !.selected = None] \in Properties
        /\ [listed EXCEPT !.selected = None, !.shown = None] \in Properties
    BY <1>0 DEF Properties
  <2>3. steps \in Seq(Properties)
    BY <2>2
  <2> QED
    BY <1>0, <1>1, <1>3, <2>1, <2>3 DEF Handled
<1>4. CASE ~broken /\ held # {}
  <2>1. PICK to \in IF kept THEN {here.selected} ELSE held :
          Lands(<<read, listed, [listed EXCEPT !.selected = to]>>,
                <<Call("state", to)>> \o (IF kept THEN <<>> ELSE <<Call("refresh", to)>>),
                <<>>)
    BY <1>4 DEF LandAccounts
  <2> DEFINE steps == <<read, listed, [listed EXCEPT !.selected = to]>>
             calls == <<Call("state", to)>> \o
                          (IF kept THEN <<>> ELSE <<Call("refresh", to)>>)
  <2>2. to \in Addr
    BY <1>0, <2>1
  <2>3. Call("state", to) \in Chained /\ Call("refresh", to) \in Chained
    BY <2>2, ChainedCall DEF Own
  <2>4. calls \in Seq(Chained)
    <3>1. <<Call("state", to)>> \in Seq(Chained) /\ <<Call("refresh", to)>> \in Seq(Chained)
      BY <2>3
    <3> QED
      BY <1>1, <3>1, ConcatProperties
  <2>5. /\ read \in Properties /\ listed \in Properties
        /\ [listed EXCEPT !.selected = to] \in Properties
        /\ kept => /\ read \in Same /\ listed \in Same
                   /\ [listed EXCEPT !.selected = to] \in Same
    BY <1>0, <2>1, <2>2 DEF Properties, Same
  <2>6. steps \in Seq(Properties) /\ (kept => steps \in Seq(Same))
    BY <2>5
  <2>7. Lands(steps, calls, <<>>)
    BY <2>1
  <2> HIDE DEF steps, calls
  <2> QED
    BY <1>0, <1>1, <2>4, <2>6, <2>7 DEF Handled
<1> QED
  BY <1>2, <1>3, <1>4

LEMMA StateHandled ==
  ASSUME TypeOK, LandState
  PROVE  \E steps, calls, signals : Handled(steps, calls, signals)
<1> DEFINE a == Head(jobs).addr
           read == [here EXCEPT !.problem = FALSE]
           steps == IF a # here.selected THEN <<>>
                    ELSE IF broken \/ a \notin held THEN StateRefused
                    ELSE <<read, [read EXCEPT !.shown = a]>>
<1>1. /\ here \in Properties /\ here.selected \in Addr \cup {None} /\ held \in SUBSET Addr
      /\ Head(jobs).what = "state" /\ held' = held /\ Lands(steps, <<>>, <<>>)
  BY HereTyped DEF LandState, Landing
<1>2. Head(jobs).what \in Own /\ <<>> \in Endings /\ <<>> \in Seq(Chained)
  BY <1>1, EmptySeq DEF Own, Endings
<1>3. a \in Addr \cup {None}
  BY HeadTyped, RequestTyped DEF LandState, Landing
<1>4. steps \in Seq(Same)
  <2>1. <<>> \in Seq(Same)
    BY EmptySeq
  <2>2. read \in Same /\ [read EXCEPT !.shown = a] \in Same
        /\ [here EXCEPT !.problem = TRUE] \in Same
    BY <1>1, <1>3 DEF Properties, Same
  <2>3. <<read, [read EXCEPT !.shown = a]>> \in Seq(Same) /\ StateRefused \in Seq(Same)
    BY <2>2 DEF StateRefused
  <2> QED
    BY <2>1, <2>3
<1>5. steps \in Seq(Properties)
  BY <1>4, SeqMonotonic DEF Same
<1> HIDE DEF steps
<1> QED
  BY <1>1, <1>2, <1>4, <1>5 DEF Handled

\* Nothing but calls of the backend's own and an answer.
LEMMA SilentHandled ==
  ASSUME TypeOK, NEW calls \in Seq(Chained), NEW signals \in Endings,
         Lands(<<>>, calls, signals), held' = held,
         signals # <<>> <=> Head(jobs).what \notin Own
  PROVE  Handled(<<>>, calls, signals)
<1>1. <<>> \in Seq(Properties) /\ <<>> \in Seq(Same)
  BY EmptySeq
<1> QED
  BY <1>1, HereTyped DEF Handled

LEMMA RefreshHandled ==
  ASSUME TypeOK, LandRefresh
  PROVE  \E steps, calls, signals : Handled(steps, calls, signals)
<1>1. Call("accounts", None) \in Chained
  BY ChainedCall DEF Own
<1>2. <<Call("accounts", None)>> \in Seq(Chained) /\ <<>> \in Seq(Chained) /\ <<>> \in Endings
  BY <1>1, EmptySeq DEF Endings
<1>3. PICK calls \in {<<Call("accounts", None)>>, <<>>} : Lands(<<>>, calls, <<>>)
  BY DEF LandRefresh
<1>4. Head(jobs).what \in Own /\ held' = held
  BY DEF LandRefresh, Landing, Own
<1>5. calls \in Seq(Chained)
  BY <1>2
<1> QED
  BY <1>2, <1>3, <1>4, <1>5, SilentHandled

LEMMA RefusedHandled ==
  ASSUME TypeOK, NEW what, LandRefused(what)
  PROVE  \E steps, calls, signals : Handled(steps, calls, signals)
<1> DEFINE calls ==
      IF what # "publish" THEN <<>>
      ELSE IF Head(jobs).addr = here.selected THEN <<Call("refresh", here.selected)>>
      ELSE <<Call("accounts", None)>>
<1>1. Call("accounts", None) \in Chained /\ Call("refresh", here.selected) \in Chained
  BY ChainedCall, HereTyped DEF Own
<1>2. calls \in Seq(Chained) /\ <<"failed">> \in Endings
  BY <1>1, EmptySeq DEF Endings
<1>3. Head(jobs).what \notin Own /\ held' = held /\ Lands(<<>>, calls, <<"failed">>)
  BY DEF LandRefused, Landing, Own
<1> HIDE DEF calls
<1> QED
  BY <1>2, <1>3, SilentHandled

LEMMA ListedHandled ==
  ASSUME TypeOK, NEW what, LandListed(what)
  PROVE  \E steps, calls, signals : Handled(steps, calls, signals)
<1>1. Call("accounts", None) \in Chained
  BY ChainedCall DEF Own
<1> DEFINE calls == <<Call("accounts", None)>>
<1>2. calls \in Seq(Chained) /\ <<"succeeded">> \in Endings
  BY <1>1 DEF Endings
<1>3. Head(jobs).what \notin Own /\ held' = held /\ Lands(<<>>, calls, <<"succeeded">>)
  BY DEF LandListed, Landing, Own, OfSelected
<1> HIDE DEF calls
<1> QED
  BY <1>2, <1>3, SilentHandled

LEMMA ExportedHandled ==
  ASSUME TypeOK, LandExported
  PROVE  \E steps, calls, signals : Handled(steps, calls, signals)
<1>1. <<>> \in Seq(Chained) /\ <<"exported", "succeeded">> \in Endings
  BY EmptySeq DEF Endings
<1>2. /\ Head(jobs).what \notin Own /\ held' = held
      /\ Lands(<<>>, <<>>, <<"exported", "succeeded">>)
  BY DEF LandExported, Landing, Own
<1> QED
  BY <1>1, <1>2, SilentHandled

LEMMA TakenHandled ==
  ASSUME TypeOK, NEW what, LandTaken(what)
  PROVE  \E steps, calls, signals : Handled(steps, calls, signals)
<1> DEFINE a == Head(jobs).addr
           steps == <<[here EXCEPT !.selected = a]>>
           calls == <<Call("accounts", None), Call("state", a), Call("refresh", a)>>
<1>1. /\ what \in Takes \cup {"observeAccount"} /\ Head(jobs).what = what /\ jobs # <<>>
      /\ held' = held \cup {a} /\ Lands(steps, calls, <<"succeeded">>)
  BY DEF LandTaken, Landing
<1>2. a \in Addr
  BY <1>1, HeadTyped, RequestTyped
<1>3. Head(jobs).what \notin Own /\ Head(jobs).what \in Moves /\ <<"succeeded">> \in Endings
  BY <1>1 DEF Own, Moves, Takes, Endings
<1>4. calls \in Seq(Chained)
  <2>1. /\ Call("accounts", None) \in Chained /\ Call("state", a) \in Chained
        /\ Call("refresh", a) \in Chained
    BY <1>2, ChainedCall DEF Own
  <2> QED
    BY <2>1
<1>5. steps \in Seq(Properties) /\ held' \in SUBSET Addr
  <2>1. [here EXCEPT !.selected = a] \in Properties
    BY <1>2, HereTyped DEF Properties
  <2> QED
    BY <1>1, <1>2, <2>1, HereTyped
<1>6. <<"succeeded">> # <<>>
  OBVIOUS
<1> HIDE DEF steps, calls
<1> QED
  BY <1>1, <1>3, <1>4, <1>5, <1>6 DEF Handled

LEMMA LeftHandled ==
  ASSUME TypeOK, NEW what, LandLeft(what)
  PROVE  \E steps, calls, signals : Handled(steps, calls, signals)
<1> DEFINE a == Head(jobs).addr
           steps == IF a = here.selected THEN <<[here EXCEPT !.selected = None]>> ELSE <<>>
           calls == <<Call("accounts", None)>>
<1>1. /\ what \in {"forgetAccount", "stopObserving"} /\ Head(jobs).what = what
      /\ held' = held \ {a} /\ Lands(steps, calls, <<"succeeded">>)
  BY DEF LandLeft, Landing
<1>2. Head(jobs).what \notin Own /\ Head(jobs).what \in Moves /\ <<"succeeded">> \in Endings
  BY <1>1 DEF Own, Moves, Endings
<1>3. calls \in Seq(Chained)
  <2>1. Call("accounts", None) \in Chained
    BY ChainedCall DEF Own
  <2> QED
    BY <2>1
<1>4. steps \in Seq(Properties) /\ held' \in SUBSET Addr
  <2>1. [here EXCEPT !.selected = None] \in Properties
    BY HereTyped DEF Properties
  <2> QED
    BY <1>1, <2>1, HereTyped, EmptySeq
<1>5. <<"succeeded">> # <<>>
  OBVIOUS
<1> HIDE DEF steps, calls
<1> QED
  BY <1>1, <1>2, <1>3, <1>4, <1>5 DEF Handled

LEMMA LandsHandled ==
  ASSUME TypeOK, LandsNext
  PROVE  jobs # <<>> /\ alive /\ \E steps, calls, signals : Handled(steps, calls, signals)
<1>1. jobs # <<>> /\ alive
  BY DEF LandsNext, LandAccounts, LandState, LandRefresh, LandExported, LandRefused,
         LandListed, LandTaken, LandLeft, Landing
<1>2. CASE LandAccounts \/ LandState \/ LandRefresh \/ LandExported
  BY <1>1, <1>2, AccountsHandled, StateHandled, RefreshHandled, ExportedHandled
<1>3. ASSUME NEW what \in Calls,
             LandRefused(what) \/ LandListed(what) \/ LandTaken(what) \/ LandLeft(what)
      PROVE  \E steps, calls, signals : Handled(steps, calls, signals)
  BY <1>3, RefusedHandled, ListedHandled, TakenHandled, LeftHandled
<1> QED
  BY <1>1, <1>2, <1>3 DEF LandsNext

\* A reply, whatever it is of, as the rest of this module needs it.
LEMMA LandingSays ==
  ASSUME TypeOK, LandsNext
  PROVE  /\ jobs # <<>> /\ alive /\ held' \in SUBSET Addr /\ here' \in Properties
         /\ UNCHANGED <<view, up, alive, broken, presses>>
         /\ \E calls \in Seq(Chained), told \in Seq(Messages) :
              /\ jobs' = Tail(jobs) \o calls /\ down' = down \o told
              /\ UpToDate(told, here', here)
              /\ \A w : Many(told, Ends(w)) =
                          IF w = Head(jobs).what /\ w \notin Own THEN 1 ELSE 0
              /\ \/ here.selected \notin held
                 \/ held' = held /\ here' \in Same /\ told \in Seq(Within(Same))
                 \/ /\ Head(jobs).what \in Moves
                    /\ \E n \in DOMAIN told : told[n].what = Head(jobs).what
                                               /\ told[n].signal = "succeeded"
<1>1. PICK steps, calls, signals : Handled(steps, calls, signals)
  BY LandsHandled
<1>2. /\ jobs # <<>> /\ alive /\ held' \in SUBSET Addr
      /\ UNCHANGED <<view, up, alive, broken, presses>>
  BY <1>1, LandsHandled DEF Handled, Lands
<1>3. /\ jobs \in Seq(Requests) /\ down \in Seq(Messages)
      /\ steps \in Seq(Properties) /\ calls \in Seq(Chained) /\ signals \in Endings
      /\ Lands(steps, calls, signals) /\ here \in Properties /\ here \in Same
  BY <1>1, HereTyped DEF Handled, TypeOK
<1>4. CASE held' = held /\ steps \in Seq(Same)
  <2>1. /\ here' \in Same /\ jobs' = Tail(jobs) \o calls
        /\ \E told \in Seq(Within(Same)) :
              /\ down' = down \o told
              /\ UpToDate(told, here', here)
              /\ \A w : Many(told, Ends(w)) =
                          IF signals # <<>> /\ w = Head(jobs).what THEN 1 ELSE 0
    BY <1>2, <1>3, <1>4, LandsSays, WholeSame
  <2>2. PICK told \in Seq(Within(Same)) :
              /\ down' = down \o told
              /\ UpToDate(told, here', here)
              /\ \A w : Many(told, Ends(w)) =
                          IF signals # <<>> /\ w = Head(jobs).what THEN 1 ELSE 0
    BY <2>1
  <2>3. told \in Seq(Messages) /\ here' \in Properties
    BY <2>1, SeqMonotonic DEF Within, Same
  <2>4. \A w : Many(told, Ends(w)) = IF w = Head(jobs).what /\ w \notin Own THEN 1 ELSE 0
    BY <1>1, <2>2 DEF Handled
  <2> QED
    BY <1>2, <1>3, <1>4, <2>1, <2>2, <2>3, <2>4
<1>5. CASE ~(held' = held /\ steps \in Seq(Same))
  <2>1. /\ here' \in Properties /\ jobs' = Tail(jobs) \o calls
        /\ \E told \in Seq(Within(Properties)) :
              /\ down' = down \o told
              /\ UpToDate(told, here', here)
              /\ \A w : Many(told, Ends(w)) =
                          IF signals # <<>> /\ w = Head(jobs).what THEN 1 ELSE 0
              /\ signals # <<>> =>
                   \E n \in DOMAIN told :
                      /\ told[n].what = Head(jobs).what
                      /\ told[n].signal = signals[Len(signals)]
    BY <1>2, <1>3, LandsSays, WholeProperties
  <2>2. PICK told \in Seq(Within(Properties)) :
              /\ down' = down \o told
              /\ UpToDate(told, here', here)
              /\ \A w : Many(told, Ends(w)) =
                          IF signals # <<>> /\ w = Head(jobs).what THEN 1 ELSE 0
              /\ signals # <<>> =>
                   \E n \in DOMAIN told :
                      /\ told[n].what = Head(jobs).what
                      /\ told[n].signal = signals[Len(signals)]
    BY <2>1
  <2>3. told \in Seq(Messages)
    BY SeqMonotonic DEF Within
  <2>4. \A w : Many(told, Ends(w)) = IF w = Head(jobs).what /\ w \notin Own THEN 1 ELSE 0
    BY <1>1, <2>2 DEF Handled
  <2>5. \/ here.selected \notin held
        \/ /\ Head(jobs).what \in Moves
           /\ \E n \in DOMAIN told : told[n].what = Head(jobs).what
                                      /\ told[n].signal = "succeeded"
    <3>1. CASE Head(jobs).what \in Moves /\ signals = <<"succeeded">>
      <4>1. signals # <<>> /\ signals[Len(signals)] = "succeeded"
        BY <3>1
      <4> QED
        BY <2>2, <3>1, <4>1
    <3> QED
      BY <1>1, <1>5, <3>1 DEF Handled
  <2> QED
    BY <1>2, <1>3, <2>1, <2>2, <2>3, <2>4, <2>5
<1> QED
  BY <1>4, <1>5

-----------------------------------------------------------------------------
(* What the person does.                                                   *)

LEMMA DrawnTyped ==
  ASSUME TypeOK
  PROVE  /\ DrawnForGood \in Addr \cup {None}
         /\ Address \in Addr \cup {None}
BY DEF TypeOK, Properties, DrawnForGood, Drawn, Address

LEMMA Sent ==
  ASSUME TypeOK, NEW c \in Requests, Send(c)
  PROVE  /\ up' \in Seq(Requests) /\ presses' \in 0 .. MaxPresses
         /\ UNCHANGED <<down, backend>>
         /\ alive => up' = Append(up, c)
<1>1. Append(up, c) \in Seq(Requests)
  BY AppendProperties DEF TypeOK
<1> QED
  BY <1>1, ViewAssumption DEF TypeOK, Send

\* Pressed with no sheet up, on a row of the list, a door or the store strip.
Elsewhere == [what : Calls \ Sheets, addr : Addr \cup {None}, meant : {None}]

\* What a press sends, if anything: a call no account is meant by, one about
\* the state drawn, or the one the sheet is for.
LEMMA PressSends ==
  ASSUME TypeOK, Presses
  PROVE  /\ UNCHANGED <<ready, seen, down, backend>>
         /\ \/ UNCHANGED <<up, presses>> /\ awaiting' = awaiting
            \/ \E c \in Requests \cap Elsewhere : Send(c) /\ awaiting' = awaiting
            \/ \E c \in Requests :
                 /\ Send(c) /\ UNCHANGED view
                 /\ c.what \in {"stageRevoke", "discardPending", "stopObserving"}
                 /\ c.meant = DrawnForGood /\ Drawn # None
                 /\ c.addr = IF c.what = "stopObserving" THEN Address ELSE None
            \/ \E c \in Requests :
                 /\ Send(c) /\ Confirm
                 /\ c.what = sheet /\ c.meant = meant
                 /\ sheet \notin OfSelected \cup {"observeAccount"} => c.addr = Address
<1>0. awaiting \in {None, sheet}
  BY DEF TypeOK
<1>1. ASSUME NEW a \in Addr, Choose(a) \/ OpenHeld(a)
      PROVE  /\ UNCHANGED <<ready, seen, down, backend>>
             /\ \E c \in Requests \cap Elsewhere : Send(c) /\ awaiting' = awaiting
  <2> DEFINE c == Call("selectAccount", a)
  <2>1. c \in Requests \cap Elsewhere
    BY CallTyped DEF Elsewhere, Calls, Sheets, Moves, Takes, Call
  <2>2. Send(c) /\ awaiting' = awaiting /\ UNCHANGED <<ready, seen>>
    BY <1>1 DEF Choose, OpenHeld, Stay, view
  <2> QED
    BY <2>1, <2>2, Sent
<1>2. ASSUME NEW a \in Addr, Submit(a)
      PROVE  /\ UNCHANGED <<ready, seen, down, backend>>
             /\ \E c \in Requests \cap Elsewhere : Send(c) /\ awaiting' = awaiting
  <2> DEFINE c == Call(screen, a)
  <2>0. screen \in Takes
    BY <1>2 DEF Submit
  <2>1. c \in Requests \cap Elsewhere
    BY <2>0, CallTyped DEF Elsewhere, Calls, Sheets, Moves, Takes, Call
  <2>2. Send(c) /\ awaiting' = awaiting /\ UNCHANGED <<ready, seen>>
    BY <1>2 DEF Submit, Stay, view
  <2> QED
    BY <2>1, <2>2, Sent
<1>3. ASSUME ReadAgain \/ OpenPublish
      PROVE  /\ UNCHANGED <<ready, seen, down, backend>>
             /\ \E c \in Requests \cap Elsewhere : Send(c) /\ awaiting' = awaiting
  <2> DEFINE c == Call("refresh", None)
  <2>1. c \in Requests \cap Elsewhere
    BY CallTyped DEF Elsewhere, Calls, Sheets, Moves, Takes, Call
  <2>2. Send(c) /\ awaiting' = awaiting /\ UNCHANGED <<ready, seen>>
    BY <1>0, <1>3 DEF ReadAgain, OpenPublish, Open, OnPane, Usable, Reachable, Stay, view
  <2> QED
    BY <2>1, <2>2, Sent
<1>4. ASSUME NEW what \in {"stageRevoke", "discardPending", "stopObserving"},
             PressOnPane(what)
      PROVE  /\ UNCHANGED <<ready, seen, down, backend>>
             /\ \E c \in Requests :
                 /\ Send(c) /\ UNCHANGED view
                 /\ c.what \in {"stageRevoke", "discardPending", "stopObserving"}
                 /\ c.meant = DrawnForGood /\ Drawn # None
                 /\ c.addr = IF c.what = "stopObserving" THEN Address ELSE None
  <2> DEFINE c == [what |-> what, meant |-> DrawnForGood,
                   addr |-> IF what = "stopObserving" THEN Address ELSE None]
  <2>1. c \in Requests
    BY DrawnTyped DEF Requests, Calls, OfSelected, Moves, Takes
  <2>2. Send(c) /\ UNCHANGED view /\ Drawn # None
    BY <1>4 DEF PressOnPane, Stay
  <2>3. c.what = what /\ c.meant = DrawnForGood
        /\ c.addr = IF what = "stopObserving" THEN Address ELSE None
    OBVIOUS
  <2> HIDE DEF c
  <2> QED
    BY <2>1, <2>2, <2>3, Sent DEF view
<1>5. ASSUME Confirm
      PROVE  /\ UNCHANGED <<ready, seen, down, backend>>
             /\ \E c \in Requests :
                 /\ Send(c) /\ Confirm
                 /\ c.what = sheet /\ c.meant = meant
                 /\ sheet \notin OfSelected \cup {"observeAccount"} => c.addr = Address
  <2>1. PICK a \in IF sheet = "observeAccount" THEN Addr
                   ELSE IF sheet \in OfSelected THEN {None} ELSE {Address} :
             Send([what |-> sheet, addr |-> a, meant |-> meant])
    BY <1>5 DEF Confirm
  <2> DEFINE c == [what |-> sheet, addr |-> a, meant |-> meant]
  <2>2. sheet \in Sheets /\ meant \in Addr \cup {None} /\ a \in Addr \cup {None}
    BY <1>5, <2>1, DrawnTyped DEF Confirm, TypeOK
  <2>3. sheet \in Calls /\ sheet \notin Takes
    BY <2>2 DEF Calls, Sheets, Takes
  <2>4. c \in Requests
    BY <2>1, <2>2, <2>3 DEF Requests
  <2>5. c.what = sheet /\ c.meant = meant
        /\ (sheet \notin OfSelected \cup {"observeAccount"} => c.addr = Address)
    BY <2>1
  <2>6. Send(c) /\ UNCHANGED <<ready, seen>>
    BY <1>5, <2>1 DEF Confirm
  <2> HIDE DEF c
  <2> QED
    BY <1>5, <2>4, <2>5, <2>6, Sent
<1>6. ASSUME \/ \E what \in Sheets : OpenSheet(what)
             \/ Cancel \/ KeyWrittenDown
             \/ \E from, to \in {"manage", "add"} \cup Takes : Go(from, to)
      PROVE  UNCHANGED <<ready, seen, down, backend, up, presses>> /\ awaiting' = awaiting
  <2>1. ASSUME NEW what \in Sheets, OpenSheet(what)
        PROVE  UNCHANGED <<ready, seen, down, backend, up, presses>> /\ awaiting' = awaiting
    <3>1. sheet = None
      BY <2>1 DEF OpenSheet, OnPane, AtDoor, Usable, Reachable
    <3> QED
      BY <1>0, <2>1, <3>1 DEF OpenSheet, Open
  <2>2. CASE Cancel \/ KeyWrittenDown
    BY <2>2 DEF Cancel, KeyWrittenDown
  <2>3. ASSUME NEW from, NEW to, Go(from, to)
        PROVE  UNCHANGED <<ready, seen, down, backend, up, presses>> /\ awaiting' = awaiting
    BY <2>3 DEF Go
  <2> QED
    BY <1>6, <2>1, <2>2, <2>3
<1> QED
  BY <1>1, <1>2, <1>3, <1>4, <1>5, <1>6 DEF Presses

\* What a press leaves on screen.
LEMMA PressShows ==
  ASSUME TypeOK, Presses
  PROVE  /\ screen' \in {"manage", "add"} \cup Takes /\ keyUp' \in BOOLEAN
         /\ sheet' \in Sheets \cup {None} /\ awaiting' \in {None, sheet'}
         /\ meant' \in Addr \cup {None}
<1>0. /\ screen \in {"manage", "add"} \cup Takes /\ keyUp \in BOOLEAN
      /\ sheet \in Sheets \cup {None} /\ awaiting \in {None, sheet}
      /\ meant \in Addr \cup {None}
  BY DEF TypeOK
<1> DEFINE Shown == /\ screen' \in {"manage", "add"} \cup Takes /\ keyUp' \in BOOLEAN
                     /\ sheet' \in Sheets \cup {None} /\ awaiting' \in {None, sheet'}
                     /\ meant' \in Addr \cup {None}
<1>1. UNCHANGED view => Shown
  BY <1>0 DEF view
<1>2. ASSUME NEW what \in Sheets, OpenSheet(what)
      PROVE  Shown
  BY <1>0, <1>2, DrawnTyped DEF OpenSheet, Open
<1>3. OpenPublish => Shown
  BY <1>0, DrawnTyped DEF OpenPublish, Open, Sheets
<1>4. ASSUME NEW a \in Addr, OpenHeld(a)
      PROVE  Shown
  BY <1>0, <1>4 DEF OpenHeld
<1>5. ASSUME NEW a, NEW what, Choose(a) \/ Submit(a) \/ PressOnPane(what) \/ ReadAgain
      PROVE  UNCHANGED view
  BY <1>5 DEF Choose, Submit, PressOnPane, ReadAgain, Stay
<1>6. Confirm \/ Cancel \/ KeyWrittenDown => Shown
  BY <1>0 DEF Confirm, Cancel, KeyWrittenDown
<1>7. ASSUME NEW from, NEW to \in {"manage", "add"} \cup Takes, Go(from, to)
      PROVE  Shown
  BY <1>0, <1>7 DEF Go
<1> SUFFICES Shown
  OBVIOUS
<1> HIDE DEF Shown
<1>8. CASE \/ \E a \in Addr : Choose(a) \/ OpenHeld(a) \/ Submit(a)
           \/ \E what \in {"stageRevoke", "discardPending", "stopObserving"} : PressOnPane(what)
           \/ ReadAgain
  BY <1>1, <1>4, <1>5, <1>8
<1>9. CASE (\E what \in Sheets : OpenSheet(what)) \/ OpenPublish
  BY <1>2, <1>3, <1>9
<1>10. CASE \E from, to \in {"manage", "add"} \cup Takes : Go(from, to)
  BY <1>7, <1>10
<1> QED
  BY <1>6, <1>8, <1>9, <1>10 DEF Presses

LEMMA PressTyped ==
  ASSUME TypeOK, Presses
  PROVE  TypeOK'
<1>1. up' \in Seq(Requests) /\ presses' \in 0 .. MaxPresses
  <2>1. CASE UNCHANGED <<up, presses>>
    BY <2>1 DEF TypeOK
  <2>2. CASE \E c \in Requests : Send(c)
    BY <2>2, Sent
  <2> QED
    BY <2>1, <2>2, PressSends
<1>2. UNCHANGED <<ready, seen, down, backend>>
  BY PressSends
<1> QED
  BY <1>1, <1>2, PressShows DEF TypeOK, backend

\* How many of the calls in flight the selection has moved past, as a call
\* arrives or lands.
LEMMA ArrivesPast ==
  ASSUME Arrives
  PROVE  past' \in {past, Len(jobs)}
BY DEF Arrives, Selects

LEMMA LandsPast ==
  ASSUME LandsNext
  PROVE  past' \in {Len(Tail(jobs)), IF past = 0 THEN 0 ELSE past - 1}
<1>1. CASE LandAccounts
  BY <1>1 DEF LandAccounts, Selects, StaysSelected
<1>2. CASE LandState \/ LandRefresh \/ LandExported
  BY <1>2 DEF LandState, LandRefresh, LandExported, StaysSelected
<1>3. ASSUME NEW what \in Calls,
             LandRefused(what) \/ LandListed(what) \/ LandTaken(what) \/ LandLeft(what)
      PROVE  past' \in {Len(Tail(jobs)), IF past = 0 THEN 0 ELSE past - 1}
  BY <1>3 DEF LandRefused, LandListed, LandTaken, LandLeft, Selects, StaysSelected
<1> QED
  BY <1>1, <1>2, <1>3 DEF LandsNext

LEMMA ArriveTyped ==
  ASSUME TypeOK, Arrives
  PROVE  TypeOK'
<1>1. PICK steps \in Seq(Properties), calls \in Seq(Requests) : Queues(steps, calls)
  BY ArrivesQueues
<1>2. up' = Tail(up) /\ up # <<>> /\ UNCHANGED <<view, alive, held, broken, presses>>
  BY ArrivesQueues
<1>3. here \in Properties /\ down \in Seq(Messages) /\ up \in Seq(Requests)
      /\ jobs \in Seq(Requests)
  BY DEF TypeOK
<1>4. PICK told \in Seq(Within(Properties)) : down' = down \o told
  BY <1>1, <1>3, QueuesSays, WholeProperties
<1>5. here' \in Properties /\ jobs' = jobs \o calls
  BY <1>1, <1>3, QueuesSays, WholeProperties
<1>6. told \in Seq(Messages)
  BY SeqMonotonic DEF Within
<1>7. jobs' \in Seq(Requests) /\ down' \in Seq(Messages) /\ up' \in Seq(Requests)
  <2>1. jobs \o calls \in Seq(Requests) /\ down \o told \in Seq(Messages)
    BY <1>3, <1>6, ConcatProperties
  <2>2. Tail(up) \in Seq(Requests)
    BY <1>2, <1>3, HeadFirst
  <2> QED
    BY <1>2, <1>4, <1>5, <2>1, <2>2
<1>8. past' \in 0 .. Len(jobs')
  <2>1. Len(jobs \o calls) = Len(jobs) + Len(calls) /\ Len(jobs) \in Nat /\ Len(calls) \in Nat
    BY <1>3, ConcatProperties, LenProperties
  <2>2. past \in 0 .. Len(jobs)
    BY DEF TypeOK
  <2> QED
    BY <1>5, <2>1, <2>2, ArrivesPast
<1> QED
  BY <1>2, <1>5, <1>7, <1>8 DEF TypeOK, view

LEMMA LandTyped ==
  ASSUME TypeOK, LandsNext
  PROVE  TypeOK'
<1>1. PICK calls \in Seq(Chained), told \in Seq(Messages) :
         jobs' = Tail(jobs) \o calls /\ down' = down \o told
  BY LandingSays
<1>2. /\ jobs # <<>> /\ alive /\ held' \in SUBSET Addr /\ here' \in Properties
      /\ UNCHANGED <<view, up, alive, broken, presses>>
  BY LandingSays
<1>3. down \in Seq(Messages) /\ jobs \in Seq(Requests)
  BY DEF TypeOK
<1>4. calls \in Seq(Requests) /\ Tail(jobs) \in Seq(Requests)
  BY <1>2, <1>3, SeqMonotonic, HeadFirst DEF Chained
<1>5. jobs' \in Seq(Requests) /\ down' \in Seq(Messages)
  BY <1>1, <1>3, <1>4, ConcatProperties
<1>6. past' \in 0 .. Len(jobs')
  <2>1. /\ Len(Tail(jobs) \o calls) = Len(Tail(jobs)) + Len(calls)
        /\ Len(Tail(jobs)) \in Nat /\ Len(calls) \in Nat
    BY <1>4, ConcatProperties, LenProperties
  <2>2. Len(Tail(jobs)) = Len(jobs) - 1 /\ past \in 0 .. Len(jobs) /\ Len(jobs) \in Nat
    BY <1>2, <1>3, HeadFirst DEF TypeOK
  <2> QED
    BY <1>1, <2>1, <2>2, LandsPast
<1> QED
  BY <1>2, <1>5, <1>6 DEF TypeOK, view

\* What the view hears is the head of what the backend said.
LEMMA Heard ==
  ASSUME TypeOK, down # <<>>
  PROVE  /\ Head(down) \in Messages /\ Head(down).props \in Properties
         /\ Tail(down) \in Seq(Messages)
<1>1. down \in Seq(Messages)
  BY DEF TypeOK
<1>2. Head(down) \in Messages /\ Tail(down) \in Seq(Messages)
  BY <1>1, HeadFirst
<1> QED
  BY <1>2 DEF Messages

LEMMA ReceiveTyped ==
  ASSUME TypeOK, Receives
  PROVE  TypeOK'
<1> DEFINE m == Head(down)
           closed == Answers(m) /\ m.signal = "succeeded"
<1>1. m \in Messages /\ m.props \in Properties /\ Tail(down) \in Seq(Messages)
  BY Heard DEF Receives
<1>2. /\ down' = Tail(down) /\ seen' = m.props /\ awaiting' = StillAwaiting(m)
      /\ screen' \in {"manage", screen}
      /\ sheet' = (IF closed THEN None ELSE sheet)
      /\ meant' = (IF closed THEN None ELSE meant)
      /\ keyUp' = (keyUp \/ m.signal = "exported")
      /\ UNCHANGED <<ready, up, backend, presses>>
  BY DEF Receives
<1>3. awaiting' \in {None, sheet'}
  BY <1>2 DEF StillAwaiting, TypeOK
<1> HIDE DEF m
<1> QED
  BY <1>1, <1>2, <1>3 DEF TypeOK, backend

\* A listing, a press, a reply or a message leaves every variable its type.
LEMMA TypeKept ==
  ASSUME TypeOK, [Next]_vars
  PROVE  TypeOK'
<1>1. CASE VaultComesAndGoes \/ Stops \/ HearsStopped
  <2>1. <<>> \in Seq(Requests) /\ 0 \in 0 .. Len(<<>>)
    BY EmptySeq
  <2>2. CASE VaultComesAndGoes \/ HearsStopped
    BY <2>2 DEF TypeOK, VaultComesAndGoes, HearsStopped, view, backend
  <2>3. CASE Stops
    BY <2>1, <2>3 DEF TypeOK, Stops, view
  <2> QED
    BY <1>1, <2>2, <2>3
<1>2. CASE UNCHANGED vars
  BY <1>2 DEF TypeOK, vars, view, backend
<1>3. CASE Presses \/ Arrives \/ LandsNext \/ Receives
  BY <1>3, PressTyped, ArriveTyped, LandTyped, ReceiveTyped
<1> QED
  BY <1>1, <1>2, <1>3 DEF Next

LEMMA TypeInit ==
  ASSUME Init
  PROVE  TypeOK
<1>1. <<>> \in Seq(Requests) /\ <<>> \in Seq(Messages)
  BY EmptySeq
<1>2. here \in Properties
  <2>1. PICK a \in IF held = {} THEN {None} ELSE held :
          here = [selected |-> a, shown |-> a, list |-> held, busy |-> FALSE,
                  problem |-> FALSE]
    BY DEF Init
  <2>2. a \in Addr \cup {None} /\ held \in SUBSET Addr
    BY DEF Init
  <2> QED
    BY <2>1, <2>2 DEF Properties
<1>3. 0 \in 0 .. MaxPresses /\ 0 \in 0 .. Len(<<>>)
  BY ViewAssumption, EmptySeq
<1> QED
  BY <1>1, <1>2, <1>3 DEF Init, TypeOK

\* Every variable keeps its type: the messages, the calls and the properties
\* are of the shapes accountlog_ui.rep gives them, and the call a sheet waits
\* on is its own, whatever is pressed, lands or is heard.
THEOREM TypeCorrect == Spec => []TypeOK
<1>1. Init => TypeOK
  BY TypeInit
<1>2. TypeOK /\ [Next]_vars => TypeOK'
  BY TypeKept
<1> QED
  BY <1>1, <1>2, PTL DEF Spec

-----------------------------------------------------------------------------
(* The answer a sheet hears is its own.                                    *)

\* Of each call a sheet makes, those on their way there, in flight, and
\* answered but not heard.
OnItsWay(w) == Many(up, For(w)) + Many(jobs, For(w)) + Many(down, Ends(w))

HearInv == alive => \A w \in Sheets : OnItsWay(w) = IF awaiting = w THEN 1 ELSE 0

LEMMA ManyTyped ==
  ASSUME TypeOK, NEW w
  PROVE  /\ Many(up, For(w)) \in Nat /\ Many(jobs, For(w)) \in Nat
         /\ Many(down, Ends(w)) \in Nat
BY HitsFinite DEF TypeOK

\* None of the calls the backend makes of its own is a sheet's.
LEMMA ChainedNotSheets ==
  ASSUME NEW calls \in Seq(Chained), NEW w \in Sheets
  PROVE  Many(calls, For(w)) = 0
<1>1. Chained \cap For(w) = {}
  BY DEF Chained, For, Sheets
<1> QED
  BY <1>1, ManyNone

LEMMA PressKeepsHear ==
  ASSUME TypeOK, HearInv, Presses
  PROVE  HearInv'
<1> SUFFICES ASSUME alive, NEW w \in Sheets
             PROVE  (OnItsWay(w))' = IF awaiting' = w THEN 1 ELSE 0
  BY PressSends DEF HearInv, backend
<1>1. jobs' = jobs /\ down' = down /\ OnItsWay(w) = IF awaiting = w THEN 1 ELSE 0
  BY PressSends DEF HearInv, backend
<1>2. ASSUME NEW c \in Requests, Send(c)
      PROVE  Many(up', For(w)) = Many(up, For(w)) + IF c.what = w THEN 1 ELSE 0
  <2>1. up' = Append(up, c) /\ up \in Seq(Requests)
    BY <1>2, Sent DEF TypeOK
  <2> QED
    BY <2>1, ManyAppend DEF For
<1>3. CASE UNCHANGED <<up, presses>> /\ awaiting' = awaiting
  BY <1>1, <1>3 DEF OnItsWay
<1>4. ASSUME NEW c \in Requests, Send(c), awaiting' = awaiting, c.what \notin Sheets
      PROVE  (OnItsWay(w))' = IF awaiting' = w THEN 1 ELSE 0
  BY <1>1, <1>2, <1>4, ManyTyped DEF OnItsWay
<1>5. CASE \E c \in Requests \cap Elsewhere : Send(c) /\ awaiting' = awaiting
  BY <1>4, <1>5 DEF Elsewhere
<1>6. CASE \E c \in Requests :
             /\ Send(c) /\ UNCHANGED view
             /\ c.what \in {"stageRevoke", "discardPending", "stopObserving"}
  BY <1>4, <1>6 DEF Sheets, view
<1>7. CASE \E c \in Requests : Send(c) /\ Confirm /\ c.what = sheet
  <2>1. PICK c \in Requests : Send(c) /\ c.what = sheet
    BY <1>7
  <2>2. awaiting = None /\ awaiting' = sheet
    BY <1>7 DEF Confirm
  <2>3. None \notin Sheets
    BY DEF None, Sheets
  <2> QED
    BY <1>1, <1>2, <2>1, <2>2, <2>3, ManyTyped DEF OnItsWay
<1> QED
  BY <1>3, <1>5, <1>6, <1>7, PressSends

LEMMA ArriveKeepsHear ==
  ASSUME TypeOK, HearInv, Arrives
  PROVE  HearInv'
<1> SUFFICES ASSUME NEW w \in Sheets
             PROVE  (OnItsWay(w))' = IF awaiting' = w THEN 1 ELSE 0
  BY ArrivesQueues DEF HearInv
<1>0. OnItsWay(w) = IF awaiting = w THEN 1 ELSE 0
  BY ArrivesQueues DEF HearInv
<1>1. /\ here \in Properties /\ down \in Seq(Messages) /\ up \in Seq(Requests)
      /\ jobs \in Seq(Requests) /\ up # <<>> /\ up' = Tail(up) /\ awaiting' = awaiting
  BY ArrivesQueues DEF TypeOK, view
<1>2. PICK steps \in Seq(Properties), calls \in Seq(Requests) :
         /\ Queues(steps, calls)
         /\ \/ \E c \in Requests : calls = <<c>> /\ c.what = Head(up).what
            \/ /\ Head(up).what = "refresh"
               /\ calls \in Seq(Chained)
            \/ /\ Head(up).what = "selectAccount"
               /\ calls = <<>>
            \/ /\ Head(up).what = "selectAccount"
               /\ calls = <<Call("state", Head(up).addr), Call("refresh", Head(up).addr)>>
  BY ArrivesQueues
<1>3. jobs' = jobs \o calls /\ \E told \in Seq(Within(Properties)) :
         down' = down \o told /\ Many(told, Ends(w)) = 0
  BY <1>1, <1>2, QueuesSays, WholeProperties
<1>4. Head(up) \in Requests
  BY <1>1, HeadFirst
<1>5. Many(calls, For(w)) = IF Head(up).what = w THEN 1 ELSE 0
  <2>1. CASE \E c \in Requests : calls = <<c>> /\ c.what = Head(up).what
    <3>1. PICK c \in Requests : calls = <<c>> /\ c.what = Head(up).what
      BY <2>1
    <3>2. Many(<<c>>, For(w)) = IF c \in For(w) THEN 1 ELSE 0
      BY ManyOne
    <3> QED
      BY <3>1, <3>2 DEF For
  <2>2. CASE Head(up).what \in {"refresh", "selectAccount"} /\ calls \in Seq(Chained)
    <3>1. Head(up).what # w
      BY <2>2 DEF Sheets
    <3> QED
      BY <2>2, <3>1, ChainedNotSheets
  <2>3. CASE Head(up).what = "selectAccount" /\ calls = <<>>
    <3>1. calls \in Seq(Chained)
      BY <2>3, EmptySeq
    <3> QED
      BY <2>2, <2>3, <3>1
  <2>4. CASE /\ Head(up).what = "selectAccount"
             /\ calls = <<Call("state", Head(up).addr), Call("refresh", Head(up).addr)>>
    <3>1. Head(up).addr \in Addr \cup {None}
      BY <1>4, RequestTyped
    <3>2. Call("state", Head(up).addr) \in Chained /\ Call("refresh", Head(up).addr) \in Chained
      BY <3>1, ChainedCall DEF Own
    <3>3. calls \in Seq(Chained)
      BY <2>4, <3>2
    <3> QED
      BY <2>2, <2>4, <3>3
  <2> QED
    BY <1>2, <2>1, <2>2, <2>3, <2>4
<1>6. Many(jobs', For(w)) = Many(jobs, For(w)) + Many(calls, For(w))
  BY <1>1, <1>3, ManyConcat
<1>7. Many(down', Ends(w)) = Many(down, Ends(w))
  <2>1. PICK told \in Seq(Within(Properties)) : down' = down \o told /\ Many(told, Ends(w)) = 0
    BY <1>3
  <2>2. told \in Seq(Messages)
    BY SeqMonotonic DEF Within
  <2>3. Many(down \o told, Ends(w)) = Many(down, Ends(w)) + Many(told, Ends(w))
    BY <1>1, <2>2, ManyConcat
  <2> QED
    BY <2>1, <2>3, ManyTyped
<1>8. Many(up, For(w)) = (IF Head(up) \in For(w) THEN 1 ELSE 0) + Many(up', For(w))
  BY <1>1, ManyTail
<1>9. Many(up', For(w)) \in Nat
  <2>1. up' \in Seq(Requests)
    BY <1>1, HeadFirst
  <2> QED
    BY <2>1, HitsFinite
<1>10. Head(up) \in For(w) <=> Head(up).what = w
  BY <1>4 DEF For
<1> QED
  BY <1>0, <1>1, <1>5, <1>6, <1>7, <1>8, <1>9, <1>10, ManyTyped DEF OnItsWay

LEMMA LandKeepsHear ==
  ASSUME TypeOK, HearInv, LandsNext
  PROVE  HearInv'
<1> SUFFICES ASSUME NEW w \in Sheets
             PROVE  (OnItsWay(w))' = IF awaiting' = w THEN 1 ELSE 0
  BY LandingSays DEF HearInv
<1>1. /\ down \in Seq(Messages) /\ jobs \in Seq(Requests) /\ jobs # <<>>
      /\ up' = up /\ awaiting' = awaiting /\ OnItsWay(w) = IF awaiting = w THEN 1 ELSE 0
  BY LandingSays DEF TypeOK, view, HearInv
<1>2. PICK calls \in Seq(Chained), told \in Seq(Messages) :
         /\ jobs' = Tail(jobs) \o calls /\ down' = down \o told
         /\ Many(told, Ends(w)) = IF w = Head(jobs).what /\ w \notin Own THEN 1 ELSE 0
  BY LandingSays
<1>3. calls \in Seq(Requests) /\ Tail(jobs) \in Seq(Requests) /\ Head(jobs) \in Requests
  BY <1>1, SeqMonotonic, HeadFirst DEF Chained
<1>4. w \notin Own
  BY DEF Sheets, Own
<1>5. Many(jobs', For(w)) = Many(Tail(jobs), For(w)) + Many(calls, For(w))
  BY <1>2, <1>3, ManyConcat
<1>6. Many(calls, For(w)) = 0
  BY ChainedNotSheets
<1>7. Many(jobs, For(w)) = (IF Head(jobs) \in For(w) THEN 1 ELSE 0) + Many(Tail(jobs), For(w))
  BY <1>1, ManyTail
<1>8. Many(down', Ends(w)) = Many(down, Ends(w)) + Many(told, Ends(w))
  BY <1>1, <1>2, ManyConcat
<1>9. Many(Tail(jobs), For(w)) \in Nat
  BY <1>3, HitsFinite
<1>10. Head(jobs) \in For(w) <=> Head(jobs).what = w
  BY <1>3 DEF For
<1>11. Many(told, Ends(w)) = IF Head(jobs).what = w THEN 1 ELSE 0
  BY <1>2, <1>4
<1>12. (OnItsWay(w))' = Many(up, For(w)) + Many(jobs', For(w)) + Many(down', Ends(w))
  BY <1>1 DEF OnItsWay
<1>13. (OnItsWay(w))' = OnItsWay(w)
  BY <1>5, <1>6, <1>7, <1>8, <1>9, <1>10, <1>11, <1>12, ManyTyped DEF OnItsWay
<1> QED
  BY <1>1, <1>13

LEMMA ReceiveKeepsHear ==
  ASSUME TypeOK, HearInv, Receives
  PROVE  HearInv'
<1> SUFFICES ASSUME alive, NEW w \in Sheets
             PROVE  (OnItsWay(w))' = IF awaiting' = w THEN 1 ELSE 0
  BY DEF HearInv, Receives, backend
<1> DEFINE m == Head(down)
<1>1. /\ down \in Seq(Messages) /\ down # <<>> /\ down' = Tail(down)
      /\ up' = up /\ jobs' = jobs /\ awaiting' = StillAwaiting(m)
      /\ \A v \in Sheets : OnItsWay(v) = IF awaiting = v THEN 1 ELSE 0
  BY DEF TypeOK, HearInv, Receives, backend
<1>2. m \in Messages /\ Tail(down) \in Seq(Messages)
  BY <1>1, HeadFirst
<1>3. \A v : /\ Many(down, Ends(v)) = (IF m \in Ends(v) THEN 1 ELSE 0) + Many(Tail(down), Ends(v))
             /\ Many(Tail(down), Ends(v)) \in Nat
  BY <1>1, <1>2, ManyTail, HitsFinite
<1>4. awaiting \in Sheets \cup {None} /\ None \notin Sheets
  BY DEF TypeOK, Sheets, None
<1> HIDE DEF m
<1>5. \A v \in Sheets : m \in Ends(v) => awaiting = v
  BY <1>1, <1>3, ManyTyped DEF OnItsWay
<1>6. (OnItsWay(w))' = OnItsWay(w) - (IF m \in Ends(w) THEN 1 ELSE 0)
  BY <1>1, <1>3, ManyTyped DEF OnItsWay
<1>7. CASE m \in Ends(w)
  <2>1. awaiting = w /\ Answers(m)
    BY <1>5, <1>7 DEF Ends, Answers
  <2> QED
    BY <1>1, <1>4, <1>6, <1>7, <2>1 DEF StillAwaiting
<1>8. CASE m \notin Ends(w)
  <2>1. awaiting' = awaiting \/ (awaiting # w /\ awaiting' = None)
    BY <1>1, <1>2, <1>8 DEF StillAwaiting, Answers, Ends
  <2> QED
    BY <1>1, <1>4, <1>6, <1>8, <2>1
<1> QED
  BY <1>7, <1>8

LEMMA HearKept ==
  ASSUME TypeOK, HearInv, [Next]_vars
  PROVE  HearInv'
<1>1. CASE VaultComesAndGoes \/ Stops \/ HearsStopped
  BY <1>1 DEF HearInv, VaultComesAndGoes, Stops, HearsStopped, OnItsWay, view, backend
<1>2. CASE UNCHANGED vars
  BY <1>2 DEF HearInv, OnItsWay, vars, view, backend
<1>3. CASE Presses \/ Arrives \/ LandsNext \/ Receives
  BY <1>3, PressKeepsHear, ArriveKeepsHear, LandKeepsHear, ReceiveKeepsHear
<1> QED
  BY <1>1, <1>2, <1>3 DEF Next

LEMMA HearInit ==
  ASSUME Init
  PROVE  HearInv
<1>1. up = <<>> /\ jobs = <<>> /\ down = <<>> /\ awaiting = None /\ <<>> \in Seq({})
  BY DEF Init
<1>2. \A W : Many(<<>>, W) = 0
  <2>1. \A W : {} \cap W = {}
    OBVIOUS
  <2> QED
    BY <1>1, <2>1, ManyNone
<1>3. None \notin Sheets
  BY DEF None, Sheets
<1> QED
  BY <1>1, <1>2, <1>3 DEF HearInv, OnItsWay

LEMMA HearCounts ==
  ASSUME TypeOK, HearInv
  PROVE  HearsItsOwn
<1> SUFFICES ASSUME alive, NEW w \in Sheets
             PROVE  Cardinality(Outstanding(up, w)) + Cardinality(Outstanding(jobs, w))
                      + Cardinality(AnswersTo(w)) = IF awaiting = w THEN 1 ELSE 0
  BY DEF HearsItsOwn
<1>1. ASSUME NEW cs \in Seq(Requests)
      PROVE  Cardinality(Outstanding(cs, w)) = Many(cs, For(w))
  <2>1. \A n \in DOMAIN cs : cs[n] \in Requests
    BY LenProperties, ElementOfSeq
  <2>2. Outstanding(cs, w) = Hits(cs, For(w))
    BY <2>1 DEF Outstanding, Hits, For
  <2> QED
    BY <2>2 DEF Many
<1>2. Cardinality(AnswersTo(w)) = Many(down, Ends(w))
  <2>1. down \in Seq(Messages)
    BY DEF TypeOK
  <2>2. \A n \in DOMAIN down : down[n] \in Messages
    BY <2>1, LenProperties, ElementOfSeq
  <2>3. AnswersTo(w) = Hits(down, Ends(w))
    BY <2>2 DEF AnswersTo, Hits, Ends
  <2> QED
    BY <2>3 DEF Many
<1>3. up \in Seq(Requests) /\ jobs \in Seq(Requests)
  BY DEF TypeOK
<1>4. OnItsWay(w) = IF awaiting = w THEN 1 ELSE 0
  BY DEF HearInv
<1> QED
  BY <1>1, <1>2, <1>3, <1>4 DEF OnItsWay

\* An answer is known by the name of its call alone, and yet the one a sheet
\* hears is its own (Sheet.qml:97-107): as long as the backend runs, of the calls
\* a sheet makes one is outstanding while it waits, and none while it does not.
THEOREM SheetsHearTheirOwn == Spec => []HearsItsOwn
<1>1. Init => TypeOK /\ HearInv
  BY TypeInit, HearInit
<1>2. (TypeOK /\ HearInv) /\ [Next]_vars => (TypeOK /\ HearInv)'
  BY TypeKept, HearKept
<1>3. TypeOK /\ HearInv => HearsItsOwn
  BY HearCounts
<1> QED
  BY <1>1, <1>2, <1>3, PTL DEF Spec

-----------------------------------------------------------------------------
(* What is pressed acts on what is drawn.                                  *)

\* A call queued, whichever it is, as the rest of this module needs it.
LEMMA ArrivingSays ==
  ASSUME TypeOK, Arrives
  PROVE  /\ up # <<>> /\ alive /\ up' = Tail(up)
         /\ UNCHANGED <<view, alive, held, broken, presses>>
         /\ \E calls \in Seq(Requests), told \in Seq(Messages) :
              /\ jobs' = jobs \o calls /\ down' = down \o told
              /\ UpToDate(told, here', here)
              /\ \/ Head(up).what = "selectAccount" /\ calls \in Seq(Chained)
                 \/ /\ here' \in Same /\ told \in Seq(Within(Same))
                    /\ \/ calls \in Seq(Chained)
                       \/ \E c \in Requests :
                            /\ calls = <<c>>
                            /\ c.what = Head(up).what /\ c.meant = Head(up).meant
                            /\ c.addr = IF c.what \in OfSelected THEN here.selected
                                        ELSE Head(up).addr
<1>1. /\ up # <<>> /\ alive /\ up' = Tail(up) /\ up \in Seq(Requests)
      /\ UNCHANGED <<view, alive, held, broken, presses>>
      /\ here \in Properties /\ down \in Seq(Messages) /\ here \in Same
  BY ArrivesQueues, HereTyped DEF TypeOK
<1>2. PICK steps \in Seq(Properties), calls \in Seq(Requests) :
         /\ Queues(steps, calls)
         /\ \/ /\ steps = <<>>
               /\ \E c \in Requests :
                    /\ calls = <<c>>
                    /\ c.what = Head(up).what /\ c.meant = Head(up).meant
                    /\ c.addr = IF c.what \in OfSelected THEN here.selected
                                ELSE Head(up).addr
            \/ /\ Head(up).what = "refresh"
               /\ steps = <<>> /\ calls \in Seq(Chained)
            \/ /\ Head(up).what = "selectAccount"
               /\ steps = <<>> /\ calls = <<>>
            \/ /\ Head(up).what = "selectAccount"
               /\ steps = <<[here EXCEPT !.selected = Head(up).addr]>>
               /\ calls = <<Call("state", Head(up).addr), Call("refresh", Head(up).addr)>>
  BY ArrivesQueues
<1>3. Head(up) \in Requests
  BY <1>1, HeadFirst
<1>4. CASE steps = <<>>
  <2>1. <<>> \in Seq(Same)
    BY EmptySeq
  <2>2. /\ here' \in Same /\ jobs' = jobs \o calls
        /\ \E told \in Seq(Within(Same)) : down' = down \o told /\ UpToDate(told, here', here)
    BY <1>1, <1>2, <1>4, <2>1, QueuesSays, WholeSame
  <2>3. PICK told \in Seq(Within(Same)) : down' = down \o told /\ UpToDate(told, here', here)
    BY <2>2
  <2>4. told \in Seq(Messages)
    BY SeqMonotonic DEF Within
  <2>5. <<>> \in Seq(Chained)
    BY EmptySeq
  <2>6. \/ calls \in Seq(Chained)
        \/ \E c \in Requests :
             /\ calls = <<c>>
             /\ c.what = Head(up).what /\ c.meant = Head(up).meant
             /\ c.addr = IF c.what \in OfSelected THEN here.selected
                         ELSE Head(up).addr
        \/ Head(up).what = "selectAccount" /\ calls \in Seq(Chained)
    <3>1. CASE calls = <<Call("state", Head(up).addr), Call("refresh", Head(up).addr)>>
      <4>1. /\ Call("state", Head(up).addr) \in Chained
            /\ Call("refresh", Head(up).addr) \in Chained
        BY <1>3, ChainedCall, RequestTyped DEF Own
      <4>2. calls \in Seq(Chained)
        BY <3>1, <4>1
      <4> QED
        BY <4>2
    <3>2. CASE calls = <<>>
      BY <2>5, <3>2
    <3> QED
      BY <1>2, <3>1, <3>2
  <2> QED
    BY <1>1, <2>2, <2>3, <2>4, <2>6
<1>5. CASE /\ Head(up).what = "selectAccount"
           /\ calls = <<Call("state", Head(up).addr), Call("refresh", Head(up).addr)>>
  <2>1. /\ jobs' = jobs \o calls
        /\ \E told \in Seq(Within(Properties)) :
             down' = down \o told /\ UpToDate(told, here', here)
    BY <1>1, <1>2, QueuesSays, WholeProperties
  <2>2. PICK told \in Seq(Within(Properties)) :
             down' = down \o told /\ UpToDate(told, here', here)
    BY <2>1
  <2>3. told \in Seq(Messages)
    BY SeqMonotonic DEF Within
  <2>4. Call("state", Head(up).addr) \in Chained /\ Call("refresh", Head(up).addr) \in Chained
    BY <1>3, ChainedCall, RequestTyped DEF Own
  <2>5. calls \in Seq(Chained)
    BY <1>5, <2>4
  <2> QED
    BY <1>1, <1>5, <2>1, <2>2, <2>3, <2>5
<1> QED
  BY <1>2, <1>4, <1>5

\* A sequence is of whatever all its elements are.
LEMMA SeqIn ==
  ASSUME NEW S, NEW s \in Seq(S), NEW T, \A n \in 1 .. Len(s) : s[n] \in T
  PROVE  s \in Seq(T)
<1>1. Len(s) \in Nat /\ s = [n \in 1 .. Len(s) |-> s[n]]
  BY LenProperties
<1> DEFINE L == Len(s)
           e(n) == s[n]
<1>2. L \in Nat /\ \A n \in 1 .. L : e(n) \in T
  BY <1>1
<1>3. s = [n \in 1 .. L |-> e(n)]
  BY <1>1
<1> HIDE DEF L, e
<1>4. [n \in 1 .. L |-> e(n)] \in Seq(T)
  BY <1>2, IsASeq
<1> QED
  BY <1>3, <1>4

\* Calls that put no other account on screen, but the one w makes.
Staying(w) == {c \in Requests : c.what \in Moves => c.what = w}
\* Messages that show a selected.
Showing(a) == {m \in Messages : m.props.selected = a}
\* Calls that act on the account they are meant for.
OnMeant == {c \in Requests : c.meant \in {None, c.addr}}

LEMMA ChainedAre ==
  ASSUME NEW w
  PROVE  Chained \subseteq Staying(w) /\ Chained \subseteq OnMeant
BY DEF Chained, Staying, OnMeant, Moves, Takes

LEMMA NotUnderWay ==
  ASSUME NEW cs \in Seq(Requests), ~UnderWay(cs), NEW w
  PROVE  cs \in Seq(Staying(w))
<1>1. DOMAIN cs = 1 .. Len(cs) /\ \A n \in 1 .. Len(cs) : cs[n] \in Requests
  BY LenProperties, ElementOfSeq
<1>2. \A n \in 1 .. Len(cs) : cs[n] \in Staying(w)
  BY <1>1 DEF UnderWay, Staying
<1> QED
  BY <1>2, SeqIn

LEMMA NoneUnderWay ==
  ASSUME NEW w \in Sheets, NEW cs \in Seq(Requests), cs \in Seq(Staying(w)),
         Many(cs, For(w)) = 0
  PROVE  cs \in Seq(Staying(None)) /\ \A n \in 1 .. Len(cs) : cs[n].what \notin Moves
<1>1. \A n \in 1 .. Len(cs) : cs[n] \in Staying(w) /\ cs[n] \notin For(w)
  BY HitsFinite, ElementOfSeq
<1>2. \A n \in 1 .. Len(cs) : cs[n].what \notin Moves /\ cs[n] \in Requests
  BY <1>1 DEF Staying, For
<1>3. \A n \in 1 .. Len(cs) : cs[n] \in Staying(None)
  BY <1>2 DEF Staying
<1> QED
  BY <1>2, <1>3, SeqIn

\* A call on its way up, meant for an account: that one is on screen and no
\* call ahead of it puts another there.
MeantAt(n) ==
  /\ here.selected = up[n].meant /\ here.selected \in held
  /\ jobs \in Seq(Staying(None))
  /\ \A k \in 1 .. n - 1 : up[k].what \notin Moves
  /\ up[n].what \notin OfSelected => up[n].addr = up[n].meant

UpInv == alive => \A n \in 1 .. Len(up) : up[n].meant # None => MeantAt(n)

\* The sheet's call has put another account on screen, and its answer comes.
Closing == /\ awaiting = sheet
           /\ \E n \in 1 .. Len(down) : down[n].what = sheet /\ down[n].signal = "succeeded"

\* The account the sheet is about is on screen, and only its own call is to
\* put another there.
Steady ==
  /\ seen.selected = meant /\ here.selected = meant /\ meant \in held
  /\ down \in Seq(Showing(meant))
  /\ up \in Seq(Staying(sheet)) /\ jobs \in Seq(Staying(sheet))

SheetInv == alive /\ meant # None =>
              sheet \in Sheets \ {"observeAccount"} /\ (Closing \/ Steady)

JobsInv == jobs \in Seq(OnMeant)

MeantInv == JobsInv /\ UpInv /\ SheetInv

LEMMA DrawnStays ==
  ASSUME TypeOK, DrawnForGood # None
  PROVE  /\ ready /\ seen.selected = DrawnForGood /\ here.selected = DrawnForGood
         /\ Address = DrawnForGood /\ here.selected \in held
         /\ ~UnderWay(up) /\ ~UnderWay(jobs)
         /\ down \in Seq(Showing(DrawnForGood))
<1>1. ~Moving /\ DrawnForGood = Drawn /\ Drawn # None
  BY DEF DrawnForGood
<1>2. ready /\ seen.selected = Drawn /\ Address = Drawn
  BY <1>1 DEF Drawn, Address
<1>3. /\ ~UnderWay(up) /\ ~UnderWay(jobs) /\ here.selected = seen.selected
      /\ here.selected \in held
      /\ \A n \in DOMAIN down : down[n].props.selected = seen.selected
  BY <1>1 DEF Moving
<1>4. down \in Seq(Showing(Drawn))
  <2>1. down \in Seq(Messages)
    BY DEF TypeOK
  <2>2. \A n \in 1 .. Len(down) : down[n] \in Messages /\ n \in DOMAIN down
    BY <2>1, LenProperties, ElementOfSeq
  <2>3. \A n \in 1 .. Len(down) : down[n] \in Showing(Drawn)
    BY <1>2, <1>3, <2>2 DEF Showing
  <2> QED
    BY <2>1, <2>3, SeqIn
<1> QED
  BY <1>1, <1>2, <1>3, <1>4

\* What is confirmed on a sheet acts on the account it was opened over.
LEMMA ConfirmMeans ==
  ASSUME TypeOK, HearInv, SheetInv, alive, Confirm, meant # None
  PROVE  /\ Steady /\ Address = meant
         /\ jobs \in Seq(Staying(None))
         /\ \A k \in 1 .. Len(up) : up[k].what \notin Moves
<1>1. /\ awaiting = None /\ sheet # None /\ ready /\ sheet \in Sheets
      /\ up \in Seq(Requests) /\ jobs \in Seq(Requests)
  BY DEF Confirm, SheetInv, TypeOK
<1>2. Steady
  BY <1>1 DEF SheetInv, Closing
<1>3. OnItsWay(sheet) = 0
  <2>1. awaiting # sheet
    BY <1>1
  <2> QED
    BY <1>1, <2>1 DEF HearInv
<1>4. Many(up, For(sheet)) = 0 /\ Many(jobs, For(sheet)) = 0
  <2>1. /\ Many(up, For(sheet)) \in Nat /\ Many(jobs, For(sheet)) \in Nat
        /\ Many(down, Ends(sheet)) \in Nat
    BY ManyTyped
  <2>2. Many(up, For(sheet)) + Many(jobs, For(sheet)) + Many(down, Ends(sheet)) = 0
    BY <1>3 DEF OnItsWay
  <2> QED
    BY <2>1, <2>2
<1>5. up \in Seq(Staying(sheet)) /\ jobs \in Seq(Staying(sheet)) /\ Address = meant
  BY <1>1, <1>2 DEF Steady, Address
<1> QED
  BY <1>1, <1>2, <1>4, <1>5, NoneUnderWay

LEMMA PressKeepsUp ==
  ASSUME TypeOK, HearInv, MeantInv, Presses
  PROVE  UpInv'
<1> SUFFICES ASSUME alive PROVE \A n \in 1 .. Len(up') : up'[n].meant # None => MeantAt(n)'
  BY PressSends DEF UpInv, backend
<1>1. /\ UNCHANGED <<ready, seen, down, backend>> /\ up \in Seq(Requests)
      /\ jobs \in Seq(Requests)
      /\ \A n \in 1 .. Len(up) : up[n].meant # None => MeantAt(n)
  BY PressSends DEF MeantInv, UpInv, TypeOK
<1>2. CASE UNCHANGED up
  BY <1>1, <1>2 DEF MeantAt, backend
<1>3. ASSUME NEW c \in Requests, Send(c),
             c.meant # None =>
               /\ here.selected = c.meant /\ here.selected \in held
               /\ jobs \in Seq(Staying(None))
               /\ \A k \in 1 .. Len(up) : up[k].what \notin Moves
               /\ c.what \notin OfSelected => c.addr = c.meant
      PROVE  \A n \in 1 .. Len(up') : up'[n].meant # None => MeantAt(n)'
  <2>1. /\ up' = Append(up, c) /\ Len(up) \in Nat
    BY <1>1, <1>3, Sent, LenProperties
  <2>2. Len(up') = Len(up) + 1 /\ up'[Len(up) + 1] = c
        /\ \A n \in 1 .. Len(up) : up'[n] = up[n]
    BY <1>1, <2>1, AppendProperties
  <2> SUFFICES ASSUME NEW n \in 1 .. Len(up'), up'[n].meant # None PROVE MeantAt(n)'
    OBVIOUS
  <2>3. here' = here /\ held' = held /\ jobs' = jobs
    BY <1>1 DEF backend
  <2>4. CASE n \in 1 .. Len(up)
    <3>1. MeantAt(n) /\ up'[n] = up[n] /\ \A k \in 1 .. n - 1 : up'[k] = up[k]
      BY <1>1, <2>1, <2>2, <2>4
    <3> QED
      BY <2>3, <3>1 DEF MeantAt
  <2>5. CASE n = Len(up) + 1
    <3>1. up'[n] = c /\ n - 1 = Len(up)
      BY <2>1, <2>2, <2>5
    <3>2. \A k \in 1 .. n - 1 : up'[k].what \notin Moves
      BY <1>3, <2>2, <3>1
    <3> QED
      BY <1>3, <2>3, <3>1, <3>2 DEF MeantAt
  <2> QED
    BY <2>1, <2>2, <2>4, <2>5
<1>4. CASE \E c \in Requests \cap Elsewhere : Send(c)
  BY <1>3, <1>4 DEF Elsewhere
<1>5. CASE \E c \in Requests :
             /\ Send(c)
             /\ c.what \in {"stageRevoke", "discardPending", "stopObserving"}
             /\ c.meant = DrawnForGood
             /\ c.addr = IF c.what = "stopObserving" THEN Address ELSE None
  <2>1. PICK c \in Requests :
             /\ Send(c)
             /\ c.what \in {"stageRevoke", "discardPending", "stopObserving"}
             /\ c.meant = DrawnForGood
             /\ c.addr = IF c.what = "stopObserving" THEN Address ELSE None
    BY <1>5
  <2>2. DOMAIN up = 1 .. Len(up)
    BY <1>1, LenProperties
  <2>3. c.what # "stopObserving" => c.what \in OfSelected
    BY <2>1 DEF OfSelected
  <2>4. c.meant # None =>
          /\ here.selected = c.meant /\ here.selected \in held
          /\ jobs \in Seq(Staying(None)) /\ ~UnderWay(up)
          /\ c.what \notin OfSelected => c.addr = c.meant
    BY <1>1, <2>1, <2>3, DrawnStays, NotUnderWay
  <2> QED
    BY <1>3, <2>1, <2>2, <2>4 DEF UnderWay
<1>6. CASE \E c \in Requests :
             /\ Send(c) /\ Confirm
             /\ c.what = sheet /\ c.meant = meant
             /\ sheet \notin OfSelected \cup {"observeAccount"} => c.addr = Address
  <2>1. PICK c \in Requests :
             /\ Send(c) /\ Confirm
             /\ c.what = sheet /\ c.meant = meant
             /\ sheet \notin OfSelected \cup {"observeAccount"} => c.addr = Address
    BY <1>6
  <2>2. meant # None => /\ Steady /\ Address = meant /\ sheet # "observeAccount"
                        /\ jobs \in Seq(Staying(None))
                        /\ \A k \in 1 .. Len(up) : up[k].what \notin Moves
    BY <2>1, ConfirmMeans DEF MeantInv, SheetInv
  <2> QED
    BY <1>3, <2>1, <2>2 DEF Steady
<1> QED
  BY <1>2, <1>4, <1>5, <1>6, PressSends

LEMMA PressKeepsSheet ==
  ASSUME TypeOK, HearInv, MeantInv, Presses
  PROVE  SheetInv'
<1> SUFFICES ASSUME alive, meant' # None
             PROVE  sheet' \in Sheets \ {"observeAccount"} /\ (Closing \/ Steady)'
  BY PressSends DEF SheetInv, backend
<1>1. /\ UNCHANGED <<ready, seen, down, backend>> /\ up \in Seq(Requests)
      /\ jobs \in Seq(Requests) /\ None \notin Sheets
      /\ meant # None => sheet \in Sheets \ {"observeAccount"} /\ (Closing \/ Steady)
  BY PressSends DEF MeantInv, SheetInv, TypeOK, None, Sheets
<1>2. ASSUME UNCHANGED <<sheet, meant, awaiting, up>>
      PROVE  sheet' \in Sheets \ {"observeAccount"} /\ (Closing \/ Steady)'
  BY <1>1, <1>2 DEF Closing, Steady, backend
<1>3. \A a, what : Choose(a) \/ PressOnPane(what) \/ Submit(a) => meant' = None
  BY <1>1 DEF Choose, PressOnPane, Submit, Stay, OnPane, Usable, Reachable, view
<1>4. \A a : OpenHeld(a) \/ Cancel => meant' = None
  BY DEF OpenHeld, Cancel
<1>5. \A from, to : KeyWrittenDown \/ Go(from, to) => UNCHANGED <<sheet, meant, awaiting, up>>
  BY DEF KeyWrittenDown, Go
<1>6. ASSUME NEW what \in Sheets, OpenSheet(what) \/ (OpenPublish /\ what = "publish")
      PROVE  sheet' \in Sheets \ {"observeAccount"} /\ (Closing \/ Steady)'
  <2>1. /\ sheet' = what /\ what # "observeAccount" /\ meant' = DrawnForGood
        /\ UNCHANGED <<seen, down, here, held, jobs>>
    BY <1>6 DEF OpenSheet, OpenPublish, Open, Send, backend
  <2>2. up' \in Seq(Staying(what))
    <3>1. up \in Seq(Staying(what))
      BY <1>1, <2>1, DrawnStays, NotUnderWay
    <3>2. CASE up' = up
      BY <3>1, <3>2
    <3>3. CASE OpenPublish
      <4>1. up' = Append(up, Call("refresh", None))
        BY <3>3 DEF OpenPublish, Send
      <4>2. Call("refresh", None) \in Staying(what)
        BY ChainedCall, ChainedAre DEF Own
      <4> QED
        BY <3>1, <4>1, <4>2, AppendProperties
    <3> QED
      BY <1>6, <3>2, <3>3 DEF OpenSheet
  <2>3. /\ seen.selected = meant' /\ here.selected = meant' /\ meant' \in held
        /\ down \in Seq(Showing(meant')) /\ jobs \in Seq(Staying(what))
    BY <1>1, <2>1, DrawnStays, NotUnderWay
  <2>4. Steady'
    BY <2>1, <2>2, <2>3 DEF Steady
  <2> QED
    BY <2>1, <2>4
<1>7. CASE Confirm
  <2>1. UNCHANGED <<sheet, meant, seen, down, here, held, jobs>>
    BY <1>1, <1>7 DEF Confirm, backend
  <2>2. Steady
    BY <1>7, <2>1, ConfirmMeans DEF MeantInv
  <2>3. PICK c \in Requests : Send(c) /\ c.what = sheet
    <3>1. PICK a \in IF sheet = "observeAccount" THEN Addr
                     ELSE IF sheet \in OfSelected THEN {None} ELSE {Address} :
               Send([what |-> sheet, addr |-> a, meant |-> meant])
      BY <1>7 DEF Confirm
    <3> DEFINE c == [what |-> sheet, addr |-> a, meant |-> meant]
    <3>2. sheet \in Sheets /\ meant \in Addr \cup {None} /\ a \in Addr \cup {None}
      BY <1>7, <3>1, DrawnTyped DEF Confirm, TypeOK
    <3>3. sheet \in Calls /\ sheet \notin Takes
      BY <3>2 DEF Calls, Sheets, Takes
    <3>4. c \in Requests /\ c.what = sheet
      BY <3>1, <3>2, <3>3 DEF Requests
    <3> QED
      BY <3>1, <3>4
  <2>4. up' = Append(up, c) /\ c \in Staying(sheet)
    BY <2>3, Sent DEF Staying
  <2>5. up' \in Seq(Staying(sheet))
    BY <2>2, <2>4, AppendProperties DEF Steady
  <2>6. Steady'
    BY <2>1, <2>2, <2>5 DEF Steady
  <2> QED
    BY <1>1, <2>1, <2>6
<1>8. CASE \/ \E a \in Addr : Choose(a) \/ OpenHeld(a) \/ Submit(a)
           \/ \E what \in {"stageRevoke", "discardPending", "stopObserving"} : PressOnPane(what)
           \/ Cancel
  BY <1>3, <1>4, <1>8
<1>9. CASE KeyWrittenDown \/ \E from, to \in {"manage", "add"} \cup Takes : Go(from, to)
  BY <1>2, <1>5, <1>9
<1>10. CASE (\E what \in Sheets : OpenSheet(what)) \/ OpenPublish
  <2>1. "publish" \in Sheets
    BY DEF Sheets
  <2>2. PICK what \in Sheets : OpenSheet(what) \/ (OpenPublish /\ what = "publish")
    BY <1>10, <2>1
  <2> QED
    BY <1>6, <2>2
<1>11. CASE ReadAgain
  <2>1. UNCHANGED <<sheet, meant, awaiting, seen, down, here, held, jobs>>
    BY <1>1, <1>11 DEF ReadAgain, Stay, view, backend
  <2>2. CASE Closing
    BY <1>1, <2>1, <2>2 DEF Closing
  <2>3. CASE Steady
    <3>1. up' = Append(up, Call("refresh", None))
      BY <1>11 DEF ReadAgain, Send
    <3>2. Call("refresh", None) \in Staying(sheet)
      BY ChainedCall, ChainedAre DEF Own
    <3>3. up' \in Seq(Staying(sheet))
      BY <2>3, <3>1, <3>2, AppendProperties DEF Steady
    <3>4. Steady'
      BY <2>1, <2>3, <3>3 DEF Steady
    <3> QED
      BY <1>1, <2>1, <3>4
  <2> QED
    BY <1>1, <2>1, <2>2, <2>3
<1> QED
  BY <1>7, <1>8, <1>9, <1>10, <1>11 DEF Presses

\* A message more leaves an answer on its way where it was.
LEMMA StillCloses ==
  ASSUME down \in Seq(Messages), NEW told \in Seq(Messages), down' = down \o told,
         UNCHANGED <<sheet, awaiting>>, Closing
  PROVE  Closing'
<1>1. PICK n \in 1 .. Len(down) : down[n].what = sheet /\ down[n].signal = "succeeded"
  BY DEF Closing
<1>2. n \in 1 .. Len(down \o told) /\ (down \o told)[n] = down[n]
  <2>1. Len(down) \in Nat /\ Len(told) \in Nat /\ Len(down \o told) = Len(down) + Len(told)
        /\ \A i \in 1 .. Len(down) + Len(told) :
             (down \o told)[i] = IF i <= Len(down) THEN down[i] ELSE told[i - Len(down)]
    BY ConcatProperties, LenProperties
  <2>2. n \in 1 .. Len(down) + Len(told) /\ n <= Len(down)
    BY <2>1
  <2> QED
    BY <2>1, <2>2
<1> QED
  BY <1>1, <1>2 DEF Closing

LEMMA ShownBySame ==
  ASSUME here \in Properties
  PROVE  Within(Same) \subseteq Showing(here.selected)
BY DEF Within, Same, Showing

LEMMA ArriveKeepsUp ==
  ASSUME TypeOK, MeantInv, Arrives
  PROVE  UpInv'
<1>1. /\ up # <<>> /\ alive /\ up' = Tail(up) /\ held' = held
      /\ up \in Seq(Requests) /\ jobs \in Seq(Requests)
      /\ \A n \in 1 .. Len(up) : up[n].meant # None => MeantAt(n)
  BY ArrivingSays DEF MeantInv, UpInv, TypeOK
<1>2. PICK calls \in Seq(Requests) :
         /\ jobs' = jobs \o calls
         /\ \/ Head(up).what = "selectAccount" /\ calls \in Seq(Chained)
            \/ /\ here' \in Same
               /\ \/ calls \in Seq(Chained)
                  \/ \E c \in Requests : calls = <<c>> /\ c.what = Head(up).what
  BY ArrivingSays
<1>3. /\ Len(up) \in Nat \ {0} /\ Len(up') = Len(up) - 1 /\ Head(up) = up[1]
      /\ \A n \in 1 .. Len(up) - 1 : up'[n] = up[n + 1]
  BY <1>1, HeadFirst
<1> SUFFICES ASSUME NEW n \in 1 .. Len(up'), up'[n].meant # None PROVE MeantAt(n)'
  BY DEF UpInv
<1>4. n + 1 \in 1 .. Len(up) /\ up'[n] = up[n + 1] /\ n \in Nat /\ n >= 1
  BY <1>3
<1>5. MeantAt(n + 1)
  BY <1>1, <1>4
<1>6. 1 \in 1 .. (n + 1) - 1
  BY <1>4
<1>7. Head(up).what \notin Moves
  BY <1>3, <1>5, <1>6 DEF MeantAt
<1>8. here' \in Same
  BY <1>2, <1>7 DEF Moves
<1>9. calls \in Seq(Staying(None))
  <2>1. CASE calls \in Seq(Chained)
    BY <2>1, ChainedAre, SeqMonotonic
  <2>2. CASE \E c \in Requests : calls = <<c>> /\ c.what = Head(up).what
    <3>1. PICK c \in Requests : calls = <<c>> /\ c.what = Head(up).what
      BY <2>2
    <3>2. c \in Staying(None)
      BY <1>7, <3>1 DEF Staying
    <3> QED
      BY <3>1, <3>2
  <2> QED
    BY <1>2, <1>7, <2>1, <2>2 DEF Moves
<1>10. jobs' \in Seq(Staying(None))
  BY <1>2, <1>5, <1>9, ConcatProperties DEF MeantAt
<1>11. \A k \in 1 .. n - 1 : up'[k].what \notin Moves
  <2> SUFFICES ASSUME NEW k \in 1 .. n - 1 PROVE up'[k].what \notin Moves
    OBVIOUS
  <2>1. k + 1 \in 1 .. (n + 1) - 1 /\ up'[k] = up[k + 1]
    BY <1>3, <1>4
  <2> QED
    BY <1>5, <2>1 DEF MeantAt
<1> QED
  BY <1>1, <1>4, <1>5, <1>8, <1>10, <1>11 DEF MeantAt, Same

LEMMA ArriveKeepsSheet ==
  ASSUME TypeOK, MeantInv, Arrives
  PROVE  SheetInv'
<1> SUFFICES ASSUME meant # None
             PROVE  /\ UNCHANGED <<sheet, meant, alive>>
                    /\ sheet \in Sheets \ {"observeAccount"} /\ (Closing' \/ Steady')
  BY ArrivingSays DEF SheetInv, view
<1>1. /\ up # <<>> /\ alive /\ up' = Tail(up) /\ held' = held
      /\ up \in Seq(Requests) /\ jobs \in Seq(Requests) /\ down \in Seq(Messages)
      /\ UNCHANGED <<sheet, meant, seen, awaiting, alive>>
      /\ sheet \in Sheets \ {"observeAccount"} /\ (Closing \/ Steady)
      /\ here \in Properties
  BY ArrivingSays DEF MeantInv, SheetInv, TypeOK, view
<1>2. PICK calls \in Seq(Requests), told \in Seq(Messages) :
         /\ jobs' = jobs \o calls /\ down' = down \o told
         /\ \/ Head(up).what = "selectAccount" /\ calls \in Seq(Chained)
            \/ /\ here' \in Same /\ told \in Seq(Within(Same))
               /\ \/ calls \in Seq(Chained)
                  \/ \E c \in Requests : calls = <<c>> /\ c.what = Head(up).what
  BY ArrivingSays
<1>3. CASE Closing
  BY <1>1, <1>2, <1>3, StillCloses
<1>4. CASE Steady
  <2>1. /\ seen.selected = meant /\ here.selected = meant /\ meant \in held
        /\ down \in Seq(Showing(meant))
        /\ up \in Seq(Staying(sheet)) /\ jobs \in Seq(Staying(sheet))
    BY <1>4 DEF Steady
  <2>2. Head(up) \in Staying(sheet) /\ up' \in Seq(Staying(sheet))
    BY <1>1, <2>1, HeadFirst
  <2>3. Head(up).what # "selectAccount"
    BY <1>1, <2>2 DEF Staying, Moves, Sheets
  <2>4. here' \in Same /\ told \in Seq(Within(Same))
    BY <1>2, <2>3
  <2>5. calls \in Seq(Staying(sheet))
    <3>1. CASE calls \in Seq(Chained)
      BY <3>1, ChainedAre, SeqMonotonic
    <3>2. CASE \E c \in Requests : calls = <<c>> /\ c.what = Head(up).what
      <4>1. PICK c \in Requests : calls = <<c>> /\ c.what = Head(up).what
        BY <3>2
      <4>2. c \in Staying(sheet)
        BY <2>2, <4>1 DEF Staying
      <4> QED
        BY <4>1, <4>2
    <3> QED
      BY <1>2, <2>3, <3>1, <3>2
  <2>6. jobs' \in Seq(Staying(sheet))
    BY <1>2, <2>1, <2>5, ConcatProperties
  <2>7. down' \in Seq(Showing(meant))
    <3>1. told \in Seq(Showing(meant))
      BY <1>1, <2>1, <2>4, ShownBySame, SeqMonotonic
    <3> QED
      BY <1>2, <2>1, <3>1, ConcatProperties
  <2>8. here'.selected = meant
    BY <2>1, <2>4 DEF Same
  <2>9. Steady'
    BY <1>1, <2>1, <2>2, <2>6, <2>7, <2>8 DEF Steady
  <2> QED
    BY <1>1, <2>9
<1> QED
  BY <1>1, <1>3, <1>4

LEMMA ArriveKeepsJobs ==
  ASSUME TypeOK, MeantInv, Arrives
  PROVE  JobsInv'
<1>1. /\ up # <<>> /\ alive /\ up \in Seq(Requests) /\ jobs \in Seq(OnMeant)
      /\ \A n \in 1 .. Len(up) : up[n].meant # None => MeantAt(n)
  BY ArrivingSays DEF MeantInv, UpInv, JobsInv, TypeOK
<1>2. PICK calls \in Seq(Requests) :
         /\ jobs' = jobs \o calls
         /\ \/ calls \in Seq(Chained)
            \/ \E c \in Requests :
                 /\ calls = <<c>>
                 /\ c.what = Head(up).what /\ c.meant = Head(up).meant
                 /\ c.addr = IF c.what \in OfSelected THEN here.selected
                             ELSE Head(up).addr
  BY ArrivingSays
<1>3. Head(up) = up[1] /\ 1 \in 1 .. Len(up)
  BY <1>1, HeadFirst
<1>4. calls \in Seq(OnMeant)
  <2>1. CASE calls \in Seq(Chained)
    BY <2>1, ChainedAre, SeqMonotonic
  <2>2. ASSUME NEW c \in Requests, calls = <<c>>,
               c.what = Head(up).what, c.meant = Head(up).meant,
               c.addr = IF c.what \in OfSelected THEN here.selected
                        ELSE Head(up).addr
        PROVE  calls \in Seq(OnMeant)
    <3>1. c.meant # None => c.addr = c.meant
      BY <1>1, <1>3, <2>2 DEF MeantAt
    <3>2. c \in OnMeant
      BY <3>1 DEF OnMeant
    <3> QED
      BY <2>2, <3>2
  <2> QED
    BY <1>2, <2>1, <2>2
<1>5. jobs \o calls \in Seq(OnMeant)
  BY <1>1, <1>4, ConcatProperties
<1> QED
  BY <1>2, <1>5 DEF JobsInv

LEMMA LandKeepsMeant ==
  ASSUME TypeOK, HearInv, MeantInv, LandsNext
  PROVE  MeantInv'
<1>1. /\ jobs # <<>> /\ alive /\ UNCHANGED <<view, up, alive>>
      /\ here \in Properties /\ jobs \in Seq(Requests) /\ down \in Seq(Messages)
      /\ jobs \in Seq(OnMeant)
  BY LandingSays DEF TypeOK, MeantInv, JobsInv
<1>2. PICK calls \in Seq(Chained), told \in Seq(Messages) :
         /\ jobs' = Tail(jobs) \o calls /\ down' = down \o told
         /\ \/ here.selected \notin held
            \/ held' = held /\ here' \in Same /\ told \in Seq(Within(Same))
            \/ /\ Head(jobs).what \in Moves
               /\ \E n \in DOMAIN told : told[n].what = Head(jobs).what
                                          /\ told[n].signal = "succeeded"
  BY LandingSays
<1>3. ASSUME NEW S, jobs \in Seq(S), Chained \subseteq S
      PROVE  Head(jobs) \in S /\ jobs' \in Seq(S)
  <2>1. Tail(jobs) \in Seq(S) /\ Head(jobs) \in S
    BY <1>1, <1>3, HeadFirst
  <2>2. calls \in Seq(S)
    BY <1>3, SeqMonotonic
  <2>3. Tail(jobs) \o calls \in Seq(S)
    BY <2>1, <2>2, ConcatProperties
  <2> QED
    BY <1>2, <2>1, <2>3
<1>4. JobsInv'
  BY <1>1, <1>3, ChainedAre DEF JobsInv
<1>5. UpInv'
  <2> SUFFICES ASSUME NEW n \in 1 .. Len(up), up[n].meant # None
               PROVE  MeantAt(n)'
    BY <1>1 DEF UpInv
  <2>1. MeantAt(n)
    BY <1>1 DEF MeantInv, UpInv
  <2>2. /\ here.selected = up[n].meant /\ here.selected \in held
        /\ jobs \in Seq(Staying(None))
        /\ \A k \in 1 .. n - 1 : up[k].what \notin Moves
        /\ up[n].what \notin OfSelected => up[n].addr = up[n].meant
    BY <2>1 DEF MeantAt
  <2>3. Head(jobs) \in Staying(None) /\ jobs' \in Seq(Staying(None))
    BY <1>3, <2>2, ChainedAre
  <2>4. Head(jobs).what \notin Moves
    BY <2>3 DEF Staying, Moves, Takes, None
  <2>5. held' = held /\ here' \in Same
    BY <1>2, <2>2, <2>4
  <2>6. here'.selected = here.selected
    BY <2>5 DEF Same
  <2> QED
    BY <1>1, <2>2, <2>3, <2>5, <2>6 DEF MeantAt
<1>6. SheetInv'
  <2> SUFFICES ASSUME meant # None
               PROVE  sheet \in Sheets \ {"observeAccount"} /\ (Closing' \/ Steady')
    BY <1>1 DEF SheetInv, view
  <2>1. sheet \in Sheets \ {"observeAccount"} /\ (Closing \/ Steady)
    BY <1>1 DEF MeantInv, SheetInv
  <2>2. UNCHANGED <<sheet, awaiting, meant, seen, up>>
    BY <1>1 DEF view
  <2>3. CASE Closing
    BY <1>1, <1>2, <2>1, <2>2, <2>3, StillCloses
  <2>4. CASE Steady
    <3>1. /\ seen.selected = meant /\ here.selected = meant /\ meant \in held
          /\ down \in Seq(Showing(meant))
          /\ up \in Seq(Staying(sheet)) /\ jobs \in Seq(Staying(sheet))
      BY <2>4 DEF Steady
    <3>2. Head(jobs) \in Staying(sheet) /\ jobs' \in Seq(Staying(sheet))
      BY <1>3, <3>1, ChainedAre
    <3>3. CASE held' = held /\ here' \in Same /\ told \in Seq(Within(Same))
      <4>1. told \in Seq(Showing(meant))
        BY <1>1, <3>1, <3>3, ShownBySame, SeqMonotonic
      <4>2. down' \in Seq(Showing(meant))
        BY <1>2, <3>1, <4>1, ConcatProperties
      <4>3. here'.selected = meant
        BY <3>1, <3>3 DEF Same
      <4>4. Steady'
        BY <2>2, <3>1, <3>2, <3>3, <4>2, <4>3 DEF Steady
      <4> QED
        BY <2>1, <4>4
    <3>4. CASE /\ Head(jobs).what \in Moves
               /\ \E n \in DOMAIN told : told[n].what = Head(jobs).what
                                          /\ told[n].signal = "succeeded"
      <4>1. Head(jobs).what = sheet
        BY <3>2, <3>4 DEF Staying
      <4>2. awaiting = sheet
        <5>1. Head(jobs) \in For(sheet)
          <6>1. Head(jobs) \in Requests
            BY <1>1, HeadFirst
          <6> QED
            BY <4>1, <6>1 DEF For
        <5>2. Many(jobs, For(sheet)) = 1 + Many(Tail(jobs), For(sheet))
          BY <1>1, <5>1, ManyTail
        <5>3. Many(Tail(jobs), For(sheet)) \in Nat
          <6>1. Tail(jobs) \in Seq(Requests)
            BY <1>1, HeadFirst
          <6> QED
            BY <6>1, HitsFinite
        <5>4. /\ Many(up, For(sheet)) \in Nat /\ Many(jobs, For(sheet)) \in Nat
              /\ Many(down, Ends(sheet)) \in Nat
          BY ManyTyped
        <5>5. OnItsWay(sheet) # 0
          BY <5>2, <5>3, <5>4 DEF OnItsWay
        <5> QED
          BY <1>1, <2>1, <5>5 DEF HearInv
      <4>3. PICK n \in DOMAIN told : told[n].what = sheet /\ told[n].signal = "succeeded"
        BY <3>4, <4>1
      <4>4. /\ Len(down) \in Nat /\ Len(told) \in Nat /\ DOMAIN told = 1 .. Len(told)
            /\ Len(down') = Len(down) + Len(told)
            /\ \A i \in 1 .. Len(down) + Len(told) :
                 down'[i] = IF i <= Len(down) THEN down[i] ELSE told[i - Len(down)]
        BY <1>1, <1>2, ConcatProperties, LenProperties
      <4>5. /\ Len(down) + n \in 1 .. Len(down) + Len(told) /\ ~(Len(down) + n <= Len(down))
            /\ Len(down) + n - Len(down) = n
        BY <4>4
      <4>6. down'[Len(down) + n] = told[n] /\ Len(down) + n \in 1 .. Len(down')
        BY <4>4, <4>5
      <4>7. Closing'
        BY <2>2, <4>2, <4>3, <4>6 DEF Closing
      <4> QED
        BY <2>1, <4>7
    <3> QED
      BY <1>2, <3>1, <3>3, <3>4
  <2> QED
    BY <2>1, <2>3, <2>4
<1> QED
  BY <1>4, <1>5, <1>6 DEF MeantInv

LEMMA ReceiveKeepsMeant ==
  ASSUME TypeOK, HearInv, MeantInv, Receives
  PROVE  MeantInv'
<1> DEFINE m == Head(down)
           closed == Answers(m) /\ m.signal = "succeeded"
<1>1. /\ down # <<>> /\ down \in Seq(Messages) /\ down' = Tail(down)
      /\ seen' = m.props /\ awaiting' = StillAwaiting(m)
      /\ sheet' = (IF closed THEN None ELSE sheet)
      /\ meant' = (IF closed THEN None ELSE meant)
      /\ UNCHANGED <<up, backend>>
  BY DEF Receives, TypeOK
<1>2. UNCHANGED <<up, alive, here, held, jobs>>
  BY <1>1 DEF backend
<1>3. JobsInv' /\ UpInv'
  BY <1>2 DEF MeantInv, JobsInv, UpInv, MeantAt
<1>4. /\ m \in Messages /\ Tail(down) \in Seq(Messages) /\ Len(down) \in Nat \ {0}
      /\ m = down[1] /\ Len(Tail(down)) = Len(down) - 1
      /\ \A n \in 1 .. Len(down) - 1 : Tail(down)[n] = down[n + 1]
  BY <1>1, HeadFirst
<1> HIDE DEF m
<1>5. SheetInv'
  <2> SUFFICES ASSUME alive, meant' # None
               PROVE  sheet' \in Sheets \ {"observeAccount"} /\ (Closing' \/ Steady')
    BY <1>2 DEF SheetInv
  <2>1. ~closed /\ sheet' = sheet /\ meant' = meant /\ meant # None
    BY <1>1
  <2>2. sheet \in Sheets \ {"observeAccount"} /\ (Closing \/ Steady)
    BY <2>1 DEF MeantInv, SheetInv
  <2>3. CASE Steady
    <3>1. /\ here.selected = meant /\ meant \in held
          /\ down \in Seq(Showing(meant))
          /\ up \in Seq(Staying(sheet)) /\ jobs \in Seq(Staying(sheet))
      BY <2>3 DEF Steady
    <3>2. m \in Showing(meant) /\ Tail(down) \in Seq(Showing(meant))
      BY <1>1, <3>1, HeadFirst DEF m
    <3>3. seen'.selected = meant
      BY <1>1, <3>2 DEF Showing
    <3>4. Steady'
      BY <1>1, <1>2, <2>1, <3>1, <3>2, <3>3 DEF Steady
    <3> QED
      BY <2>1, <2>2, <3>4
  <2>4. CASE Closing
    <3>1. PICK n \in 1 .. Len(down) : down[n].what = sheet /\ down[n].signal = "succeeded"
      BY <2>4 DEF Closing
    <3>2. awaiting = sheet
      BY <2>4 DEF Closing
    <3>3. n # 1
      BY <1>4, <2>1, <3>1, <3>2 DEF Answers
    <3>4. n - 1 \in 1 .. Len(Tail(down)) /\ Tail(down)[n - 1] = down[n]
      BY <1>4, <3>1, <3>3
    <3>5. down[n] \in Ends(sheet)
      <4>1. down[n] \in Messages
        BY <1>1, <3>1, ElementOfSeq
      <4> QED
        BY <3>1, <4>1 DEF Ends
    <3>6. Many(Tail(down), Ends(sheet)) \in Nat /\ Many(Tail(down), Ends(sheet)) # 0
      BY <1>4, <3>4, <3>5, HitsFinite
    <3>7. Many(down, Ends(sheet))
            = (IF m \in Ends(sheet) THEN 1 ELSE 0) + Many(Tail(down), Ends(sheet))
      BY <1>1, ManyTail DEF m
    <3>8. /\ Many(up, For(sheet)) \in Nat /\ Many(jobs, For(sheet)) \in Nat
          /\ Many(down, Ends(sheet)) \in Nat
      BY ManyTyped
    <3>9. Many(up, For(sheet)) + Many(jobs, For(sheet)) + Many(down, Ends(sheet)) = 1
      BY <2>2, <3>2 DEF HearInv, OnItsWay
    <3>10. m \notin Ends(sheet)
      BY <3>6, <3>7, <3>8, <3>9
    <3>11. awaiting' = sheet
      BY <1>1, <1>4, <3>2, <3>10 DEF StillAwaiting, Answers, Ends
    <3>12. Closing'
      BY <1>1, <2>1, <3>1, <3>4, <3>11 DEF Closing
    <3> QED
      BY <2>1, <2>2, <3>12
  <2> QED
    BY <2>2, <2>3, <2>4
<1> QED
  BY <1>3, <1>5 DEF MeantInv

LEMMA MeantKept ==
  ASSUME TypeOK, HearInv, MeantInv, [Next]_vars
  PROVE  MeantInv'
<1>1. CASE Presses
  <2>1. JobsInv'
    BY <1>1, PressSends DEF MeantInv, JobsInv, backend
  <2> QED
    BY <1>1, <2>1, PressKeepsUp, PressKeepsSheet DEF MeantInv
<1>2. CASE Arrives
  BY <1>2, ArriveKeepsJobs, ArriveKeepsUp, ArriveKeepsSheet DEF MeantInv
<1>3. CASE LandsNext \/ Receives
  BY <1>3, LandKeepsMeant, ReceiveKeepsMeant
<1>4. CASE VaultComesAndGoes \/ UNCHANGED vars
  BY <1>4 DEF MeantInv, JobsInv, UpInv, SheetInv, MeantAt, Closing, Steady,
              VaultComesAndGoes, vars, view, backend
<1>5. CASE Stops
  <2>1. <<>> \in Seq(OnMeant)
    BY EmptySeq
  <2> QED
    BY <1>5, <2>1 DEF MeantInv, JobsInv, UpInv, SheetInv, Stops
<1>6. CASE HearsStopped
  BY <1>6 DEF MeantInv, JobsInv, UpInv, SheetInv, HearsStopped, backend
<1> QED
  BY <1>1, <1>2, <1>3, <1>4, <1>5, <1>6 DEF Next

LEMMA MeantInit ==
  ASSUME Init
  PROVE  MeantInv
<1>1. <<>> \in Seq(OnMeant)
  BY EmptySeq
<1>2. up = <<>> /\ jobs = <<>> /\ meant = None
  BY DEF Init
<1>3. \A n : n \notin 1 .. Len(up)
  BY <1>2
<1> QED
  BY <1>1, <1>2, <1>3 DEF MeantInv, JobsInv, UpInv, SheetInv

LEMMA MeantActs ==
  ASSUME MeantInv
  PROVE  ActsOnWhatIsDrawn
<1>1. \A n \in DOMAIN jobs : jobs[n] \in OnMeant
  BY LenProperties, ElementOfSeq DEF MeantInv, JobsInv
<1> QED
  BY <1>1 DEF ActsOnWhatIsDrawn, OnMeant

\* What is pressed on an account's state, or in a sheet opened over it, acts on
\* that account (Store.qml:34-35), although the call names none and the backend
\* applies it to whatever it shows when it arrives: unless another account was
\* on its way to the screen as it was pressed, none comes on screen before the
\* call does.
THEOREM PressesActOnWhatIsDrawn == Spec => []ActsOnWhatIsDrawn
<1>1. Init => TypeOK /\ HearInv /\ MeantInv
  BY TypeInit, HearInit, MeantInit
<1>2. (TypeOK /\ HearInv /\ MeantInv) /\ [Next]_vars => (TypeOK /\ HearInv /\ MeantInv)'
  BY TypeKept, HearKept, MeantKept
<1>3. TypeOK /\ HearInv /\ MeantInv => ActsOnWhatIsDrawn
  BY MeantActs
<1> QED
  BY <1>1, <1>2, <1>3, PTL DEF Spec

-----------------------------------------------------------------------------
(* An account on screen is drawn in the end.                               *)

\* What the view has not heard ends with what the properties are.
LatestInv == alive => UpToDate(down, here, seen)

\* A call that ends in a listing, or in the state of the account selected.
Brings(c, a) == c.what = "accounts" \/ (c.what = "state" /\ c.addr = a)
Coming == \E n \in 1 .. Len(jobs) : Brings(jobs[n], here.selected)

DrawnInv == alive => \/ here.shown = here.selected \/ here.selected = None
                     \/ here.problem \/ Coming

LEMMA ToldLatest ==
  ASSUME TypeOK, LatestInv, alive, NEW told \in Seq(Messages), down' = down \o told,
         UpToDate(told, here', here), seen' = seen
  PROVE  LatestInv'
<1>1. down \in Seq(Messages) /\ UpToDate(down, here, seen)
  BY DEF TypeOK, LatestInv
<1>2. UpToDate(down \o told, here', seen)
  BY <1>1, UpToDateConcat
<1> QED
  BY <1>2 DEF LatestInv, UpToDate

LEMMA LatestKept ==
  ASSUME TypeOK, LatestInv, [Next]_vars
  PROVE  LatestInv'
<1>1. CASE Presses
  BY <1>1, PressSends DEF LatestInv, backend, UpToDate
<1>2. CASE Arrives
  <2>1. PICK told \in Seq(Messages) : down' = down \o told /\ UpToDate(told, here', here)
    BY <1>2, ArrivingSays
  <2>2. alive /\ seen' = seen
    BY <1>2, ArrivingSays DEF view
  <2> QED
    BY <2>1, <2>2, ToldLatest
<1>3. CASE LandsNext
  <2>1. PICK told \in Seq(Messages) : down' = down \o told /\ UpToDate(told, here', here)
    BY <1>3, LandingSays
  <2>2. alive /\ seen' = seen
    BY <1>3, LandingSays DEF view
  <2> QED
    BY <2>1, <2>2, ToldLatest
<1>4. CASE Receives
  <2>1. /\ down # <<>> /\ down \in Seq(Messages) /\ down' = Tail(down)
        /\ seen' = Head(down).props /\ alive' = alive /\ here' = here
    BY <1>4 DEF Receives, TypeOK, backend
  <2>2. /\ Tail(down) \in Seq(Messages) /\ Len(down) \in Nat \ {0}
        /\ Head(down) = down[1] /\ Len(Tail(down)) = Len(down) - 1
        /\ \A n \in 1 .. Len(down) - 1 : Tail(down)[n] = down[n + 1]
    BY <2>1, HeadFirst
  <2>3. CASE Tail(down) = <<>>
    <3>0. Len(Tail(down)) = 0
      BY <2>2, <2>3, EmptySeq
    <3>1. Len(down) = 1
      BY <2>2, <3>0
    <3> QED
      BY <2>1, <2>2, <2>3, <3>1 DEF LatestInv, UpToDate
  <2>4. CASE Tail(down) # <<>>
    <3>0. Len(Tail(down)) # 0
      BY <2>2, <2>4, EmptySeq
    <3>1. Len(down) # 1
      BY <2>2, <3>0
    <3>2. Len(down) - 1 \in 1 .. Len(down) - 1 /\ (Len(down) - 1) + 1 = Len(down)
      BY <2>2, <3>1
    <3>3. Tail(down)[Len(Tail(down))] = down[Len(down)]
      BY <2>2, <3>2
    <3> QED
      BY <2>1, <2>4, <3>3 DEF LatestInv, UpToDate
  <2> QED
    BY <2>3, <2>4
<1>5. CASE VaultComesAndGoes \/ Stops \/ HearsStopped \/ UNCHANGED vars
  BY <1>5 DEF LatestInv, UpToDate, VaultComesAndGoes, Stops, HearsStopped, vars, view, backend
<1> QED
  BY <1>1, <1>2, <1>3, <1>4, <1>5 DEF Next

\* The properties a reply leaves are those of its last step, but for busy.
LEMMA LandsTo ==
  ASSUME NEW steps \in Seq(Properties), NEW calls, NEW signals, here \in Properties,
         Lands(steps, calls, signals)
  PROVE  /\ jobs' = Tail(jobs) \o calls
         /\ here'.selected = After(steps).selected /\ here'.shown = After(steps).shown
         /\ here'.problem = After(steps).problem
<1>1. After(steps) \in Properties
  BY AfterSteps
<1>2. here' = [After(steps) EXCEPT !.busy = jobs' # <<>>] /\ jobs' = Tail(jobs) \o calls
  BY DEF Lands, After
<1> QED
  BY <1>1, <1>2 DEF Properties

LEMMA QueuesTo ==
  ASSUME NEW steps \in Seq(Properties), NEW calls, here \in Properties, Queues(steps, calls)
  PROVE  /\ jobs' = jobs \o calls
         /\ here'.selected = After(steps).selected /\ here'.shown = After(steps).shown
         /\ here'.problem = After(steps).problem
<1> DEFINE p == After(steps)
           q == [p EXCEPT !.busy = TRUE]
           all == IF calls = <<>> THEN steps ELSE Append(steps, q)
<1>1. p \in Properties
  BY AfterSteps
<1>2. jobs' = jobs \o calls /\ here' = After(all)
  BY DEF Queues, After
<1>3. q \in Properties /\ q.selected = p.selected /\ q.shown = p.shown /\ q.problem = p.problem
  BY <1>1 DEF Properties
<1>4. CASE calls = <<>>
  BY <1>2, <1>4
<1>5. CASE calls # <<>>
  <2> HIDE DEF q
  <2>1. /\ Append(steps, q) \in Seq(Properties) /\ Len(Append(steps, q)) = Len(steps) + 1
        /\ Append(steps, q)[Len(steps) + 1] = q /\ Len(steps) \in Nat
    BY <1>3, AppendProperties, LenProperties
  <2>2. Append(steps, q) # <<>> /\ Last(Append(steps, q)) = q
    BY <2>1, EmptySeq DEF Last
  <2>3. here' = q
    BY <1>2, <1>5, <2>2 DEF After
  <2> QED
    BY <1>2, <1>3, <2>3
<1> QED
  BY <1>4, <1>5

\* What was to come still is, once a call that would not bring it is over.
LEMMA StillComing ==
  ASSUME jobs \in Seq(Requests), jobs # <<>>, NEW calls \in Seq(Requests),
         jobs' = Tail(jobs) \o calls, here'.selected = here.selected,
         ~Brings(Head(jobs), here.selected), Coming
  PROVE  Coming'
<1>1. /\ Tail(jobs) \in Seq(Requests) /\ Len(jobs) \in Nat \ {0}
      /\ Head(jobs) = jobs[1] /\ Len(Tail(jobs)) = Len(jobs) - 1
      /\ \A n \in 1 .. Len(jobs) - 1 : Tail(jobs)[n] = jobs[n + 1]
  BY HeadFirst
<1>2. PICK n \in 1 .. Len(jobs) : Brings(jobs[n], here.selected)
  BY DEF Coming
<1>3. n # 1
  BY <1>1, <1>2
<1>4. n - 1 \in 1 .. Len(jobs) - 1 /\ (n - 1) + 1 = n
  BY <1>1, <1>3
<1>5. /\ Len(calls) \in Nat /\ Len(jobs') = Len(Tail(jobs)) + Len(calls)
      /\ \A i \in 1 .. Len(Tail(jobs)) + Len(calls) :
           jobs'[i] = IF i <= Len(Tail(jobs)) THEN Tail(jobs)[i] ELSE calls[i - Len(Tail(jobs))]
  BY <1>1, ConcatProperties, LenProperties
<1>6. /\ n - 1 \in 1 .. Len(Tail(jobs)) + Len(calls) /\ n - 1 <= Len(Tail(jobs))
  BY <1>1, <1>4, <1>5
<1>7. jobs'[n - 1] = jobs[n]
  BY <1>1, <1>4, <1>5, <1>6
<1> QED
  BY <1>2, <1>5, <1>6, <1>7 DEF Coming

\* What a call just made brings is to come.
LEMMA NowComing ==
  ASSUME NEW s \in Seq(Requests), NEW calls \in Seq(Requests), jobs' = s \o calls,
         NEW n \in 1 .. Len(calls), Brings(calls[n], here'.selected)
  PROVE  Coming'
<1>1. /\ Len(s) \in Nat /\ Len(calls) \in Nat /\ Len(jobs') = Len(s) + Len(calls)
      /\ \A i \in 1 .. Len(s) + Len(calls) :
           jobs'[i] = IF i <= Len(s) THEN s[i] ELSE calls[i - Len(s)]
  BY ConcatProperties, LenProperties
<1>2. /\ Len(s) + n \in 1 .. Len(s) + Len(calls) /\ ~(Len(s) + n <= Len(s))
      /\ Len(s) + n - Len(s) = n
  BY <1>1
<1>3. jobs'[Len(s) + n] = calls[n]
  BY <1>1, <1>2
<1> QED
  BY <1>1, <1>2, <1>3 DEF Coming

\* A reply that sets nothing: it brings no account on screen, or the call it
\* makes does.
LEMMA SilentDraws ==
  ASSUME TypeOK, DrawnInv, alive, jobs # <<>>, NEW calls \in Seq(Chained), NEW signals,
         Lands(<<>>, calls, signals),
         \/ ~Brings(Head(jobs), here.selected)
         \/ \E n \in 1 .. Len(calls) : Brings(calls[n], here.selected)
  PROVE  DrawnInv'
<1>1. <<>> \in Seq(Properties) /\ here \in Properties /\ jobs \in Seq(Requests)
  BY EmptySeq DEF TypeOK
<1>2. /\ jobs' = Tail(jobs) \o calls
      /\ here'.selected = here.selected /\ here'.shown = here.shown
      /\ here'.problem = here.problem
  BY <1>1, LandsTo DEF After
<1>3. calls \in Seq(Requests) /\ Tail(jobs) \in Seq(Requests)
  BY <1>1, SeqMonotonic, HeadFirst DEF Chained
<1>4. CASE \E n \in 1 .. Len(calls) : Brings(calls[n], here.selected)
  <2>1. Coming'
    BY <1>2, <1>3, <1>4, NowComing
  <2> QED
    BY <2>1 DEF DrawnInv
<1>5. CASE ~Brings(Head(jobs), here.selected)
  <2>1. Coming => Coming'
    BY <1>1, <1>2, <1>3, <1>5, StillComing
  <2> QED
    BY <1>2, <2>1 DEF DrawnInv
<1> QED
  BY <1>4, <1>5

LEMMA AccountsDraw ==
  ASSUME TypeOK, DrawnInv, LandAccounts
  PROVE  DrawnInv'
<1> DEFINE read   == [here EXCEPT !.problem = FALSE]
           listed == [read EXCEPT !.list = held]
           kept   == here.selected \in held
<1>0. /\ here \in Properties /\ here.selected \in Addr \cup {None} /\ held \in SUBSET Addr
      /\ jobs \in Seq(Requests) /\ jobs # <<>>
  BY HereTyped DEF LandAccounts, Landing, TypeOK
<1>1. CASE broken
  <2> DEFINE p == [here EXCEPT !.problem = TRUE]
  <2>1. Lands(<<p>>, <<>>, <<>>)
    BY <1>1 DEF LandAccounts
  <2>2. p \in Properties /\ p.problem = TRUE
    BY <1>0 DEF Properties
  <2> HIDE DEF p
  <2>3. <<p>> \in Seq(Properties) /\ After(<<p>>) = p
    BY <2>2 DEF After, Last
  <2>4. here'.problem = TRUE
    BY <1>0, <2>1, <2>2, <2>3, LandsTo
  <2> QED
    BY <2>4 DEF DrawnInv
<1>2. CASE ~broken /\ held = {}
  <2> DEFINE p == [listed EXCEPT !.selected = None]
             q == [listed EXCEPT !.selected = None, !.shown = None]
             steps == <<read, listed, p, q>>
  <2>1. Lands(steps, <<>>, <<>>)
    BY <1>2 DEF LandAccounts
  <2>2. /\ read \in Properties /\ listed \in Properties /\ p \in Properties
        /\ q \in Properties /\ q.selected = None
    BY <1>0 DEF Properties
  <2> HIDE DEF read, listed, p, q
  <2>3. steps \in Seq(Properties) /\ After(steps) = q
    BY <2>2 DEF After, Last
  <2> HIDE DEF steps
  <2>4. here'.selected = None
    BY <1>0, <2>1, <2>2, <2>3, LandsTo
  <2> QED
    BY <2>4 DEF DrawnInv
<1>3. CASE ~broken /\ held # {}
  <2>1. PICK to \in IF kept THEN {here.selected} ELSE held :
          Lands(<<read, listed, [listed EXCEPT !.selected = to]>>,
                <<Call("state", to)>> \o (IF kept THEN <<>> ELSE <<Call("refresh", to)>>),
                <<>>)
    BY <1>3 DEF LandAccounts
  <2> DEFINE p == [listed EXCEPT !.selected = to]
             steps == <<read, listed, p>>
             rest == IF kept THEN <<>> ELSE <<Call("refresh", to)>>
             first == <<Call("state", to)>>
             calls == first \o rest
  <2>2. to \in Addr
    BY <1>0, <2>1
  <2>3. Call("state", to) \in Chained /\ Call("refresh", to) \in Chained
    BY <2>2, ChainedCall DEF Own
  <2>4. first \in Seq(Requests) /\ rest \in Seq(Requests) /\ first[1] = Call("state", to)
        /\ Len(first) = 1
    BY <2>3, EmptySeq DEF Chained
  <2>5. /\ read \in Properties /\ listed \in Properties
        /\ p \in Properties /\ p.selected = to
    BY <1>0, <2>2 DEF Properties
  <2>6. Lands(steps, calls, <<>>)
    BY <2>1
  <2> HIDE DEF read, listed, p, first, rest
  <2>7. steps \in Seq(Properties) /\ After(steps) = p
    BY <2>5 DEF After, Last
  <2> HIDE DEF steps
  <2>8. /\ calls \in Seq(Requests) /\ Len(calls) = 1 + Len(rest)
        /\ \A i \in 1 .. 1 + Len(rest) : calls[i] = IF i <= 1 THEN first[i] ELSE rest[i - 1]
    BY <2>4, ConcatProperties
  <2>9. Len(rest) \in Nat
    BY <2>4, LenProperties
  <2> HIDE DEF calls
  <2>10. 1 \in 1 .. Len(calls) /\ calls[1] = Call("state", to)
    BY <2>4, <2>8, <2>9
  <2>11. jobs' = Tail(jobs) \o calls /\ here'.selected = to
    BY <1>0, <2>5, <2>6, <2>7, LandsTo
  <2>12. Tail(jobs) \in Seq(Requests)
    BY <1>0, HeadFirst
  <2>13. Brings(calls[1], here'.selected)
    BY <2>10, <2>11 DEF Brings, Call
  <2>14. Coming'
    BY <2>8, <2>10, <2>11, <2>12, <2>13, NowComing
  <2> QED
    BY <2>14 DEF DrawnInv
<1> QED
  BY <1>1, <1>2, <1>3

LEMMA StateDraws ==
  ASSUME TypeOK, DrawnInv, LandState
  PROVE  DrawnInv'
<1> DEFINE a == Head(jobs).addr
           read == [here EXCEPT !.problem = FALSE]
           p == [read EXCEPT !.shown = a]
           q == [here EXCEPT !.problem = TRUE]
<1>0. /\ here \in Properties /\ here.selected \in Addr \cup {None} /\ held \in SUBSET Addr
      /\ jobs \in Seq(Requests) /\ jobs # <<>> /\ alive /\ Head(jobs).what = "state"
  BY HereTyped DEF LandState, Landing, TypeOK
<1>1. a \in Addr \cup {None}
  BY <1>0, HeadTyped, RequestTyped
<1>2. CASE a # here.selected
  <2>1. Lands(<<>>, <<>>, <<>>)
    BY <1>2 DEF LandState
  <2>2. ~Brings(Head(jobs), here.selected) /\ <<>> \in Seq(Chained)
    BY <1>0, <1>2, EmptySeq DEF Brings
  <2> QED
    BY <1>0, <2>1, <2>2, SilentDraws
<1>3. CASE a = here.selected /\ (broken \/ a \notin held)
  <2>1. Lands(<<q>>, <<>>, <<>>)
    BY <1>3 DEF LandState, StateRefused
  <2>2. q \in Properties /\ q.problem = TRUE
    BY <1>0 DEF Properties
  <2> HIDE DEF q
  <2>3. <<q>> \in Seq(Properties) /\ After(<<q>>) = q
    BY <2>2 DEF After, Last
  <2>4. here'.problem = TRUE
    BY <1>0, <2>1, <2>2, <2>3, LandsTo
  <2> QED
    BY <2>4 DEF DrawnInv
<1>4. CASE a = here.selected /\ ~(broken \/ a \notin held)
  <2>1. Lands(<<read, p>>, <<>>, <<>>)
    BY <1>4 DEF LandState
  <2>2. read \in Properties /\ p \in Properties /\ p.shown = p.selected
    BY <1>0, <1>1, <1>4 DEF Properties
  <2> HIDE DEF read, p
  <2>3. <<read, p>> \in Seq(Properties) /\ After(<<read, p>>) = p
    BY <2>2 DEF After, Last
  <2>4. here'.shown = here'.selected
    BY <1>0, <2>1, <2>2, <2>3, LandsTo
  <2> QED
    BY <2>4 DEF DrawnInv
<1> QED
  BY <1>2, <1>3, <1>4

\* One listing more.
LEMMA Relists ==
  ASSUME NEW a
  PROVE  /\ <<Call("accounts", None)>> \in Seq(Chained)
         /\ \E n \in 1 .. Len(<<Call("accounts", None)>>) :
               Brings(<<Call("accounts", None)>>[n], a)
<1>1. Call("accounts", None) \in Chained /\ Brings(Call("accounts", None), a)
  BY ChainedCall DEF Own, Brings, Call
<1> DEFINE c == Call("accounts", None)
<1> HIDE DEF c
<1>2. c \in Chained /\ Brings(c, a)
  BY <1>1 DEF c
<1>3. Len(<<c>>) = 1 /\ <<c>>[1] = c /\ <<c>> \in Seq(Chained)
  BY <1>2
<1>4. 1 \in 1 .. Len(<<c>>) /\ Brings(<<c>>[1], a)
  BY <1>2, <1>3
<1> QED
  BY <1>3, <1>4 DEF c

LEMMA RefreshDraws ==
  ASSUME TypeOK, DrawnInv, LandRefresh
  PROVE  DrawnInv'
<1>1. jobs # <<>> /\ alive /\ Head(jobs).what = "refresh"
  BY DEF LandRefresh, Landing
<1>2. ~Brings(Head(jobs), here.selected)
  BY <1>1 DEF Brings
<1>3. Call("accounts", None) \in Chained
  BY ChainedCall DEF Own
<1>4. <<Call("accounts", None)>> \in Seq(Chained) /\ <<>> \in Seq(Chained)
  BY <1>3, EmptySeq
<1>5. ASSUME NEW calls \in Seq(Chained), Lands(<<>>, calls, <<>>)
      PROVE  DrawnInv'
  BY <1>1, <1>2, <1>5, SilentDraws
<1> QED
  BY <1>4, <1>5, Zenon DEF LandRefresh

LEMMA AnsweredDraws ==
  ASSUME TypeOK, DrawnInv,
         LandExported \/ \E what \in Calls : LandRefused(what) \/ LandListed(what)
  PROVE  DrawnInv'
<1>1. CASE LandExported
  <2>1. jobs # <<>> /\ alive /\ Head(jobs).what = "exportAccount"
        /\ Lands(<<>>, <<>>, <<"exported", "succeeded">>) /\ <<>> \in Seq(Chained)
    BY <1>1, EmptySeq DEF LandExported, Landing
  <2>2. ~Brings(Head(jobs), here.selected)
    BY <2>1 DEF Brings
  <2> QED
    BY <2>1, <2>2, SilentDraws
<1>2. ASSUME NEW what, LandListed(what)
      PROVE  DrawnInv'
  <2>1. jobs # <<>> /\ alive
        /\ Lands(<<>>, <<Call("accounts", None)>>, <<"succeeded">>)
    BY <1>2 DEF LandListed, Landing
  <2> QED
    BY <2>1, Relists, SilentDraws
<1>3. ASSUME NEW what, LandRefused(what)
      PROVE  DrawnInv'
  <2> DEFINE calls ==
        IF what # "publish" THEN <<>>
        ELSE IF Head(jobs).addr = here.selected THEN <<Call("refresh", here.selected)>>
        ELSE <<Call("accounts", None)>>
  <2>1. /\ jobs # <<>> /\ alive /\ Head(jobs).what \notin Own
        /\ Lands(<<>>, calls, <<"failed">>)
    BY <1>3 DEF LandRefused, Landing, Own
  <2>2. ~Brings(Head(jobs), here.selected)
    BY <2>1 DEF Brings, Own
  <2>3. Call("refresh", here.selected) \in Chained
    BY ChainedCall, HereTyped DEF Own
  <2>4. calls \in Seq(Chained)
    BY <2>3, Relists, EmptySeq
  <2> HIDE DEF calls
  <2> QED
    BY <2>1, <2>2, <2>4, SilentDraws
<1> QED
  BY <1>1, <1>2, <1>3

\* A reply that ends in a listing, whatever else it does.
LEMMA ListingDraws ==
  ASSUME TypeOK, jobs # <<>>, NEW steps \in Seq(Properties), NEW calls \in Seq(Chained),
         NEW signals, Lands(steps, calls, signals),
         NEW n \in 1 .. Len(calls), calls[n].what = "accounts"
  PROVE  DrawnInv'
<1>1. here \in Properties /\ jobs \in Seq(Requests)
  BY DEF TypeOK
<1>2. Tail(jobs) \in Seq(Requests) /\ calls \in Seq(Requests)
  BY <1>1, HeadFirst, SeqMonotonic DEF Chained
<1>3. jobs' = Tail(jobs) \o calls
  BY <1>1, LandsTo
<1>4. Brings(calls[n], here'.selected)
  BY DEF Brings
<1>5. Coming'
  BY <1>2, <1>3, <1>4, NowComing
<1> QED
  BY <1>5 DEF DrawnInv

LEMMA TakenDraws ==
  ASSUME TypeOK, NEW what, LandTaken(what)
  PROVE  DrawnInv'
<1> DEFINE a == Head(jobs).addr
           p == [here EXCEPT !.selected = a]
           c == Call("accounts", None)
           calls == <<c, Call("state", a), Call("refresh", a)>>
<1>1. /\ what \in Takes \cup {"observeAccount"} /\ Head(jobs).what = what /\ jobs # <<>>
      /\ Lands(<<p>>, calls, <<"succeeded">>)
  BY DEF LandTaken, Landing
<1>2. a \in Addr
  BY <1>1, HeadTyped, RequestTyped
<1>3. /\ c \in Chained /\ Call("state", a) \in Chained
      /\ Call("refresh", a) \in Chained /\ c.what = "accounts"
  BY <1>2, ChainedCall DEF Own, Call
<1>4. p \in Properties
  BY <1>2, HereTyped DEF Properties
<1> HIDE DEF p, c, a
<1>5. <<p>> \in Seq(Properties)
  BY <1>4
<1>6. calls \in Seq(Chained) /\ 1 \in 1 .. Len(calls) /\ calls[1] = c
  BY <1>3
<1> HIDE DEF calls
<1> QED
  BY <1>1, <1>3, <1>5, <1>6, ListingDraws

LEMMA LeftDraws ==
  ASSUME TypeOK, NEW what, LandLeft(what)
  PROVE  DrawnInv'
<1> DEFINE p == [here EXCEPT !.selected = None]
           steps == IF Head(jobs).addr = here.selected THEN <<p>> ELSE <<>>
           c == Call("accounts", None)
           calls == <<c>>
<1>1. jobs # <<>> /\ Lands(steps, calls, <<"succeeded">>)
  BY DEF LandLeft, Landing
<1>2. c \in Chained /\ c.what = "accounts"
  BY ChainedCall DEF Own, Call
<1>3. p \in Properties
  BY HereTyped DEF Properties
<1> HIDE DEF p, c
<1>4. steps \in Seq(Properties)
  BY <1>3, EmptySeq
<1>5. calls \in Seq(Chained) /\ 1 \in 1 .. Len(calls) /\ calls[1] = c
  BY <1>2
<1> HIDE DEF steps, calls
<1> QED
  BY <1>1, <1>2, <1>4, <1>5, ListingDraws

LEMMA ArriveDraws ==
  ASSUME TypeOK, DrawnInv, Arrives
  PROVE  DrawnInv'
<1>1. /\ up # <<>> /\ alive /\ here \in Properties /\ jobs \in Seq(Requests)
      /\ up \in Seq(Requests)
  BY ArrivesQueues DEF TypeOK
<1>2. PICK steps \in Seq(Properties), calls \in Seq(Requests) :
         /\ Queues(steps, calls)
         /\ \/ steps = <<>>
            \/ /\ steps = <<[here EXCEPT !.selected = Head(up).addr]>>
               /\ calls = <<Call("state", Head(up).addr), Call("refresh", Head(up).addr)>>
  BY ArrivesQueues
<1>3. /\ jobs' = jobs \o calls
      /\ here'.selected = After(steps).selected /\ here'.shown = After(steps).shown
      /\ here'.problem = After(steps).problem
  BY <1>1, <1>2, QueuesTo
<1>4. CASE steps = <<>>
  <2>1. Coming => Coming'
    <3> SUFFICES ASSUME Coming PROVE Coming'
      OBVIOUS
    <3>1. PICK n \in 1 .. Len(jobs) : Brings(jobs[n], here.selected)
      BY DEF Coming
    <3>2. /\ Len(jobs) \in Nat /\ Len(calls) \in Nat /\ Len(jobs') = Len(jobs) + Len(calls)
          /\ \A i \in 1 .. Len(jobs) + Len(calls) :
               jobs'[i] = IF i <= Len(jobs) THEN jobs[i] ELSE calls[i - Len(jobs)]
      BY <1>1, <1>3, ConcatProperties, LenProperties
    <3>3. n \in 1 .. Len(jobs) + Len(calls) /\ n <= Len(jobs)
      BY <3>2
    <3>4. jobs'[n] = jobs[n] /\ n \in 1 .. Len(jobs')
      BY <3>2, <3>3
    <3> QED
      BY <1>3, <1>4, <3>1, <3>4 DEF Coming, After
  <2> QED
    BY <1>1, <1>3, <1>4, <2>1 DEF DrawnInv, After
<1>5. CASE /\ steps = <<[here EXCEPT !.selected = Head(up).addr]>>
           /\ calls = <<Call("state", Head(up).addr), Call("refresh", Head(up).addr)>>
  <2> DEFINE a == Head(up).addr
             p == [here EXCEPT !.selected = a]
             c == Call("state", a)
             d == Call("refresh", a)
  <2>1. p.selected = a
    BY <1>1 DEF Properties
  <2>2. c.what = "state" /\ c.addr = a
    BY DEF Call
  <2>3. steps = <<p>> /\ calls = <<c, d>>
    BY <1>5
  <2> HIDE DEF p, c, d, a
  <2>4. After(steps) = p
    BY <2>3 DEF After, Last
  <2>5. 1 \in 1 .. Len(calls) /\ calls[1] = c
    BY <2>3
  <2>6. Brings(calls[1], here'.selected)
    BY <1>3, <2>1, <2>2, <2>4, <2>5 DEF Brings
  <2>7. Coming'
    BY <1>1, <1>3, <2>5, <2>6, NowComing
  <2> QED
    BY <2>7 DEF DrawnInv
<1> QED
  BY <1>2, <1>4, <1>5

LEMMA DrawnKept ==
  ASSUME TypeOK, DrawnInv, [Next]_vars
  PROVE  DrawnInv'
<1>1. CASE Presses
  BY <1>1, PressSends DEF DrawnInv, Coming, backend
<1>2. CASE Arrives
  BY <1>2, ArriveDraws
<1>3. CASE LandsNext
  BY <1>3, AccountsDraw, StateDraws, RefreshDraws, AnsweredDraws, TakenDraws, LeftDraws
     DEF LandsNext
<1>4. CASE VaultComesAndGoes \/ Stops \/ Receives \/ HearsStopped \/ UNCHANGED vars
  BY <1>4 DEF DrawnInv, Coming, VaultComesAndGoes, Stops, Receives, HearsStopped,
              vars, view, backend
<1> QED
  BY <1>1, <1>2, <1>3, <1>4 DEF Next

\* An account on screen is drawn once everything has landed, or the vault is
\* said not to be readable (AccountLogBackend.cpp:234): every account put on
\* screen has its state, or a listing, on its way, and a state put aside was
\* another account's.
THEOREM AccountsDrawnInTheEnd == Spec => []DrawnInTheEnd
<1> DEFINE Inv == TypeOK /\ LatestInv /\ DrawnInv
<1>1. Init => Inv
  <2>1. Init => LatestInv
    BY DEF Init, LatestInv, UpToDate
  <2>2. Init => here.shown = here.selected
    BY DEF Init
  <2> QED
    BY <2>1, <2>2, TypeInit DEF DrawnInv
<1>2. Inv /\ [Next]_vars => Inv'
  BY TypeKept, LatestKept, DrawnKept
<1>3. Inv => DrawnInTheEnd
  <2> SUFFICES ASSUME Inv, Settled PROVE Drawn = Address \/ seen.problem
    BY DEF DrawnInTheEnd
  <2>1. alive /\ ready /\ down = <<>> /\ Len(jobs) = 0
    BY DEF Settled
  <2>2. here = seen
    BY <2>1 DEF LatestInv, UpToDate
  <2>3. ~Coming
    BY <2>1 DEF Coming
  <2> QED
    BY <2>1, <2>2, <2>3 DEF DrawnInv, Drawn, Address
<1> QED
  BY <1>1, <1>2, <1>3, PTL DEF Spec
=============================================================================
