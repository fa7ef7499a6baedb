----------------------------- MODULE QueueLemmas -----------------------------
(***************************************************************************)
(* What the queue operations of the kernel do to the set of queued tasks   *)
(* and to the absence of duplicates: appending at the tail, taking the     *)
(* head, pushing at the head, and appending several tasks at once.  Then    *)
(* induction over a bounded number of steps, as a fact about sets, and     *)
(* the course of a loop of so many rounds.                                 *)
(***************************************************************************)
EXTENDS Sequences, Functions, Integers, FiniteSets, SequenceTheorems, FiniteSetTheorems, TLAPS

\* task_list_append and enqueue_sender: a new last element.
LEMMA AppendRange ==
  ASSUME NEW S, NEW s \in Seq(S), NEW x \in S
  PROVE  /\ Append(s, x) \in Seq(S)
         /\ Append(s, x) # <<>>
         /\ Range(Append(s, x)) = Range(s) \cup {x}
         /\ IsInjective(s) /\ x \notin Range(s) => IsInjective(Append(s, x))
<1> DEFINE a == Append(s, x)
<1>1. /\ a \in Seq(S) /\ Len(a) = Len(s) + 1 /\ Len(s) \in Nat
      /\ DOMAIN a = 1..(Len(s) + 1) /\ DOMAIN s = 1..Len(s)
      /\ a[Len(s) + 1] = x
      /\ \A i \in 1..Len(s) : a[i] = s[i]
  BY AppendProperties, LenProperties
<1>2. Append(s, x) # <<>>
  BY <1>1, EmptySeq
<1>3. Range(a) = Range(s) \cup {x}
  <2>1. ASSUME NEW i \in DOMAIN a PROVE a[i] \in Range(s) \cup {x}
    <3>1. CASE i = Len(s) + 1 BY <3>1, <1>1
    <3>2. CASE i # Len(s) + 1
      <4>1. i \in 1..Len(s) BY <3>2, <1>1
      <4> QED BY <4>1, <1>1 DEF Range
    <3> QED BY <3>1, <3>2
  <2>2. ASSUME NEW y \in Range(s) \cup {x} PROVE y \in Range(a)
    <3>1. CASE y = x
      <4>1. Len(s) + 1 \in DOMAIN a BY <1>1
      <4> QED BY <4>1, <3>1, <1>1 DEF Range
    <3>2. CASE y \in Range(s)
      <4>1. PICK i \in 1..Len(s) : s[i] = y BY <3>2, <1>1 DEF Range
      <4>2. i \in DOMAIN a /\ a[i] = y BY <4>1, <1>1
      <4> QED BY <4>2 DEF Range
    <3> QED BY <3>1, <3>2
  <2> QED BY <2>1, <2>2 DEF Range
<1>4. ASSUME IsInjective(s), x \notin Range(s) PROVE IsInjective(a)
  <2> SUFFICES ASSUME NEW i \in DOMAIN a, NEW j \in DOMAIN a, a[i] = a[j]
               PROVE  i = j
    BY DEF IsInjective
  <2>1. \A k \in 1..Len(s) : s[k] # x BY <1>4, <1>1 DEF Range
  <2>2. \A k, l \in 1..Len(s) : s[k] = s[l] => k = l BY <1>4, <1>1 DEF IsInjective
  <2> QED BY <2>1, <2>2, <1>1
<1> QED BY <1>1, <1>2, <1>3, <1>4

\* task_list_pop_left and dequeue_sender: the head leaves.
LEMMA TailRange ==
  ASSUME NEW S, NEW s \in Seq(S), s # <<>>
  PROVE  /\ Head(s) \in S
         /\ Head(s) \in Range(s)
         /\ Tail(s) \in Seq(S)
         /\ Range(s) = Range(Tail(s)) \cup {Head(s)}
         /\ IsInjective(s) => IsInjective(Tail(s)) /\ Head(s) \notin Range(Tail(s))
<1> DEFINE t == Tail(s)
<1>1. /\ Head(s) \in S /\ t \in Seq(S) /\ Len(s) \in Nat \ {0} /\ Len(t) = Len(s) - 1
      /\ DOMAIN s = 1..Len(s) /\ DOMAIN t = 1..(Len(s) - 1)
      /\ \A i \in 1..(Len(s) - 1) : t[i] = s[i + 1]
      /\ Head(s) = s[1]
  BY HeadTailProperties, LenProperties, EmptySeq
<1>2. Head(s) \in Range(s)
  BY <1>1 DEF Range
<1>3. Range(s) = Range(t) \cup {Head(s)}
  <2>1. ASSUME NEW i \in DOMAIN s PROVE s[i] \in Range(t) \cup {Head(s)}
    <3>1. CASE i = 1 BY <3>1, <1>1
    <3>2. CASE i # 1
      <4>1. i - 1 \in DOMAIN t /\ t[i - 1] = s[i] BY <3>2, <1>1
      <4> QED BY <4>1 DEF Range
    <3> QED BY <3>1, <3>2
  <2>2. ASSUME NEW i \in DOMAIN t PROVE t[i] \in Range(s)
    <3>1. i + 1 \in DOMAIN s /\ t[i] = s[i + 1] BY <1>1
    <3> QED BY <3>1 DEF Range
  <2> QED BY <2>1, <2>2, <1>2 DEF Range
<1>4. ASSUME IsInjective(s) PROVE IsInjective(t) /\ Head(s) \notin Range(t)
  <2>1. \A k, l \in 1..Len(s) : s[k] = s[l] => k = l BY <1>4, <1>1 DEF IsInjective
  <2>2. \A k, l \in DOMAIN t : t[k] = t[l] => k = l BY <2>1, <1>1
  <2>3. \A k \in DOMAIN t : t[k] # s[1] BY <2>1, <1>1
  <2> QED BY <2>2, <2>3, <1>1 DEF IsInjective, Range
<1> QED BY <1>1, <1>2, <1>3, <1>4

\* Appending several elements, or pushing one (s1 = <<x>>), when none is there yet.
LEMMA ConcatRange ==
  ASSUME NEW S, NEW s1 \in Seq(S), NEW s2 \in Seq(S)
  PROVE  /\ s1 \o s2 \in Seq(S)
         /\ Range(s1 \o s2) = Range(s1) \cup Range(s2)
         /\ IsInjective(s1) /\ IsInjective(s2) /\ Range(s1) \cap Range(s2) = {}
              => IsInjective(s1 \o s2)
<1> DEFINE c == s1 \o s2
           n == Len(s1)
           m == Len(s2)
<1>1. /\ c \in Seq(S) /\ n \in Nat /\ m \in Nat
      /\ DOMAIN c = 1..(n + m) /\ DOMAIN s1 = 1..n /\ DOMAIN s2 = 1..m
      /\ \A i \in 1..(n + m) : c[i] = IF i <= n THEN s1[i] ELSE s2[i - n]
  BY ConcatProperties, LenProperties
<1> HIDE DEF c, n, m
<1>2. ASSUME NEW i \in 1..(n + m)
      PROVE  \/ i \in 1..n /\ c[i] = s1[i]
             \/ i > n /\ i - n \in 1..m /\ c[i] = s2[i - n]
  BY <1>1
<1>3. ASSUME NEW i \in 1..n PROVE i \in 1..(n + m) /\ c[i] = s1[i]
  BY <1>1
<1>4. ASSUME NEW i \in 1..m PROVE i + n \in 1..(n + m) /\ c[i + n] = s2[i]
  BY <1>1
<1>5. Range(c) = Range(s1) \cup Range(s2)
  <2>1. ASSUME NEW y \in Range(c) PROVE y \in Range(s1) \cup Range(s2)
    <3>1. PICK i \in 1..(n + m) : c[i] = y BY <1>1 DEF Range
    <3> QED BY <1>1, <1>2, <3>1 DEF Range
  <2>2. ASSUME NEW y \in Range(s1) PROVE y \in Range(c)
    <3>1. PICK i \in 1..n : s1[i] = y BY <1>1 DEF Range
    <3> QED BY <1>1, <1>3, <3>1 DEF Range
  <2>3. ASSUME NEW y \in Range(s2) PROVE y \in Range(c)
    <3>1. PICK i \in 1..m : s2[i] = y BY <1>1 DEF Range
    <3> QED BY <1>1, <1>4, <3>1 DEF Range
  <2> QED BY <2>1, <2>2, <2>3
<1>6. ASSUME IsInjective(s1), IsInjective(s2), Range(s1) \cap Range(s2) = {}
      PROVE  IsInjective(c)
  <2>1. \A k, l \in 1..n : s1[k] = s1[l] => k = l BY <1>6, <1>1 DEF IsInjective
  <2>2. \A k, l \in 1..m : s2[k] = s2[l] => k = l BY <1>6, <1>1 DEF IsInjective
  <2>3. \A k \in 1..n, l \in 1..m : s1[k] # s2[l] BY <1>6, <1>1 DEF Range
  <2>4. \A k, l \in 1..(n + m) : c[k] = c[l] => k = l
    <3> SUFFICES ASSUME NEW k \in 1..(n + m), NEW l \in 1..(n + m), c[k] = c[l]
                 PROVE  k = l
      OBVIOUS
    <3>1. \/ k \in 1..n /\ c[k] = s1[k]
          \/ k > n /\ k - n \in 1..m /\ c[k] = s2[k - n] BY <1>2
    <3>2. \/ l \in 1..n /\ c[l] = s1[l]
          \/ l > n /\ l - n \in 1..m /\ c[l] = s2[l - n] BY <1>2
    <3> QED BY <3>1, <3>2, <2>1, <2>2, <2>3, <1>1
  <2> QED BY <2>4, <1>1 DEF IsInjective
<1> QED BY <1>1, <1>5, <1>6 DEF c

-----------------------------------------------------------------------------
(* Induction *)

\* A set of natural numbers has a least element: the intervals below its members are
\* finite sets, and finite sets have minimal ones.
LEMMA LeastNumber ==
  ASSUME NEW T, T \subseteq Nat, T # {}
  PROVE  \E x \in T : \A y \in T : x <= y
<1> DEFINE Below == {1..n : n \in T}
           R == StrictSubsetOrdering(Nat)
           S == FiniteSubsetsOf(Nat)
<1>1. Below \subseteq S /\ Below # {}
  <2>1. \A n \in T : n \in Int /\ IsFiniteSet(1..n) BY FS_Interval
  <2>2. \A n \in T : 1..n \in S BY <2>1 DEF FiniteSubsetsOf
  <2> QED BY <2>2
<1>2. \E x \in Below : \A y \in Below : ~ (<<y, x>> \in R)
  <2>1. IsWellFoundedOn(R, S) BY FS_StrictSubsetOrderingWellFounded
  <2> HIDE DEF Below, R, S
  <2> QED BY <1>1, <2>1, WFMin
<1>3. PICK m \in T : \A n \in T : <<1..n, 1..m>> \notin R
  BY <1>2
<1>4. ASSUME NEW n \in T, n < m PROVE FALSE
  <2>1. /\ 1..n \subseteq 1..m /\ m \in 1..m /\ m \notin 1..n
        /\ 1..n \in SUBSET Nat /\ 1..m \in SUBSET Nat
    BY <1>4
  <2> QED BY <2>1, <1>3 DEF StrictSubsetOrdering
<1> QED BY <1>4

\* What holds of 0 and of n + 1 with n holds up to N.
LEMMA Stepwise ==
  ASSUME NEW N \in Nat, NEW T, 0 \in T, \A n \in 0..(N - 1) : n \in T => n + 1 \in T
  PROVE  \A n \in 0..N : n \in T
<1> DEFINE Bad == {n \in 0..N : n \notin T}
<1>1. ASSUME Bad # {} PROVE FALSE
  <2>1. PICK m \in Bad : \A n \in Bad : m <= n
    <3>1. Bad \subseteq Nat OBVIOUS
    <3> HIDE DEF Bad
    <3> QED BY <1>1, <3>1, LeastNumber
  <2>2. m \in 0..N /\ m \notin T /\ m # 0 OBVIOUS
  <2>3. m - 1 \in 0..(N - 1) /\ m - 1 \in 0..N /\ ~(m <= m - 1) /\ (m - 1) + 1 = m
    BY <2>2
  <2>4. m - 1 \in T BY <2>1, <2>3
  <2> QED BY <2>2, <2>3, <2>4
<1> QED BY <1>1


\* f is the course of a loop of N rounds that starts with s.
Rounds(f, N, F, s) == f = [k \in 0..N |-> IF k = 0 THEN s ELSE F[f[k - 1]]]

\* Such a loop has a course.
LEMMA RoundsExist ==
  ASSUME NEW N \in Nat, NEW F, NEW s
  PROVE  \E f : Rounds(f, N, F, s)
<1> DEFINE Upto(f, m) == f = [k \in 0..m |-> IF k = 0 THEN s ELSE F[f[k - 1]]]
           T == {m \in 0..N : \E f : Upto(f, m)}
<1>1. 0 \in T
  <2> DEFINE f == [k \in 0..0 |-> s]
  <2>1. Upto(f, 0)
    <3>1. \A k \in 0..0 : k = 0 OBVIOUS
    <3>2. f = [k \in 0..0 |-> IF k = 0 THEN s ELSE F[f[k - 1]]] BY <3>1
    <3> QED BY <3>2
  <2> HIDE DEF Upto, f
  <2>2. 0 \in 0..N OBVIOUS
  <2> QED BY <2>1, <2>2
<1>2. ASSUME NEW m \in 0..(N - 1), m \in T PROVE m + 1 \in T
  <2>1. PICK f : Upto(f, m) BY <1>2
  <2> DEFINE h == [k \in 0..(m + 1) |-> IF k = m + 1 THEN F[f[m]] ELSE f[k]]
  <2>2. ASSUME NEW k \in 0..(m + 1)
        PROVE  h[k] = IF k = 0 THEN s ELSE F[h[k - 1]]
    <3>1. CASE k = m + 1
      <4>1. k # 0 /\ k - 1 = m /\ m \in 0..(m + 1) /\ m # m + 1 BY <3>1
      <4>2. h[k] = F[f[m]] /\ h[m] = f[m] BY <3>1, <4>1
      <4> QED BY <3>1, <4>1, <4>2
    <3>2. CASE k # m + 1
      <4>1. k \in 0..m /\ h[k] = f[k] BY <3>2
      <4>2. f[k] = IF k = 0 THEN s ELSE F[f[k - 1]] BY <2>1, <4>1
      <4>3. k # 0 => k - 1 \in 0..(m + 1) /\ k - 1 # m + 1 /\ h[k - 1] = f[k - 1]
        BY <4>1
      <4> QED BY <4>1, <4>2, <4>3
    <3> QED BY <3>1, <3>2
  <2>3. Upto(h, m + 1)
    <3>1. h = [k \in 0..(m + 1) |-> h[k]] OBVIOUS
    <3> HIDE DEF h
    <3>2. h = [k \in 0..(m + 1) |-> IF k = 0 THEN s ELSE F[h[k - 1]]] BY <2>2, <3>1
    <3> QED BY <3>2
  <2>4. m + 1 \in 0..N OBVIOUS
  <2> QED BY <2>3, <2>4
<1>3. N \in T
  <2> HIDE DEF T
  <2>1. \A m \in 0..N : m \in T BY <1>1, <1>2, Stepwise
  <2> QED BY <2>1
<1> QED BY <1>3 DEF Rounds

\* The rounds, one by one.
LEMMA RoundsDo ==
  ASSUME NEW N \in Nat, NEW F, NEW s, NEW f, f = CHOOSE g : Rounds(g, N, F, s)
  PROVE  f[0] = s /\ \A k \in 0..(N - 1) : f[k + 1] = F[f[k]]
<1>1. Rounds(f, N, F, s) BY RoundsExist
<1>2. 0 \in 0..N /\ \A k \in 0..(N - 1) : k + 1 \in 0..N /\ k + 1 # 0 /\ (k + 1) - 1 = k
  OBVIOUS
<1>3. \A k \in 0..N : f[k] = IF k = 0 THEN s ELSE F[f[k - 1]]
  BY <1>1 DEF Rounds
<1> QED BY <1>2, <1>3
=============================================================================
