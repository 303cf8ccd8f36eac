------------------------------- MODULE Induction -------------------------------
(***************************************************************************)
(* Facts about numbers, recursive functions and sequences for the proofs   *)
(* about traversals.  The provers cannot instantiate an induction theorem  *)
(* that takes a predicate, so induction is stated here of a set, from the  *)
(* library's theorem that a set of well-founded elements has a least one.  *)
(***************************************************************************)
EXTENDS Integers, SequencesExt, SequenceTheorems, WellFoundedInduction, TLAPS

(* A set of natural numbers has a least element. *)
LEMMA Least ==
    ASSUME NEW T, T \subseteq Nat, T # {}
    PROVE  \E x \in T : \A y \in T : x <= y
<1> DEFINE R == {ss \in Nat \X Nat : ss[1] < ss[2]}
<1>1. IsWellFoundedOn(R, Nat)
  BY NatLessThanWellFounded DEF OpToRel
<1> HIDE DEF R
<1>2. PICK x \in T : \A y \in T : ~(<<y, x>> \in R)
  BY <1>1, WFMin
<1>3. ASSUME NEW y \in T PROVE x <= y
  <2>1. x \in Nat /\ y \in Nat /\ ~(<<y, x>> \in R)
    BY <1>2
  <2>2. QED
    BY <2>1 DEF R
<1>4. QED
  BY <1>2, <1>3

(* Induction up to a bound. *)
LEMMA UpTo ==
    ASSUME NEW N \in Nat, NEW S, 0 \in S, \A n \in 1 .. N : n - 1 \in S => n \in S
    PROVE  \A n \in 0 .. N : n \in S
<1> DEFINE T == (0 .. N) \ S
<1> SUFFICES ASSUME T # {} PROVE FALSE
  OBVIOUS
<1>1. T \subseteq Nat
  OBVIOUS
<1> HIDE DEF T
<1>2. PICK x \in T : \A y \in T : x <= y
  BY <1>1, Least
<1> USE DEF T
<1>3. x \in 1 .. N /\ x - 1 \in 0 .. N /\ ~(x <= x - 1)
  OBVIOUS
<1>4. x - 1 \in S
  BY <1>2, <1>3
<1>5. QED
  BY <1>2, <1>3, <1>4

(* A recursion over 0 .. N with values in A: the step of each number, and the
   functions that start with a and take these steps. *)
Steps(N, A) == [1 .. N -> [A -> A]]
Runs(N, A, a, g) == {f \in [0 .. N -> A] : f[0] = a /\ \A n \in 1 .. N : f[n] = g[n][f[n - 1]]}

(* There is one. *)
LEMMA Recursion ==
    ASSUME NEW N \in Nat, NEW A, NEW a \in A, NEW g \in Steps(N, A)
    PROVE  \E f : f \in Runs(N, A, a, g)
<1> DEFINE S == {m \in 0 .. N : \E f : f \in Runs(m, A, a, g)}
<1>1. 0 \in S
  <2>1. [n \in 0 .. 0 |-> a] \in Runs(0, A, a, g)
    BY DEF Runs
  <2>2. QED
    BY <2>1
<1>2. ASSUME NEW m \in 1 .. N, m - 1 \in S PROVE m \in S
  <2>1. PICK f : f \in Runs(m - 1, A, a, g)
    BY <1>2
  <2>2. /\ f \in [0 .. m - 1 -> A] /\ f[0] = a
        /\ \A n \in 1 .. m - 1 : f[n] = g[n][f[n - 1]]
    BY <2>1 DEF Runs
  <2> DEFINE h == [n \in 0 .. m |-> IF n = m THEN g[m][f[m - 1]] ELSE f[n]]
  <2>3. f[m - 1] \in A /\ g[m] \in [A -> A] /\ g[m][f[m - 1]] \in A
    BY <2>2 DEF Steps
  <2>4. h \in [0 .. m -> A]
    BY <2>2, <2>3
  <2>5. h[0] = a /\ h[m] = g[m][h[m - 1]]
    BY <2>2
  <2>6. ASSUME NEW n \in 1 .. m - 1 PROVE h[n] = g[n][h[n - 1]]
    BY <2>2
  <2> HIDE DEF h
  <2>7. \A n \in 1 .. m : h[n] = g[n][h[n - 1]]
    BY <2>5, <2>6
  <2>8. h \in Runs(m, A, a, g)
    BY <2>4, <2>5, <2>7 DEF Runs
  <2>9. QED
    BY <2>8
<1>3. \A m \in 1 .. N : m - 1 \in S => m \in S
  BY <1>2
<1> HIDE DEF S
<1>4. \A m \in 0 .. N : m \in S
  BY <1>1, <1>3, UpTo
<1>5. N \in S
  BY <1>4
<1>6. QED
  BY <1>5 DEF S

(* What its equations say of its values. *)
LEMMA RunFacts ==
    ASSUME NEW N \in Nat, NEW A, NEW a, NEW g, NEW f \in Runs(N, A, a, g)
    PROVE  /\ f = [n \in 0 .. N |-> f[n]] /\ f[0] = a
           /\ \A n \in 0 .. N : f[n] \in A
           /\ \A n \in 1 .. N : f[n - 1] \in A /\ f[n] = g[n][f[n - 1]]
BY DEF Runs

-----------------------------------------------------------------------------
(* Recursion over the elements of a sequence: from a, each element takes the step
   that st has for it. *)
StepsOf(S, A) == [S -> [A -> A]]
Traversals(A, a, st, s) ==
    {f \in [0 .. Len(s) -> A] : f[0] = a /\ \A n \in 1 .. Len(s) : f[n] = st[s[n]][f[n - 1]]}
IsTraversal(A, a, st, s, v) == \E f \in Traversals(A, a, st, s) : v = f[Len(s)]

LEMMA TraversalExists ==
    ASSUME NEW S, NEW s \in Seq(S), NEW A, NEW a \in A, NEW st \in StepsOf(S, A)
    PROVE  \E f : f \in Traversals(A, a, st, s)
<1> DEFINE N == Len(s)
           g == [n \in 1 .. N |-> st[s[n]]]
<1>1. N \in Nat /\ g \in Steps(N, A)
  BY DEF Steps, StepsOf
<1>2. PICK f : f \in Runs(N, A, a, g)
  <2> HIDE DEF N, g
  <2>1. QED
    BY <1>1, Recursion
<1>3. f \in [0 .. N -> A] /\ f[0] = a /\ \A n \in 1 .. N : f[n] = st[s[n]][f[n - 1]]
  BY <1>2 DEF Runs
<1>4. QED
  BY <1>3 DEF Traversals

(* A function that satisfies its equations is one. *)
LEMMA TraversalIs ==
    ASSUME NEW S, NEW s \in Seq(S), NEW A, NEW a \in A, NEW st \in StepsOf(S, A),
           NEW f, f = [n \in 0 .. Len(s) |-> f[n]], f[0] = a,
           \A n \in 1 .. Len(s) : f[n - 1] \in A => f[n] = st[s[n]][f[n - 1]]
    PROVE  f \in Traversals(A, a, st, s)
<1> DEFINE N == Len(s)
           T == {n \in 0 .. N : f[n] \in A}
<1>1. N \in Nat /\ 0 \in T
  OBVIOUS
<1>2. ASSUME NEW n \in 1 .. N, n - 1 \in T PROVE n \in T
  <2>1. s[n] \in S /\ f[n - 1] \in A /\ f[n] = st[s[n]][f[n - 1]]
    BY <1>2
  <2>2. st[s[n]] \in [A -> A]
    BY <2>1 DEF StepsOf
  <2>3. QED
    BY <2>1, <2>2
<1> HIDE DEF T
<1>3. \A n \in 0 .. N : n \in T
  BY <1>1, <1>2, UpTo
<1>4. \A n \in 0 .. N : f[n] \in A
  BY <1>3 DEF T
<1> HIDE DEF N
<1>5. f \in [0 .. N -> A]
  BY <1>4 DEF N
<1>6. \A n \in 1 .. N : n - 1 \in 0 .. N
  BY <1>1
<1>7. \A n \in 1 .. N : f[n] = st[s[n]][f[n - 1]]
  BY <1>4, <1>6 DEF N
<1>8. QED
  BY <1>5, <1>7 DEF Traversals, N

LEMMA TraversalOfEmpty ==
    ASSUME NEW A, NEW a, NEW st, NEW v, IsTraversal(A, a, st, <<>>, v)
    PROVE  v = a
BY DEF IsTraversal, Traversals

(* One element more takes one step more. *)
LEMMA TraversalOfAppend ==
    ASSUME NEW S, NEW s \in Seq(S), NEW e \in S, NEW A, NEW a, NEW st,
           NEW v, IsTraversal(A, a, st, s, v),
           NEW w, IsTraversal(A, a, st, Append(s, e), w)
    PROVE  v \in A /\ w = st[e][v]
<1> DEFINE N == Len(s)
           u == Append(s, e)
<1>1. /\ N \in Nat /\ Len(u) = N + 1 /\ u[N + 1] = e
      /\ \A n \in 1 .. N : u[n] = s[n]
  OBVIOUS
<1>2. PICK f : /\ f \in [0 .. N -> A] /\ f[0] = a
               /\ \A n \in 1 .. N : f[n] = st[s[n]][f[n - 1]]
               /\ v = f[N]
  BY DEF IsTraversal, Traversals
<1>3. PICK h : /\ h[0] = a
               /\ \A n \in 1 .. Len(u) : h[n] = st[u[n]][h[n - 1]]
               /\ w = h[Len(u)]
  BY DEF IsTraversal, Traversals
<1> DEFINE T == {n \in 0 .. N : h[n] = f[n]}
<1> HIDE DEF N, u
<1>4. 0 \in T
  BY <1>1, <1>2, <1>3
<1>5. ASSUME NEW n \in 1 .. N, n - 1 \in T PROVE n \in T
  <2>1. n \in 1 .. Len(u) /\ u[n] = s[n] /\ h[n - 1] = f[n - 1]
    BY <1>1, <1>5
  <2>2. h[n] = f[n]
    BY <1>2, <1>3, <2>1
  <2>3. QED
    BY <2>2
<1> HIDE DEF T
<1>6. \A n \in 0 .. N : n \in T
  BY <1>1, <1>4, <1>5, UpTo
<1>7. h[N] = f[N]
  BY <1>1, <1>6 DEF T
<1>8. h[N + 1] = st[u[N + 1]][h[N + 1 - 1]] /\ N + 1 - 1 = N
  BY <1>1, <1>3
<1>9. QED
  BY <1>1, <1>2, <1>3, <1>7, <1>8

(* Induction on sequences, from the front. *)
LEMMA SequenceInduction ==
    ASSUME NEW S, NEW T, <<>> \in T, \A s \in Seq(S), e \in S : s \in T => Append(s, e) \in T
    PROVE  \A s \in Seq(S) : s \in T
<1> SUFFICES ASSUME NEW s \in Seq(S) PROVE s \in T
  OBVIOUS
<1> DEFINE N == Len(s)
           M == {n \in 0 .. N : SubSeq(s, 1, n) \in T}
<1>1. N \in Nat
  OBVIOUS
<1>2. SubSeq(s, 1, 0) = <<>>
  OBVIOUS
<1>3. ASSUME NEW n \in 1 .. N, n - 1 \in M PROVE n \in M
  <2>1. SubSeq(s, 1, n - 1) \in Seq(S) /\ SubSeq(s, 1, n - 1) \in T /\ s[n] \in S
    BY <1>3
  <2>2. SubSeq(s, 1, n) = Append(SubSeq(s, 1, n - 1), s[n])
    OBVIOUS
  <2>3. SubSeq(s, 1, n) \in T
    BY <2>1, <2>2
  <2>4. QED
    BY <2>3
<1>4. 0 \in M
  <2>1. \A x : x = <<>> => x \in T
    OBVIOUS
  <2>2. SubSeq(s, 1, 0) \in T
    BY <1>2, <2>1
  <2>3. 0 \in 0 .. N
    BY <1>1
  <2>4. QED
    BY <2>2, <2>3
<1> HIDE DEF M, N
<1>5. \A n \in 0 .. N : n \in M
  BY <1>1, <1>3, <1>4, UpTo
<1>6. SubSeq(s, 1, N) \in T
  BY <1>1, <1>5 DEF M
<1>7. QED
  BY <1>6, SubSeqFull DEF N

-----------------------------------------------------------------------------
(* Removing an element of a sequence: the elements before it stay, those after it
   move up. *)
LEMMA RemovedAt ==
    ASSUME NEW S, NEW s \in Seq(S), NEW n \in 1 .. Len(s)
    PROVE  /\ RemoveAt(s, n) \in Seq(S) /\ Len(RemoveAt(s, n)) = Len(s) - 1
           /\ \A i \in 1 .. Len(s) - 1 : RemoveAt(s, n)[i] = IF i < n THEN s[i] ELSE s[i + 1]
<1> DEFINE a == SubSeq(s, 1, n - 1)
           b == SubSeq(s, n + 1, Len(s))
<1>1. /\ a \in Seq(S) /\ Len(a) = n - 1
      /\ \A i \in 1 .. Len(a) : a[i] = s[i]
  OBVIOUS
<1>2. /\ b \in Seq(S) /\ Len(b) = Len(s) - n
      /\ \A i \in 1 .. Len(b) : b[i] = s[n + i]
  OBVIOUS
<1>3. RemoveAt(s, n) = a \o b
  BY DEF RemoveAt
<1> HIDE DEF a, b
<1>4. /\ a \o b \in Seq(S) /\ Len(a \o b) = Len(s) - 1
      /\ \A i \in 1 .. Len(a \o b) : (a \o b)[i] = IF i < n THEN a[i] ELSE b[i - (n - 1)]
  BY <1>1, <1>2, ConcatProperties
<1>5. ASSUME NEW i \in 1 .. Len(s) - 1
      PROVE  (a \o b)[i] = IF i < n THEN s[i] ELSE s[i + 1]
  <2>1. CASE i < n
    BY <1>1, <1>4, <2>1
  <2>2. CASE ~(i < n)
    <3>1. i - (n - 1) \in 1 .. Len(b) /\ n + (i - (n - 1)) = i + 1
      BY <1>2, <1>4, <2>2
    <3>2. b[i - (n - 1)] = s[i + 1]
      BY <1>2, <3>1
    <3>3. QED
      BY <1>4, <2>2, <3>2
  <2>3. QED
    BY <2>1, <2>2
<1>6. QED
  BY <1>3, <1>4, <1>5

(* The same of a sequence t that is s without its n-th element. *)
Closed(S, t, s, n) ==
    /\ t \in Seq(S) /\ Len(t) = Len(s) - 1
    /\ \A i \in 1 .. Len(s) - 1 : t[i] = IF i < n THEN s[i] ELSE s[i + 1]

LEMMA RemovedIs ==
    ASSUME NEW S, NEW s \in Seq(S), NEW n \in 1 .. Len(s), NEW t, t = RemoveAt(s, n)
    PROVE  Closed(S, t, s, n)
BY RemovedAt DEF Closed

(* The first occurrence of an element is removed, where there is one. *)
LEMMA RemovedFirst ==
    ASSUME NEW S, NEW s \in Seq(S), NEW e
    PROVE  \/ (\A i \in 1 .. Len(s) : s[i] # e) /\ RemoveFirst(s, e) = s
           \/ \E n \in 1 .. Len(s) : s[n] = e /\ RemoveFirst(s, e) = RemoveAt(s, n)
<1> DEFINE T == {i \in 1 .. Len(s) : s[i] = e}
<1>1. CASE T = {}
  BY <1>1 DEF RemoveFirst
<1>2. CASE T # {}
  <2>1. RemoveFirst(s, e) = RemoveAt(s, Min(T))
    BY <1>2 DEF RemoveFirst, SelectInSeq
  <2>2. T \subseteq Nat
    OBVIOUS
  <2> HIDE DEF T
  <2>3. Min(T) \in T
    BY <1>2, <2>2, Least DEF Min
  <2>4. QED
    BY <2>1, <2>3 DEF T
<1>3. QED
  BY <1>1, <1>2

(* A suffix, by its elements. *)
LEMMA SuffixByElements ==
    ASSUME NEW S, NEW s \in Seq(S), NEW t \in Seq(S)
    PROVE  IsSuffix(s, t) <=>
             /\ Len(s) <= Len(t)
             /\ \A i \in 1 .. Len(s) : s[i] = t[Len(t) - Len(s) + i]
<1> DEFINE u == Reverse(s)
           v == Reverse(t)
<1>1. /\ u \in Seq(S) /\ Len(u) = Len(s) /\ \A i \in 1 .. Len(s) : u[i] = s[Len(s) - i + 1]
      /\ v \in Seq(S) /\ Len(v) = Len(t) /\ \A i \in 1 .. Len(t) : v[i] = t[Len(t) - i + 1]
  BY DEF Reverse
<1>2. IsSuffix(s, t) <=> Len(u) <= Len(v) /\ SubSeq(u, 1, Len(u)) = SubSeq(v, 1, Len(u))
  BY DEF IsSuffix, IsPrefix
<1> HIDE DEF u, v
<1>3. Len(u) <= Len(v) =>
        (SubSeq(u, 1, Len(u)) = SubSeq(v, 1, Len(u)) <=> \A i \in 1 .. Len(u) : u[i] = v[i])
  BY <1>1
<1>4. ASSUME Len(s) <= Len(t), \A i \in 1 .. Len(s) : u[i] = v[i], NEW i \in 1 .. Len(s)
      PROVE  s[i] = t[Len(t) - Len(s) + i]
  <2>1. /\ Len(s) - i + 1 \in 1 .. Len(s) /\ Len(s) - i + 1 \in 1 .. Len(t)
        /\ Len(s) - (Len(s) - i + 1) + 1 = i
        /\ Len(t) - (Len(s) - i + 1) + 1 = Len(t) - Len(s) + i
    BY <1>4
  <2>2. u[Len(s) - i + 1] = s[i] /\ v[Len(s) - i + 1] = t[Len(t) - Len(s) + i]
    BY <1>1, <2>1
  <2>3. QED
    BY <1>4, <2>1, <2>2
<1>5. ASSUME Len(s) <= Len(t), \A i \in 1 .. Len(s) : s[i] = t[Len(t) - Len(s) + i],
             NEW i \in 1 .. Len(s)
      PROVE  u[i] = v[i]
  <2>1. Len(s) - i + 1 \in 1 .. Len(s) /\ Len(t) - Len(s) + (Len(s) - i + 1) = Len(t) - i + 1
    BY <1>5
  <2>2. u[i] = s[Len(s) - i + 1] /\ v[i] = t[Len(t) - i + 1]
    BY <1>1, <1>5
  <2>3. s[Len(s) - i + 1] = t[Len(t) - Len(s) + (Len(s) - i + 1)]
    BY <1>5, <2>1
  <2>4. QED
    BY <2>1, <2>2, <2>3
<1>6. QED
  BY <1>1, <1>2, <1>3, <1>4, <1>5

(* An element appended to the second of two sequences is appended to both. *)
LEMMA ConcatOfAppend ==
    ASSUME NEW S, NEW s \in Seq(S), NEW t \in Seq(S), NEW e \in S
    PROVE  s \o Append(t, e) = Append(s \o t, e)
<1>1. Append(t, e) = t \o <<e>> /\ <<e>> \in Seq(S) /\ s \o t \in Seq(S)
  BY AppendIsConcat
<1>2. Append(s \o t, e) = (s \o t) \o <<e>>
  BY <1>1, AppendIsConcat
<1>3. QED
  BY <1>1, <1>2, ConcatAssociative
==============================================================================
