---------------------------- MODULE DataTheorems ----------------------------
(***************************************************************************)
(* What the proofs need of the data that the models are built from: stacks *)
(* that are sequences with the innermost element last, sequences without   *)
(* one of their entries, the total of a sequence of numbers (module Sums), *)
(* and sets of numbers with their least and largest elements and ranks.    *)
(***************************************************************************)
EXTENDS Sums, SequencesExt, FiniteSetsExt, SequenceTheorems, FiniteSetTheorems,
        WellFoundedInduction, TLAPS

-----------------------------------------------------------------------------
LEMMA FrontOfStack ==
  ASSUME NEW S, NEW s \in Seq(S), s # <<>>
  PROVE  /\ Front(s) \in Seq(S)
         /\ Len(Front(s)) = Len(s) - 1
         /\ \A d \in 1 .. Len(s) - 1 : Front(s)[d] = s[d]
  <1>0. Len(s) \in Nat /\ Len(s) >= 1
    OBVIOUS
  <1>1. \A d \in 1 .. Len(s) - 1 : s[d] \in S
    OBVIOUS
  <1> DEFINE n == Len(s) - 1
  <1>2. n \in Nat /\ 1 \in Int /\ n - 1 + 1 = n
    BY <1>0
  <1>3. /\ SubSeq(s, 1, n) \in Seq(S)
        /\ Len(SubSeq(s, 1, n)) = IF 1 <= n THEN n - 1 + 1 ELSE 0
        /\ \A d \in 1 .. n - 1 + 1 : SubSeq(s, 1, n)[d] = s[1 + d - 1]
    BY <1>1, <1>2, SubSeqProperties
  <1>4. Len(SubSeq(s, 1, n)) = n
    BY <1>2, <1>3
  <1>5. \A d \in 1 .. n : SubSeq(s, 1, n)[d] = s[d]
    BY <1>2, <1>3
  <1> QED BY <1>3, <1>4, <1>5 DEF Front

\* What is left of a stack when all but its first k elements are dropped.
LEMMA ShorterStack ==
  ASSUME NEW S, NEW s \in Seq(S), NEW k \in 0 .. Len(s)
  PROVE  /\ SubSeq(s, 1, k) \in Seq(S)
         /\ Len(SubSeq(s, 1, k)) = k
         /\ \A d \in 1 .. k : SubSeq(s, 1, k)[d] = s[d]
  <1>1. \A d \in 1 .. Len(s) : s[d] \in S
    OBVIOUS
  <1>2. k \in Nat /\ 1 \in Int /\ k \in Int /\ k - 1 + 1 = k /\ \A d \in 1 .. k : d \in 1 .. Len(s)
    OBVIOUS
  <1>3. \A d \in 1 .. k : s[d] \in S
    BY <1>1, <1>2
  <1>4. /\ SubSeq(s, 1, k) \in Seq(S)
        /\ Len(SubSeq(s, 1, k)) = IF 1 <= k THEN k - 1 + 1 ELSE 0
        /\ \A d \in 1 .. k - 1 + 1 : SubSeq(s, 1, k)[d] = s[1 + d - 1]
    BY <1>2, <1>3, SubSeqProperties
  <1>5. Len(SubSeq(s, 1, k)) = k
    BY <1>2, <1>4
  <1>6. \A d \in 1 .. k : SubSeq(s, 1, k)[d] = s[d]
    BY <1>2, <1>4
  <1> QED BY <1>4, <1>5, <1>6

\* A stack is what it is without its top, and the top; another top replaces it.
LEMMA StackIsFrontAndTop ==
  ASSUME NEW S, NEW s \in Seq(S), s # <<>>
  PROVE  s = Append(Front(s), s[Len(s)])
  <1>1. /\ Front(s) \in Seq(S)
        /\ Len(Front(s)) = Len(s) - 1
        /\ \A d \in 1 .. Len(s) - 1 : Front(s)[d] = s[d]
    BY FrontOfStack
  <1> DEFINE t == Append(Front(s), s[Len(s)])
  <1>2. s[Len(s)] \in S /\ Len(s) \in Nat \ {0}
    OBVIOUS
  <1>3. /\ t \in Seq(S) /\ Len(t) = Len(s)
        /\ \A d \in 1 .. Len(s) : t[d] = s[d]
    BY <1>1, <1>2
  <1> HIDE DEF t
  <1>4. s = t
    BY <1>3, SeqEqual
  <1> QED BY <1>4 DEF t

LEMMA ReplacedTop ==
  ASSUME NEW S, NEW s \in Seq(S), s # <<>>, NEW e \in S
  PROVE  [s EXCEPT ![Len(s)] = e] = Append(Front(s), e)
  <1>1. /\ Front(s) \in Seq(S)
        /\ Len(Front(s)) = Len(s) - 1
        /\ \A d \in 1 .. Len(s) - 1 : Front(s)[d] = s[d]
    BY FrontOfStack
  <1> DEFINE t == Append(Front(s), e)
             u == [s EXCEPT ![Len(s)] = e]
  <1>2. Len(s) \in Nat \ {0}
    OBVIOUS
  <1>3. /\ t \in Seq(S) /\ Len(t) = Len(s)
        /\ \A d \in 1 .. Len(s) : t[d] = IF d = Len(s) THEN e ELSE s[d]
    BY <1>1, <1>2
  <1>4. /\ u \in Seq(S) /\ Len(u) = Len(s)
        /\ \A d \in 1 .. Len(s) : u[d] = IF d = Len(s) THEN e ELSE s[d]
    BY <1>2
  <1> HIDE DEF t, u
  <1>5. u = t
    BY <1>3, <1>4, SeqEqual
  <1> QED BY <1>5 DEF t, u

LEMMA SmallerOf == \A a, b \in Int : Min({a, b}) = IF a <= b THEN a ELSE b
  BY DEF Min

LEMMA LargerOf == \A a, b \in Int : Max({a, b}) = IF a >= b THEN a ELSE b
  BY DEF Max

-----------------------------------------------------------------------------
\* A sequence without its i-th entry.
LEMMA RemovedAt ==
  ASSUME NEW S, NEW s \in Seq(S), NEW i \in 1 .. Len(s)
  PROVE  /\ RemoveAt(s, i) \in Seq(S) /\ Len(RemoveAt(s, i)) = Len(s) - 1
         /\ \A k \in 1 .. Len(s) - 1 : RemoveAt(s, i)[k] = IF k < i THEN s[k] ELSE s[k + 1]
  <1> DEFINE n == Len(s)
             a == SubSeq(s, 1, i - 1)
             b == SubSeq(s, i + 1, n)
  <1>1. n \in Nat /\ i \in 1 .. n /\ \A k \in 1 .. n : s[k] \in S
    OBVIOUS
  <1>2. a \in Seq(S) /\ Len(a) = i - 1 /\ \A k \in 1 .. i - 1 : a[k] = s[k]
    <2>1. i - 1 \in Nat /\ 1 \in Int /\ (i - 1) - 1 + 1 = i - 1
      BY <1>1
    <2>2. \A k \in 1 .. i - 1 : s[k] \in S
      BY <1>1
    <2>3. /\ a \in Seq(S)
          /\ Len(a) = IF 1 <= i - 1 THEN (i - 1) - 1 + 1 ELSE 0
          /\ \A k \in 1 .. (i - 1) - 1 + 1 : a[k] = s[1 + k - 1]
      BY <2>1, <2>2, SubSeqProperties
    <2> HIDE DEF a
    <2> QED BY <2>1, <2>3
  <1>3. b \in Seq(S) /\ Len(b) = n - i /\ \A k \in 1 .. n - i : b[k] = s[k + i]
    <2>1. n \in Int /\ i + 1 \in Int /\ n - (i + 1) + 1 = n - i /\ i \in Int
      BY <1>1
    <2>2. \A k \in i + 1 .. n : s[k] \in S
      BY <1>1
    <2>3. /\ b \in Seq(S)
          /\ Len(b) = IF i + 1 <= n THEN n - (i + 1) + 1 ELSE 0
          /\ \A k \in 1 .. n - (i + 1) + 1 : b[k] = s[(i + 1) + k - 1]
      BY <2>1, <2>2, SubSeqProperties
    <2> HIDE DEF b
    <2>4. \A k \in 1 .. n - i : (i + 1) + k - 1 = k + i
      BY <2>1
    <2>5. Len(b) = n - i
      <3>1. CASE i + 1 <= n
        BY <2>1, <2>3, <3>1
      <3>2. CASE ~(i + 1 <= n)
        <4>1. n - i = 0
          BY <1>1, <3>2
        <4> QED BY <2>3, <3>2, <4>1
      <3> QED BY <3>1, <3>2
    <2>6. \A k \in 1 .. n - i : b[k] = s[k + i]
      BY <2>1, <2>3, <2>4
    <2> QED BY <2>3, <2>5, <2>6
  <1> HIDE DEF a, b
  <1>4. /\ a \o b \in Seq(S) /\ Len(a \o b) = Len(a) + Len(b)
        /\ \A k \in 1 .. Len(a) + Len(b) : (a \o b)[k] = IF k <= Len(a) THEN a[k] ELSE b[k - Len(a)]
    BY <1>2, <1>3, ConcatProperties
  <1>5. RemoveAt(s, i) = a \o b
    BY DEF RemoveAt, a, b
  <1>6. ASSUME NEW k \in 1 .. n - 1
        PROVE  (a \o b)[k] = IF k < i THEN s[k] ELSE s[k + 1]
    <2>1. (a \o b)[k] = IF k <= i - 1 THEN a[k] ELSE b[k - (i - 1)]
      BY <1>1, <1>2, <1>3, <1>4, <1>6
    <2>2. CASE k < i
      BY <1>1, <1>2, <2>1, <2>2
    <2>3. CASE ~(k < i)
      <3>1. k - (i - 1) \in 1 .. n - i /\ (k - (i - 1)) + i = k + 1
        BY <1>1, <1>6, <2>3
      <3> QED BY <1>1, <1>3, <2>1, <2>3, <3>1
    <2> QED BY <2>2, <2>3
  <1>7. Len(a \o b) = n - 1
    BY <1>1, <1>2, <1>3, <1>4
  <1> QED BY <1>4, <1>5, <1>6, <1>7

-----------------------------------------------------------------------------
\* Induction over the natural numbers, for a set of them.
LEMMA SetInduction ==
  ASSUME NEW S, 0 \in S, \A n \in Nat : n \in S => n + 1 \in S
  PROVE  Nat \subseteq S
  <1> SUFFICES ASSUME Nat \ S # {} PROVE FALSE
    OBVIOUS
  <1>1. PICK n \in Nat \ S : \A m \in Nat \ S : ~(<<m, n>> \in OpToRel(<, Nat))
    BY WFMin, NatLessThanWellFounded
  <1>2. n # 0 /\ n - 1 \in Nat
    OBVIOUS
  <1>3. n - 1 \in S
    <2>1. <<n - 1, n>> \in OpToRel(<, Nat)
      BY <1>2 DEF OpToRel
    <2> QED BY <1>1, <1>2, <2>1
  <1>4. n - 1 + 1 = n
    OBVIOUS
  <1> QED BY <1>2, <1>3, <1>4

\* A function that is defined by recursion over the numbers up to N exists.
AreSteps(F, N, S) == F \in [1 .. N -> [S -> S]]
Iterates(f, F, N, S, start) ==
    /\ f \in [0 .. N -> S]
    /\ \A n \in 0 .. N : f[n] = IF n = 0 THEN start ELSE F[n][f[n - 1]]

LEMMA IteratedFunction ==
  ASSUME NEW S, NEW start \in S, NEW N \in Nat, NEW F, AreSteps(F, N, S)
  PROVE  \E f : Iterates(f, F, N, S, start)
  <1> DEFINE Until(k, f) == \A n \in 0 .. k : f[n] = IF n = 0 THEN start ELSE F[n][f[n - 1]]
             G == {k \in Nat : k <= N => \E f \in [0 .. k -> S] : Until(k, f)}
  <1>0. F \in [1 .. N -> [S -> S]]
    BY DEF AreSteps
  <1>1. 0 \in G
    <2>1. [n \in 0 .. 0 |-> start] \in [0 .. 0 -> S] /\ Until(0, [n \in 0 .. 0 |-> start])
      OBVIOUS
    <2> QED BY <2>1
  <1>2. ASSUME NEW k \in Nat, k \in G PROVE k + 1 \in G
    <2> SUFFICES ASSUME k + 1 <= N PROVE \E f \in [0 .. k + 1 -> S] : Until(k + 1, f)
      OBVIOUS
    <2>1. PICK f \in [0 .. k -> S] : Until(k, f)
      BY <1>2
    <2> DEFINE g == [n \in 0 .. k + 1 |-> IF n = k + 1 THEN F[k + 1][f[k]] ELSE f[n]]
    <2>2. \A n \in 0 .. k : g[n] = f[n] /\ f[n] \in S
      OBVIOUS
    <2>3. g[k + 1] = F[k + 1][f[k]] /\ k + 1 - 1 = k /\ F[k + 1][f[k]] \in S
      <3>1. k + 1 \in 1 .. N /\ f[k] \in S
        OBVIOUS
      <3> QED BY <1>0, <3>1
    <2>4. \A n \in 0 .. k + 1 : n = k + 1 \/ n \in 0 .. k
      OBVIOUS
    <2>5. g \in [0 .. k + 1 -> S]
      BY <2>3, <2>4
    <2> HIDE DEF g
    <2>6. Until(k + 1, g)
      <3> SUFFICES ASSUME NEW n \in 0 .. k + 1
                   PROVE  g[n] = IF n = 0 THEN start ELSE F[n][g[n - 1]]
        OBVIOUS
      <3>1. CASE n = k + 1
        BY <2>2, <2>3, <3>1
      <3>2. CASE n \in 0 .. k
        <4>1. g[n] = f[n] /\ (n # 0 => g[n - 1] = f[n - 1])
          BY <2>2, <3>2
        <4> QED BY <2>1, <3>2, <4>1
      <3> QED BY <2>4, <3>1, <3>2
    <2> QED BY <2>5, <2>6
  <1>3. Nat \subseteq G
    <2> HIDE DEF G
    <2> QED BY <1>1, <1>2, SetInduction
  <1> QED BY <1>3 DEF Iterates

-----------------------------------------------------------------------------
\* f[d] is the sum of the first d numbers, for d up to n.
Adds(counts, n, f) ==
    \A d \in 0 .. n : f[d] = IF d = 0 THEN 0 ELSE f[d - 1] + counts[d]
Sums(counts, n, f) == Adds(counts, n, f) /\ \A d \in 0 .. n : f[d] \in Int

LEMMA SumsExist ==
  ASSUME NEW counts \in Seq(Int)
  PROVE  \E f : Sums(counts, Len(counts), f)
  <1> DEFINE G == {n \in Nat : n <= Len(counts) => \E f : Sums(counts, n, f)}
  <1>1. 0 \in G
    <2>1. Sums(counts, 0, [d \in 0 .. 0 |-> 0])
      BY DEF Sums, Adds
    <2> QED BY <2>1
  <1>2. ASSUME NEW n \in Nat, n \in G
        PROVE  n + 1 \in G
    <2> SUFFICES ASSUME n + 1 <= Len(counts)
                 PROVE  \E f : Sums(counts, n + 1, f)
      OBVIOUS
    <2>1. PICK f : Sums(counts, n, f)
      BY <1>2
    <2>2. counts[n + 1] \in Int /\ f[n] \in Int
      BY <2>1 DEF Sums, Adds
    <2> DEFINE g == [d \in 0 .. n + 1 |-> IF d = n + 1 THEN f[n] + counts[n + 1] ELSE f[d]]
    <2>3. \A d \in 0 .. n + 1 : g[d] \in Int /\ g[d] = IF d = 0 THEN 0 ELSE g[d - 1] + counts[d]
      <3>1. \A d \in 0 .. n : g[d] = f[d]
        OBVIOUS
      <3>2. g[n + 1] = f[n] + counts[n + 1] /\ n + 1 - 1 = n
        OBVIOUS
      <3>3. \A d \in 0 .. n : f[d] \in Int /\ f[d] = IF d = 0 THEN 0 ELSE f[d - 1] + counts[d]
        BY <2>1 DEF Sums, Adds
      <3> HIDE DEF g
      <3> TAKE d \in 0 .. n + 1
      <3>4. CASE d = n + 1
        BY <2>2, <3>1, <3>2, <3>4
      <3>5. CASE d \in 0 .. n
        <4>1. g[d] = f[d] /\ (d # 0 => d - 1 \in 0 .. n /\ g[d - 1] = f[d - 1])
          BY <3>1, <3>5
        <4> QED BY <3>3, <3>5, <4>1
      <3> QED BY <3>4, <3>5
    <2> HIDE DEF g
    <2> QED BY <2>3 DEF Sums, Adds
  <1>3. Nat \subseteq G
    <2> HIDE DEF G
    <2> QED BY <1>1, <1>2, SetInduction
  <1> QED BY <1>3

\* There is only one such sum.
LEMMA SameSums ==
  ASSUME NEW N \in Nat, NEW counts, NEW f, NEW g,
         Adds(counts, N, f), Adds(counts, N, g)
  PROVE  \A d \in 0 .. N : f[d] = g[d]
  <1> DEFINE G == {n \in Nat : n <= N => f[n] = g[n]}
  <1>1. 0 \in G
    BY DEF Adds
  <1>2. ASSUME NEW n \in Nat, n \in G
        PROVE  n + 1 \in G
    <2> SUFFICES ASSUME n + 1 <= N PROVE f[n + 1] = g[n + 1]
      OBVIOUS
    <2>1. n + 1 \in 0 .. N /\ n + 1 \in 1 .. N /\ n + 1 # 0 /\ n + 1 - 1 = n /\ f[n] = g[n]
      BY <1>2
    <2>2. f[n + 1] = f[n] + counts[n + 1]
      BY <2>1 DEF Adds
    <2>3. g[n + 1] = g[n] + counts[n + 1]
      BY <2>1 DEF Adds
    <2> QED BY <2>1, <2>2, <2>3
  <1>3. Nat \subseteq G
    <2> HIDE DEF G
    <2> QED BY <1>1, <1>2, SetInduction
  <1> QED BY <1>3

LEMMA TotalIs ==
  ASSUME NEW counts \in Seq(Int), NEW f, Sums(counts, Len(counts), f)
  PROVE  Total(counts) = f[Len(counts)] /\ Total(counts) \in Int
  <1> DEFINE N == Len(counts)
             h == CHOOSE g : g = [d \in 0 .. N |-> IF d = 0 THEN 0 ELSE g[d - 1] + counts[d]]
  <1>1. N \in Nat
    OBVIOUS
  <1>2. \E g : g = [d \in 0 .. N |-> IF d = 0 THEN 0 ELSE g[d - 1] + counts[d]]
    <2> DEFINE g == [d \in 0 .. N |-> f[d]]
    <2>1. \A d \in 0 .. N : g[d] = IF d = 0 THEN 0 ELSE g[d - 1] + counts[d]
      BY <1>1 DEF Sums, Adds
    <2>2. g = [d \in 0 .. N |-> IF d = 0 THEN 0 ELSE g[d - 1] + counts[d]]
      BY <2>1
    <2> QED BY <2>2
  <1>3. h = [d \in 0 .. N |-> IF d = 0 THEN 0 ELSE h[d - 1] + counts[d]]
    BY <1>2
  <1>4. Total(counts) = h[N]
    BY DEF Total
  <1> HIDE DEF h
  <1>5. \A d \in 0 .. N : h[d] = IF d = 0 THEN 0 ELSE h[d - 1] + counts[d]
    BY <1>3
  <1>6. Adds(counts, N, h) /\ Adds(counts, N, f)
    BY <1>5 DEF Sums, Adds
  <1>7. h[N] = f[N]
    <2> HIDE DEF N
    <2>1. \A d \in 0 .. N : h[d] = f[d]
      BY <1>1, <1>6, SameSums
    <2> QED BY <1>1, <2>1
  <1> QED BY <1>1, <1>4, <1>7 DEF Sums, Adds

-----------------------------------------------------------------------------
LEMMA TotalType == \A counts \in Seq(Int) : Total(counts) \in Int
  BY SumsExist, TotalIs

LEMMA TotalOfNone == Total(<<>>) = 0
  <1>1. <<>> \in Seq(Int) /\ Len(<<>>) = 0
    OBVIOUS
  <1>2. PICK f : Sums(<<>>, 0, f)
    BY <1>1, SumsExist
  <1>3. f[0] = 0
    BY <1>2 DEF Sums, Adds
  <1> QED BY <1>1, <1>2, <1>3, TotalIs

LEMMA TotalOfAppend ==
  ASSUME NEW counts \in Seq(Int), NEW n \in Int
  PROVE  Total(Append(counts, n)) = Total(counts) + n
  <1> DEFINE all == Append(counts, n)
             L == Len(counts)
  <1>1. all \in Seq(Int) /\ Len(all) = L + 1 /\ L \in Nat /\ all[L + 1] = n
    OBVIOUS
  <1>2. \A d \in 1 .. L : all[d] = counts[d]
    OBVIOUS
  <1>3. PICK f : Sums(all, L + 1, f)
    BY <1>1, SumsExist
  <1> HIDE DEF all
  <1>4. Sums(counts, L, f)
    BY <1>1, <1>2, <1>3 DEF Sums, Adds
  <1>5. f[L + 1] = f[L] + n
    <2>1. L + 1 \in 0 .. L + 1 /\ L + 1 # 0 /\ L + 1 - 1 = L
      BY <1>1
    <2> QED BY <1>1, <1>3, <2>1 DEF Sums, Adds
  <1>6. Total(all) = f[L + 1] /\ Total(counts) = f[L]
    BY <1>1, <1>3, <1>4, TotalIs
  <1> QED BY <1>5, <1>6 DEF all

\* Of natural numbers, the last is part of the total.
LEMMA LastOfTotal ==
  ASSUME NEW counts \in Seq(Nat), counts # <<>>
  PROVE  Total(counts) \in Int /\ counts[Len(counts)] <= Total(counts)
  <1> DEFINE N == Len(counts)
  <1>1. /\ counts \in Seq(Int) /\ N \in Nat /\ N # 0
        /\ \A d \in 1 .. N : counts[d] \in Nat
    OBVIOUS
  <1>2. PICK f : Sums(counts, N, f)
    BY <1>1, SumsExist
  <1>3. /\ \A d \in 0 .. N : f[d] = IF d = 0 THEN 0 ELSE f[d - 1] + counts[d]
        /\ \A d \in 0 .. N : f[d] \in Int
    BY <1>2 DEF Sums, Adds
  <1>4. Total(counts) = f[N] /\ Total(counts) \in Int
    BY <1>1, <1>2, TotalIs
  <1> HIDE DEF N
  <1> DEFINE G == {n \in Nat : n <= N => f[n] >= 0}
  <1>5. 0 \in G
    BY <1>1, <1>3
  <1>6. ASSUME NEW n \in Nat, n \in G PROVE n + 1 \in G
    <2> SUFFICES ASSUME n + 1 <= N PROVE f[n + 1] >= 0
      OBVIOUS
    <2>1. n + 1 \in 0 .. N /\ n + 1 \in 1 .. N /\ n + 1 # 0 /\ n + 1 - 1 = n /\ n \in 0 .. N
      BY <1>1
    <2>2. f[n + 1] = f[n] + counts[n + 1] /\ f[n] \in Int /\ f[n] >= 0 /\ counts[n + 1] \in Nat
      BY <1>1, <1>3, <1>6, <2>1
    <2> QED BY <2>2
  <1>7. Nat \subseteq G
    <2> HIDE DEF G
    <2> QED BY <1>5, <1>6, SetInduction
  <1>8. N \in 0 .. N /\ N - 1 \in Nat /\ N - 1 <= N /\ N - 1 \in 0 .. N
    BY <1>1
  <1>9. f[N] = f[N - 1] + counts[N] /\ f[N - 1] >= 0 /\ f[N - 1] \in Int /\ counts[N] \in Nat
    <2>1. N \in 1 .. N
      BY <1>1
    <2> QED BY <1>1, <1>3, <1>7, <1>8, <2>1
  <1>10. counts[N] <= f[N]
    BY <1>9
  <1> QED BY <1>4, <1>10 DEF N

-----------------------------------------------------------------------------
\* A set of natural numbers that is not empty has a least element, Min.
LEMMA LeastElement ==
  ASSUME NEW S \in SUBSET Nat, S # {}
  PROVE  Min(S) \in S /\ \A s \in S : Min(S) <= s
  <1>1. PICK n \in S : \A m \in S : ~(<<m, n>> \in OpToRel(<, Nat))
    BY WFMin, NatLessThanWellFounded
  <1>2. ASSUME NEW m \in S PROVE n <= m
    <2>1. ~(m < n)
      BY <1>1 DEF OpToRel
    <2> QED BY <2>1
  <1> QED BY <1>2 DEF Min

\* A finite set of integers that is not empty has a largest element, Max: by
\* induction over its cardinality.
LEMMA LargestElement ==
  ASSUME NEW S \in SUBSET Int, IsFiniteSet(S), S # {}
  PROVE  Max(S) \in S /\ \A s \in S : s <= Max(S)
  <1> DEFINE Has(T) == \E m \in T : \A s \in T : s <= m
             G == {n \in Nat : \A T \in SUBSET Int :
                                 IsFiniteSet(T) /\ Cardinality(T) = n /\ T # {} => Has(T)}
  <1>1. 0 \in G
    BY FS_EmptySet
  <1>2. ASSUME NEW n \in Nat, n \in G PROVE n + 1 \in G
    <2> SUFFICES ASSUME NEW T \in SUBSET Int, IsFiniteSet(T), Cardinality(T) = n + 1, T # {}
                 PROVE  Has(T)
      OBVIOUS
    <2>1. PICK x : x \in T
      OBVIOUS
    <2> DEFINE R == T \ {x}
    <2>2. R \in SUBSET Int /\ IsFiniteSet(R) /\ Cardinality(R) = n
      <3>1. IsFiniteSet(R) /\ Cardinality(R) = Cardinality(T) - 1
        BY <2>1, FS_RemoveElement
      <3>2. Cardinality(T) - 1 = n
        <4>1. (n + 1) - 1 = n
          OBVIOUS
        <4> QED BY <4>1
      <3>3. R \in SUBSET Int
        OBVIOUS
      <3> QED BY <3>1, <3>2, <3>3
    <2>3. CASE R = {}
      BY <2>1, <2>3
    <2>4. CASE R # {}
      <3>1. PICK m \in R : \A s \in R : s <= m
        BY <1>2, <2>2, <2>4
      <3>2. CASE x <= m
        BY <2>1, <3>1, <3>2
      <3>3. CASE ~(x <= m)
        BY <2>1, <3>1, <3>3
      <3> QED BY <3>2, <3>3
    <2> QED BY <2>3, <2>4
  <1> HIDE DEF G
  <1>3. Nat \subseteq G
    BY <1>1, <1>2, SetInduction
  <1>4. Has(S)
    BY <1>3, FS_CardinalityType DEF G
  <1> QED BY <1>4 DEF Max

\* How many elements of a set are below a number.
Below(S, s) == Cardinality({t \in S : t < s})

\* The rank of an element is less than the number of elements.
LEMMA BelowType ==
  ASSUME NEW S \in SUBSET Int, IsFiniteSet(S), NEW s \in S
  PROVE  Below(S, s) \in 0 .. Cardinality(S) - 1
  <1> DEFINE T == {t \in S : t < s}
  <1>1. T \in SUBSET S /\ s \in S \ T
    OBVIOUS
  <1>2. IsFiniteSet(T) /\ Cardinality(T) \in Nat /\ Cardinality(T) <= Cardinality(S)
        /\ Cardinality(S) \in Nat /\ (Cardinality(S) = Cardinality(T) => S = T)
    BY <1>1, FS_Subset, FS_CardinalityType
  <1> HIDE DEF T
  <1>3. Cardinality(T) \in 0 .. Cardinality(S) - 1
    BY <1>1, <1>2
  <1> QED BY <1>3 DEF T, Below

\* There is an element of each rank.
LEMMA EachRank ==
  ASSUME NEW S \in SUBSET Int, IsFiniteSet(S), NEW k \in 1 .. Cardinality(S)
  PROVE  \E s \in S : Below(S, s) = k - 1
  <1> DEFINE Has(T) == \A j \in 1 .. Cardinality(T) : \E s \in T : Below(T, s) = j - 1
             G == {n \in Nat : \A T \in SUBSET Int :
                                 IsFiniteSet(T) /\ Cardinality(T) = n => Has(T)}
  <1>1. 0 \in G
    OBVIOUS
  <1>2. ASSUME NEW n \in Nat, n \in G PROVE n + 1 \in G
    <2> SUFFICES ASSUME NEW T \in SUBSET Int, IsFiniteSet(T), Cardinality(T) = n + 1,
                        NEW j \in 1 .. n + 1
                 PROVE  \E s \in T : Below(T, s) = j - 1
      OBVIOUS
    <2>1. T # {}
      BY FS_EmptySet
    <2> DEFINE m == Max(T)
               R == T \ {m}
    <2>2. m \in T /\ \A s \in T : s <= m
      BY <2>1, LargestElement
    <2>3. R \in SUBSET Int /\ IsFiniteSet(R) /\ Cardinality(R) = n
      <3>1. IsFiniteSet(R) /\ Cardinality(R) = Cardinality(T) - 1
        BY <2>2, FS_RemoveElement
      <3>2. Cardinality(T) - 1 = n
        <4>1. (n + 1) - 1 = n
          OBVIOUS
        <4> QED BY <4>1
      <3>3. R \in SUBSET Int
        OBVIOUS
      <3> QED BY <3>1, <3>2, <3>3
    <2> HIDE DEF m
    <2>4. CASE j = n + 1
      <3>1. \A t \in T : m \in Int /\ t \in Int /\ (t < m <=> t # m)
        BY <2>2
      <3>2. {t \in T : t < m} = R
        BY <3>1
      <3>3. Below(T, m) = n
        BY <2>3, <3>2 DEF Below
      <3> QED BY <2>2, <2>4, <3>3
    <2>5. CASE j # n + 1
      <3>1. j \in 1 .. n
        BY <2>5
      <3>2. PICK s \in R : Below(R, s) = j - 1
        BY <1>2, <2>3, <3>1
      <3>3. {t \in T : t < s} = {t \in R : t < s}
        BY <2>2
      <3> QED BY <3>2, <3>3 DEF Below
    <2> QED BY <2>4, <2>5
  <1> HIDE DEF G
  <1>3. Nat \subseteq G
    BY <1>1, <1>2, SetInduction
  <1>4. Has(S)
    BY <1>3, FS_CardinalityType DEF G
  <1> QED BY <1>4

\* No two elements have the same rank.
LEMMA OneOfEachRank ==
  ASSUME NEW S \in SUBSET Int, IsFiniteSet(S), NEW s \in S, NEW t \in S,
         Below(S, s) = Below(S, t)
  PROVE  s = t
  <1>1. ASSUME NEW a \in S, NEW b \in S, a < b PROVE Below(S, a) # Below(S, b)
    <2> DEFINE A == {x \in S : x < a}
               B == {x \in S : x < b}
    <2>0. \A x \in S : x \in Int /\ a \in Int /\ b \in Int
      OBVIOUS
    <2>4. \A x \in S : x < a => x < b
      BY <1>1, <2>0
    <2>5. ~(a < a)
      BY <2>0
    <2>1. A \in SUBSET B /\ a \in B \ A /\ B \in SUBSET S
      BY <1>1, <2>4, <2>5
    <2>2. IsFiniteSet(B)
      BY <2>1, FS_Subset
    <2>3. Cardinality(B) = Cardinality(A) => B = A
      BY <2>1, <2>2, FS_Subset
    <2> QED BY <2>1, <2>3 DEF Below
  <1> QED BY <1>1
=============================================================================
