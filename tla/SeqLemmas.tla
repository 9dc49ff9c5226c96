------------------------------ MODULE SeqLemmas ------------------------------
(* Facts about sequences and numbers that several proofs cite. *)
EXTENDS Integers, Sequences, SequenceTheorems, WellFoundedInduction, TLAPS

\* A sequence without its last element keeps the others as they were: popping
\* a condition, a context or a scope leaves those around it alone.
LEMMA FrontOfSeq ==
  ASSUME NEW S, NEW s \in Seq(S), s # <<>>
  PROVE  /\ SubSeq(s, 1, Len(s) - 1) \in Seq(S)
         /\ Len(SubSeq(s, 1, Len(s) - 1)) = Len(s) - 1
         /\ \A i \in 1 .. Len(s) - 1 : SubSeq(s, 1, Len(s) - 1)[i] = s[i]
<1>1. Len(s) \in Nat \ {0} /\ \A i \in 1 .. Len(s) - 1 : s[i] \in S
  BY ElementOfSeq, EmptySeq, LenProperties
<1>2. DEFINE n == Len(s) - 1
<1>3. n \in Nat /\ \A i \in 1 .. n : s[i] \in S
  BY <1>1
<1> HIDE DEF n
<1>4. /\ SubSeq(s, 1, n) \in Seq(S)
      /\ Len(SubSeq(s, 1, n)) = IF 1 <= n THEN n - 1 + 1 ELSE 0
      /\ \A i \in 1 .. n - 1 + 1 : SubSeq(s, 1, n)[i] = s[1 + i - 1]
  BY <1>3, SubSeqProperties
<1>5. /\ Len(SubSeq(s, 1, n)) = n
      /\ \A i \in 1 .. n : SubSeq(s, 1, n)[i] = s[i]
  <2>1. n - 1 + 1 = n /\ \A i \in 1 .. n : 1 + i - 1 = i
    BY <1>3
  <2>2. QED
    BY <1>3, <1>4, <2>1
<1>6. QED
  BY <1>4, <1>5 DEF n

\* The sequence r, one element longer.
LEMMA LastAppended ==
  ASSUME NEW S, NEW s \in Seq(S), NEW x \in S, NEW r, r = Append(s, x)
  PROVE  /\ r \in Seq(S) /\ Len(r) = Len(s) + 1 /\ Len(r) \in Nat \ {0} /\ DOMAIN r = 1 .. Len(r)
         /\ r[Len(r)] = x
         /\ \A i \in 1 .. Len(r) : i # Len(r) => i \in 1 .. Len(s) /\ r[i] = s[i]
<1>0. PICK n : n = Len(s)
  OBVIOUS
<1>1. n \in Nat /\ r \in Seq(S) /\ Len(r) = n + 1 /\ r[n + 1] = x /\ \A i \in 1 .. n : r[i] = s[i]
  BY <1>0, AppendProperties, LenProperties
<1>2. \A i \in 1 .. n + 1 : i # n + 1 => i \in 1 .. n
  BY <1>1
<1> QED
  BY <1>0, <1>1, <1>2, LenProperties

\* A set of numbers up to n has a largest element, by the well-foundedness of <
\* on the distances from n.
LEMMA LargestElement ==
  ASSUME NEW n \in Nat, NEW S \in SUBSET (1 .. n), S # {}
  PROVE  \E x \in S : \A y \in S : y <= x
<1> DEFINE R == OpToRel(<, Nat)
           T == {k \in Nat : n - k \in S}
<1>1. \A a, b \in Nat : a < b => <<a, b>> \in R
  BY DEF OpToRel
<1>2. IsWellFoundedOn(R, Nat)
  BY NatLessThanWellFounded, Zenon
<1>3. T \subseteq Nat
  OBVIOUS
<1>4. \A i \in S : n - i \in T
  <2> SUFFICES ASSUME NEW i \in S PROVE n - i \in T
    OBVIOUS
  <2>1. i \in 1 .. n
    OBVIOUS
  <2>2. n - i \in Nat /\ n - (n - i) = i
    BY <2>1
  <2> QED
    BY <2>2
<1>5. \A k \in T : n - k \in S
  OBVIOUS
<1> HIDE DEF R, T
<1>6. T # {}
  BY <1>4
<1>7. PICK m \in T : \A k \in T : <<k, m>> \notin R
  BY <1>2, <1>3, <1>6, WFMin
<1>8. \A k \in T : ~(k < m)
  BY <1>1, <1>3, <1>7
<1>9. \A y \in S : y <= n - m
  <2> SUFFICES ASSUME NEW y \in S PROVE y <= n - m
    OBVIOUS
  <2>1. n - y \in T /\ y \in 1 .. n
    BY <1>4
  <2>2. ~(n - y < m) /\ m \in Nat
    BY <1>3, <1>8, <2>1
  <2> QED
    BY <2>1, <2>2
<1> QED
  BY <1>5, <1>7, <1>9

LEMMA SmallestElement ==
  ASSUME NEW S \in SUBSET Nat, S # {}
  PROVE  \E x \in S : \A y \in S : x <= y
<1> DEFINE R == OpToRel(<, Nat)
<1>1. \A a, b \in Nat : a < b => <<a, b>> \in R
  BY DEF OpToRel
<1>2. IsWellFoundedOn(R, Nat)
  BY NatLessThanWellFounded, Zenon
<1> HIDE DEF R
<1>3. PICK x \in S : \A y \in S : <<y, x>> \notin R
  BY <1>2, WFMin
<1>4. \A y \in S : ~(y < x)
  BY <1>1, <1>3
<1> QED
  BY <1>4

\* Induction, on a set of numbers: a fact about every number up to n.
LEMMA SetInduction ==
  ASSUME NEW n \in Nat, NEW S, 0 \in S, \A k \in Nat : k < n /\ k \in S => k + 1 \in S
  PROVE  \A k \in 0 .. n : k \in S
<1> DEFINE Bad == {k \in 0 .. n : k \notin S}
<1>1. Bad \in SUBSET Nat
  OBVIOUS
<1>2. \A k \in 0 .. n : k \notin S => k \in Bad
  OBVIOUS
<1>3. \A k \in Bad : k \in 0 .. n /\ k \notin S
  OBVIOUS
<1> HIDE DEF Bad
<1>4. Bad = {}
  <2> SUFFICES ASSUME Bad # {} PROVE FALSE
    OBVIOUS
  <2>1. PICK b \in Bad : \A k \in Bad : b <= k
    BY <1>1, SmallestElement
  <2>2. b \in 1 .. n /\ b \notin S
    BY <1>3, <2>1
  <2>3. b - 1 \in 0 .. n /\ b - 1 \in Nat /\ b - 1 < n /\ b - 1 + 1 = b /\ ~(b <= b - 1)
    BY <2>2
  <2>4. b - 1 \in S
    BY <1>2, <2>1, <2>3
  <2> QED
    BY <2>2, <2>3, <2>4
<1> QED
  BY <1>2, <1>4

-----------------------------------------------------------------------------
(* Following a function n times, as it is defined by recursion. *)

Iterates(f, n, c, step) == f = [k \in 0 .. n |-> IF k = 0 THEN c ELSE step[f[k - 1]]]

LEMMA IterationExists ==
  ASSUME NEW n \in Nat, NEW c, NEW step PROVE \E f : Iterates(f, n, c, step)
<1> DEFINE S == {m \in 0 .. n : \E f : Iterates(f, m, c, step)}
<1>1. 0 \in S
  <2> DEFINE f == [k \in 0 .. 0 |-> c]
  <2>1. f = [k \in 0 .. 0 |-> IF k = 0 THEN c ELSE step[f[k - 1]]]
    OBVIOUS
  <2> HIDE DEF f
  <2> QED
    BY <2>1 DEF Iterates
<1>2. ASSUME NEW m \in Nat, m < n, m \in S PROVE m + 1 \in S
  <2>1. PICK f : Iterates(f, m, c, step)
    BY <1>2
  <2> DEFINE g == [k \in 0 .. m + 1 |-> IF k <= m THEN f[k] ELSE step[f[m]]]
  <2>2. ASSUME NEW k \in 0 .. m + 1 PROVE g[k] = IF k = 0 THEN c ELSE step[g[k - 1]]
    <3>1. CASE k = 0
      <4>1. g[k] = f[k] /\ k \in 0 .. m
        BY <1>2, <3>1
      <4>2. f[k] = c
        BY <2>1, <3>1, <4>1 DEF Iterates
      <4> HIDE DEF g
      <4> QED
        BY <3>1, <4>1, <4>2
    <3>2. CASE k # 0
      <4>1. k - 1 \in 0 .. m + 1 /\ k - 1 <= m /\ (~(k <= m) => k - 1 = m)
        BY <1>2, <3>2
      <4>2. g[k - 1] = f[k - 1]
        BY <4>1
      <4>3. g[k] = IF k <= m THEN f[k] ELSE step[f[m]]
        OBVIOUS
      <4> HIDE DEF g
      <4>4. k <= m => f[k] = step[f[k - 1]]
        BY <1>2, <2>1, <3>2 DEF Iterates
      <4> QED
        BY <3>2, <4>1, <4>2, <4>3, <4>4
    <3> QED
      BY <3>1, <3>2
  <2>3. g = [k \in 0 .. m + 1 |-> g[k]]
    OBVIOUS
  <2> HIDE DEF g
  <2>4. Iterates(g, m + 1, c, step)
    BY <2>2, <2>3 DEF Iterates
  <2> QED
    BY <1>2, <2>4
<1> HIDE DEF S
<1>3. n \in S
  <2>1. n \in 0 .. n
    OBVIOUS
  <2> QED
    BY <1>1, <1>2, <2>1, SetInduction
<1> QED
  BY <1>3 DEF S

-----------------------------------------------------------------------------
(* The concatenation of n sequences, as it is defined by recursion. *)

\* Each is a sequence over X; each element of each is in v, and the other way
\* round; all pairs of elements at different places are in R.
AreSeqs(seqs, n, X) == \A i \in 1 .. n : seqs[i] \in Seq(X)
ComesFrom(v, seqs, n) ==
  \A p \in 1 .. Len(v) : \E k \in 1 .. n : \E q \in 1 .. Len(seqs[k]) : v[p] = seqs[k][q]
HasAllOf(v, seqs, n) ==
  \A k \in 1 .. n : \A q \in 1 .. Len(seqs[k]) : \E p \in 1 .. Len(v) : v[p] = seqs[k][q]
PairsIn(seqs, n, R) ==
  \A k, l \in 1 .. n : \A p \in 1 .. Len(seqs[k]) : \A q \in 1 .. Len(seqs[l]) :
    k # l \/ p # q => <<seqs[k][p], seqs[l][q]>> \in R
Pairwise(v, R) == \A p, q \in 1 .. Len(v) : p # q => <<v[p], v[q]>> \in R

Joins(f, n, seqs) == f = [i \in 1 .. n |-> IF i = 1 THEN seqs[i] ELSE f[i - 1] \o seqs[i]]

LEMMA JoinExists ==
  ASSUME NEW X, NEW n \in Nat, NEW seqs, \A i \in 1 .. n : seqs[i] \in Seq(X)
  PROVE  \E f : Joins(f, n, seqs)
<1> DEFINE S == {m \in 0 .. n : \E f : Joins(f, m, seqs)}
<1>1. 0 \in S
  <2>1. Joins([i \in 1 .. 0 |-> seqs[i]], 0, seqs)
    BY DEF Joins
  <2> QED
    BY <2>1
<1>2. ASSUME NEW k \in Nat, k < n, k \in S PROVE k + 1 \in S
  <2>1. PICK f : Joins(f, k, seqs)
    BY <1>2
  <2> DEFINE g == [i \in 1 .. k + 1 |-> IF i <= k THEN f[i]
                                        ELSE IF i = 1 THEN seqs[i] ELSE f[i - 1] \o seqs[i]]
  <2>2. ASSUME NEW i \in 1 .. k + 1
        PROVE  g[i] = IF i = 1 THEN seqs[i] ELSE g[i - 1] \o seqs[i]
    <3>1. CASE i <= k
      <4>1. i \in 1 .. k /\ (i # 1 => i - 1 \in 1 .. k + 1 /\ i - 1 <= k)
        BY <1>2, <3>1
      <4>2. g[i] = f[i] /\ (i # 1 => g[i - 1] = f[i - 1])
        BY <3>1, <4>1
      <4>3. f[i] = IF i = 1 THEN seqs[i] ELSE f[i - 1] \o seqs[i]
        BY <2>1, <4>1 DEF Joins
      <4> HIDE DEF g
      <4> QED
        BY <4>2, <4>3
    <3>2. CASE ~(i <= k)
      <4>1. i # 1 => i - 1 \in 1 .. k + 1 /\ i - 1 <= k
        BY <1>2, <3>2
      <4>2. i # 1 => g[i - 1] = f[i - 1]
        BY <4>1
      <4>3. g[i] = IF i = 1 THEN seqs[i] ELSE f[i - 1] \o seqs[i]
        BY <3>2
      <4> HIDE DEF g
      <4> QED
        BY <4>2, <4>3
    <3> QED
      BY <3>1, <3>2
  <2>3. g = [i \in 1 .. k + 1 |-> g[i]]
    OBVIOUS
  <2> HIDE DEF g
  <2>4. Joins(g, k + 1, seqs)
    BY <2>2, <2>3 DEF Joins
  <2> QED
    BY <1>2, <2>4
<1> HIDE DEF S
<1>3. n \in S
  <2>1. n \in 0 .. n
    OBVIOUS
  <2> QED
    BY <1>1, <1>2, <2>1, SetInduction
<1> QED
  BY <1>3 DEF S

\* Where the elements of a concatenation come from.
LEMMA ConcatElements ==
  ASSUME NEW X, NEW g \in Seq(X), NEW s \in Seq(X), NEW t, t = g \o s
  PROVE  /\ t \in Seq(X) /\ Len(t) = Len(g) + Len(s)
         /\ \A i \in 1 .. Len(g) : i \in 1 .. Len(t) /\ t[i] = g[i]
         /\ \A i \in 1 .. Len(s) : Len(g) + i \in 1 .. Len(t) /\ t[Len(g) + i] = s[i]
         /\ \A p \in 1 .. Len(t) : \/ p \in 1 .. Len(g) /\ t[p] = g[p]
                                   \/ \E i \in 1 .. Len(s) : p = Len(g) + i /\ t[p] = s[i]
<1> DEFINE a == Len(g)
           b == Len(s)
<1>1. a \in Nat /\ b \in Nat
  BY LenProperties
<1>2. /\ t \in Seq(X) /\ Len(t) = a + b
      /\ \A i \in 1 .. a + b : t[i] = IF i <= a THEN g[i] ELSE s[i - a]
  BY ConcatProperties
<1> HIDE DEF a, b
<1>3. ASSUME NEW i \in 1 .. a PROVE i \in 1 .. a + b /\ t[i] = g[i]
  <2>1. i \in 1 .. a + b /\ i <= a
    BY <1>1
  <2> QED
    BY <1>2, <2>1
<1>4. ASSUME NEW i \in 1 .. b PROVE a + i \in 1 .. a + b /\ t[a + i] = s[i]
  <2>1. PICK p : p = a + i
    OBVIOUS
  <2>2. p \in 1 .. a + b /\ ~(p <= a) /\ p - a = i
    BY <1>1, <2>1
  <2>3. t[p] = s[i]
    BY <1>2, <2>2
  <2> QED
    BY <2>1, <2>2, <2>3
<1>5. ASSUME NEW p \in 1 .. a + b
      PROVE  \/ p \in 1 .. a /\ t[p] = g[p]
             \/ \E i \in 1 .. b : p = a + i /\ t[p] = s[i]
  <2>1. CASE p <= a
    <3>1. p \in 1 .. a
      BY <1>1, <2>1
    <3> QED
      BY <1>3, <3>1
  <2>2. CASE ~(p <= a)
    <3>1. p - a \in 1 .. b /\ a + (p - a) = p
      BY <1>1, <2>2
    <3> QED
      BY <1>4, <3>1
  <2> QED
    BY <2>1, <2>2
<1> QED
  BY <1>2, <1>3, <1>4, <1>5 DEF a, b

LEMMA PrependElements ==
  ASSUME NEW X, NEW x \in X, NEW s \in Seq(X)
  PROVE  /\ Len(<<x>> \o s) = Len(s) + 1
         /\ (<<x>> \o s)[1] = x
         /\ \A i \in 2 .. Len(s) + 1 : (<<x>> \o s)[i] = s[i - 1]
<1>1. PICK one : one = <<x>>
  OBVIOUS
<1>2. one \in Seq(X) /\ Len(one) = 1 /\ one[1] = x
  BY <1>1
<1>3. PICK t : t = one \o s
  OBVIOUS
<1>4. /\ Len(t) = Len(one) + Len(s) /\ Len(s) \in Nat
      /\ \A i \in 1 .. Len(one) : t[i] = one[i]
      /\ \A i \in 1 .. Len(s) : t[Len(one) + i] = s[i]
  <2>1. one \in Seq(X) /\ s \in Seq(X) /\ t = one \o s
    BY <1>2, <1>3
  <2>2. Len(s) \in Nat
    BY LenProperties
  <2> QED
    BY <2>1, <2>2, ConcatElements, SMTT(30)
<1>5. t[1] = x /\ Len(t) = Len(s) + 1
  BY <1>2, <1>4
<1>6. ASSUME NEW i \in 2 .. Len(s) + 1 PROVE t[i] = s[i - 1]
  <2>1. PICK j : j = i - 1
    OBVIOUS
  <2>2. j \in 1 .. Len(s) /\ 1 + j = i
    BY <1>4, <2>1
  <2>3. t[1 + j] = s[j]
    BY <1>2, <1>4, <2>2
  <2> QED
    BY <2>1, <2>2, <2>3
<1> QED
  BY <1>1, <1>3, <1>5, <1>6

LEMMA JoinStep ==
  ASSUME NEW n \in Nat, NEW seqs, NEW f, Joins(f, n, seqs)
  PROVE  \A m \in 1 .. n : f[m] = IF m = 1 THEN seqs[m] ELSE f[m - 1] \o seqs[m]
  BY DEF Joins

\* Its elements are those of the sequences.
LEMMA JoinElements ==
  ASSUME NEW X, NEW n \in Nat, NEW seqs, AreSeqs(seqs, n, X), NEW f, Joins(f, n, seqs)
  PROVE  \A m \in 1 .. n :
           f[m] \in Seq(X) /\ ComesFrom(f[m], seqs, m) /\ HasAllOf(f[m], seqs, m)
<1> \A i \in 1 .. n : seqs[i] \in Seq(X)
  BY DEF AreSeqs
<1> DEFINE Good(m) ==
             /\ f[m] \in Seq(X)
             /\ \A p \in 1 .. Len(f[m]) : \E k \in 1 .. m : \E q \in 1 .. Len(seqs[k]) :
                  f[m][p] = seqs[k][q]
             /\ \A k \in 1 .. m : \A q \in 1 .. Len(seqs[k]) : \E p \in 1 .. Len(f[m]) :
                  f[m][p] = seqs[k][q]
           S == {m \in 0 .. n : m = 0 \/ Good(m)}
<1>1. 0 \in S
  OBVIOUS
<1>2. ASSUME NEW j \in Nat, j < n, j \in S PROVE j + 1 \in S
  <2>1. PICK m : m = j + 1
    OBVIOUS
  <2>2. m \in 1 .. n /\ m \in 0 .. n /\ seqs[m] \in Seq(X)
    BY <1>2, <2>1
  <2>5. /\ j = 0 => m = 1 /\ f[m] = seqs[m]
        /\ j # 0 => j \in 1 .. n /\ f[m] = f[j] \o seqs[m]
    <3>1. f[m] = IF m = 1 THEN seqs[m] ELSE f[m - 1] \o seqs[m]
      BY <2>2, JoinStep
    <3>2. m - 1 = j /\ (j = 0 <=> m = 1) /\ (j # 0 => j \in 1 .. n)
      BY <1>2, <2>1
    <3> HIDE DEF S
    <3> QED
      BY <3>1, <3>2
  <2>3. CASE j = 0
    <3>1. f[m] = seqs[m] /\ m = 1
      BY <2>3, <2>5
    <3>2. \A k \in 1 .. m : k = m
      BY <3>1
    <3>3. m \in 1 .. m
      BY <3>1
    <3>4. Good(m)
      BY <2>2, <3>1, <3>2, <3>3
    <3> HIDE DEF Good
    <3> QED
      BY <2>1, <2>2, <3>4
  <2>4. CASE j # 0
    <3>1. Good(j) /\ j \in 1 .. n /\ f[m] = f[j] \o seqs[m]
      <4>1. j \in S /\ j # 0
        BY <1>2, <2>4
      <4> HIDE DEF Good
      <4>2. Good(j)
        BY <4>1
      <4> QED
        BY <2>5, <4>1, <4>2
    <3>2. PICK g : g = f[j]
      OBVIOUS
    <3>3. g \in Seq(X) /\ f[m] = g \o seqs[m]
      BY <3>1, <3>2
    <3> HIDE DEF S, Good
    <3>4. /\ f[m] \in Seq(X)
          /\ \A i \in 1 .. Len(g) : i \in 1 .. Len(f[m]) /\ f[m][i] = g[i]
          /\ \A i \in 1 .. Len(seqs[m]) :
               Len(g) + i \in 1 .. Len(f[m]) /\ f[m][Len(g) + i] = seqs[m][i]
          /\ \A p \in 1 .. Len(f[m]) :
               \/ p \in 1 .. Len(g) /\ f[m][p] = g[p]
               \/ \E i \in 1 .. Len(seqs[m]) : p = Len(g) + i /\ f[m][p] = seqs[m][i]
      BY <2>2, <3>3, ConcatElements, SMTT(30)
    <3>5. \A k \in 1 .. m : k \in 1 .. j \/ k = m
      BY <1>2, <2>1
    <3>6. m \in 1 .. m /\ \A k \in 1 .. j : k \in 1 .. m
      BY <1>2, <2>1
    <3>7. ASSUME NEW p \in 1 .. Len(f[m])
          PROVE  \E k \in 1 .. m : \E q \in 1 .. Len(seqs[k]) : f[m][p] = seqs[k][q]
      <4>1. CASE p \in 1 .. Len(g) /\ f[m][p] = g[p]
        <5>1. \E k \in 1 .. j : \E q \in 1 .. Len(seqs[k]) : g[p] = seqs[k][q]
          BY <3>1, <3>2, <4>1 DEF Good
        <5> QED
          BY <3>6, <4>1, <5>1
      <4>2. CASE \E i \in 1 .. Len(seqs[m]) : f[m][p] = seqs[m][i]
        BY <3>6, <4>2
      <4> QED
        BY <3>4, <4>1, <4>2
    <3>8. ASSUME NEW k \in 1 .. m, NEW q \in 1 .. Len(seqs[k])
          PROVE  \E p \in 1 .. Len(f[m]) : f[m][p] = seqs[k][q]
      <4>1. CASE k = m
        BY <3>4, <4>1
      <4>2. CASE k \in 1 .. j
        <5>1. \E p \in 1 .. Len(g) : g[p] = seqs[k][q]
          BY <3>1, <3>2, <4>2 DEF Good
        <5> QED
          BY <3>4, <5>1
      <4> QED
        BY <3>5, <4>1, <4>2
    <3>9. Good(m)
      BY <3>4, <3>7, <3>8 DEF Good
    <3> QED
      BY <2>1, <2>2, <3>9 DEF S
  <2> QED
    BY <2>3, <2>4
<1> HIDE DEF S
<1>3. \A m \in 0 .. n : m \in S
  BY <1>1, <1>2, SetInduction
<1>4. \A m \in 1 .. n : m \in 0 .. n /\ m # 0
  OBVIOUS
<1>5. \A m \in 1 .. n : Good(m)
  BY <1>3, <1>4 DEF S
<1> QED
  BY <1>5 DEF ComesFrom, HasAllOf

\* If all pairs of elements at different places of the sequences are in R, all
\* pairs of elements at different places of the whole are.
LEMMA JoinPairs ==
  ASSUME NEW X, NEW n \in Nat, NEW seqs, AreSeqs(seqs, n, X), NEW f, Joins(f, n, seqs),
         NEW R, PairsIn(seqs, n, R)
  PROVE  \A m \in 1 .. n : Pairwise(f[m], R)
<1> \A i \in 1 .. n : seqs[i] \in Seq(X)
  BY DEF AreSeqs
<1> \A k, l \in 1 .. n : \A p \in 1 .. Len(seqs[k]) : \A q \in 1 .. Len(seqs[l]) :
      k # l \/ p # q => <<seqs[k][p], seqs[l][q]>> \in R
  BY DEF PairsIn
<1> DEFINE Good(m) == \A p, q \in 1 .. Len(f[m]) : p # q => <<f[m][p], f[m][q]>> \in R
           S == {m \in 0 .. n : m = 0 \/ Good(m)}
<1>1. 0 \in S
  OBVIOUS
<1>2. ASSUME NEW j \in Nat, j < n, j \in S PROVE j + 1 \in S
  <2>1. PICK m : m = j + 1
    OBVIOUS
  <2>2. m \in 1 .. n /\ m \in 0 .. n /\ seqs[m] \in Seq(X)
    BY <1>2, <2>1
  <2>5. /\ j = 0 => m = 1 /\ f[m] = seqs[m]
        /\ j # 0 => j \in 1 .. n /\ f[m] = f[j] \o seqs[m]
    <3>1. f[m] = IF m = 1 THEN seqs[m] ELSE f[m - 1] \o seqs[m]
      BY <2>2, JoinStep
    <3>2. m - 1 = j /\ (j = 0 <=> m = 1) /\ (j # 0 => j \in 1 .. n)
      BY <1>2, <2>1
    <3> HIDE DEF S
    <3> QED
      BY <3>1, <3>2
  <2>3. CASE j = 0
    <3>1. f[m] = seqs[m]
      BY <2>3, <2>5
    <3>2. Good(m)
      BY <2>2, <3>1
    <3> QED
      BY <2>1, <2>2, <3>2
  <2>4. CASE j # 0
    <3>1. Good(j) /\ j \in 1 .. n /\ f[m] = f[j] \o seqs[m]
      BY <1>2, <2>4, <2>5
    <3>2. PICK g : g = f[j]
      OBVIOUS
    <3>3. /\ g \in Seq(X) /\ f[m] = g \o seqs[m] /\ Len(g) \in Nat
          /\ \A p \in 1 .. Len(g) : \E k \in 1 .. j : \E q \in 1 .. Len(seqs[k]) :
               g[p] = seqs[k][q]
      <4>1. g \in Seq(X) /\ ComesFrom(g, seqs, j)
        BY <3>1, <3>2, JoinElements
      <4>2. Len(g) \in Nat
        BY <4>1, LenProperties
      <4> QED
        BY <3>1, <3>2, <4>1, <4>2 DEF ComesFrom
    <3>4. \A p \in 1 .. Len(f[m]) : \/ p \in 1 .. Len(g) /\ f[m][p] = g[p]
                                    \/ \E i \in 1 .. Len(seqs[m]) : p = Len(g) + i /\ f[m][p] = seqs[m][i]
      BY <2>2, <3>3, ConcatElements
    <3>5. \A p \in 1 .. Len(g), q \in 1 .. Len(seqs[m]) :
            <<g[p], seqs[m][q]>> \in R /\ <<seqs[m][q], g[p]>> \in R
      <4> SUFFICES ASSUME NEW p \in 1 .. Len(g), NEW q \in 1 .. Len(seqs[m])
                   PROVE  <<g[p], seqs[m][q]>> \in R /\ <<seqs[m][q], g[p]>> \in R
        OBVIOUS
      <4>1. PICK k \in 1 .. j : \E r \in 1 .. Len(seqs[k]) : g[p] = seqs[k][r]
        BY <3>3
      <4>2. k \in 1 .. n /\ k # m
        BY <1>2, <2>1, <3>1
      <4> QED
        BY <2>2, <4>1, <4>2
    <3>6. ASSUME NEW p \in 1 .. Len(f[m]), NEW q \in 1 .. Len(f[m]), p # q
          PROVE  <<f[m][p], f[m][q]>> \in R
      <4>1. CASE p \in 1 .. Len(g) /\ f[m][p] = g[p]
        BY <3>1, <3>2, <3>4, <3>5, <3>6, <4>1
      <4>2. ASSUME NEW i \in 1 .. Len(seqs[m]), p = Len(g) + i, f[m][p] = seqs[m][i]
            PROVE  <<f[m][p], f[m][q]>> \in R
        <5>1. CASE q \in 1 .. Len(g) /\ f[m][q] = g[q]
          BY <3>5, <4>2, <5>1
        <5>2. ASSUME NEW l \in 1 .. Len(seqs[m]), q = Len(g) + l, f[m][q] = seqs[m][l]
              PROVE  <<f[m][p], f[m][q]>> \in R
          <6>1. i # l
            BY <3>6, <4>2, <5>2
          <6> QED
            BY <2>2, <4>2, <5>2, <6>1
        <5> QED
          BY <3>4, <5>1, <5>2
      <4> QED
        BY <3>4, <4>1, <4>2
    <3> QED
      BY <2>1, <2>2, <3>6
  <2> QED
    BY <2>3, <2>4
<1> HIDE DEF S
<1>3. \A m \in 0 .. n : m \in S
  BY <1>1, <1>2, SetInduction
<1>4. \A m \in 1 .. n : m \in 0 .. n /\ m # 0
  OBVIOUS
<1>5. \A m \in 1 .. n : Good(m)
  BY <1>3, <1>4 DEF S
<1> QED
  BY <1>5 DEF Pairwise

LEMMA JoinWhole ==
  ASSUME NEW X, NEW n \in Nat \ {0}, NEW seqs, AreSeqs(seqs, n, X), NEW f, Joins(f, n, seqs)
  PROVE  /\ f[n] \in Seq(X) /\ ComesFrom(f[n], seqs, n) /\ HasAllOf(f[n], seqs, n)
         /\ \A R : PairsIn(seqs, n, R) => Pairwise(f[n], R)
<1>1. n \in Nat /\ n \in 1 .. n
  OBVIOUS
<1>2. f[n] \in Seq(X) /\ ComesFrom(f[n], seqs, n) /\ HasAllOf(f[n], seqs, n)
  BY <1>1, JoinElements
<1>3. ASSUME NEW R, PairsIn(seqs, n, R) PROVE Pairwise(f[n], R)
  BY <1>1, <1>3, JoinPairs
<1> QED
  BY <1>2, <1>3
-----------------------------------------------------------------------------
(* The same sequences joined from the other end. *)

JoinsBack(g, n, seqs) == g = [i \in 0 .. n |-> IF i = 0 THEN <<>> ELSE seqs[i] \o g[i - 1]]

LEMMA PrependExists ==
  ASSUME NEW n \in Nat, NEW seqs PROVE \E g : JoinsBack(g, n, seqs)
<1> DEFINE S == {m \in 0 .. n : \E g : JoinsBack(g, m, seqs)}
<1>1. 0 \in S
  <2> DEFINE g == [i \in 0 .. 0 |-> <<>>]
  <2>1. g = [i \in 0 .. 0 |-> IF i = 0 THEN <<>> ELSE seqs[i] \o g[i - 1]]
    OBVIOUS
  <2> HIDE DEF g
  <2> QED
    BY <2>1 DEF JoinsBack
<1>2. ASSUME NEW m \in Nat, m < n, m \in S PROVE m + 1 \in S
  <2>1. PICK f : JoinsBack(f, m, seqs)
    BY <1>2
  <2> DEFINE g == [i \in 0 .. m + 1 |-> IF i <= m THEN f[i] ELSE seqs[i] \o f[m]]
  <2>2. ASSUME NEW i \in 0 .. m + 1 PROVE g[i] = IF i = 0 THEN <<>> ELSE seqs[i] \o g[i - 1]
    <3>1. CASE i = 0
      <4>1. g[i] = f[i] /\ i \in 0 .. m
        BY <1>2, <3>1
      <4>2. f[i] = <<>>
        BY <2>1, <3>1, <4>1 DEF JoinsBack
      <4> HIDE DEF g
      <4> QED
        BY <3>1, <4>1, <4>2
    <3>2. CASE i # 0
      <4>1. i - 1 \in 0 .. m + 1 /\ i - 1 <= m /\ (~(i <= m) => i - 1 = m)
        BY <1>2, <3>2
      <4>2. g[i - 1] = f[i - 1]
        BY <4>1
      <4>3. g[i] = IF i <= m THEN f[i] ELSE seqs[i] \o f[m]
        OBVIOUS
      <4> HIDE DEF g
      <4>4. i <= m => f[i] = seqs[i] \o f[i - 1]
        BY <1>2, <2>1, <3>2 DEF JoinsBack
      <4> QED
        BY <3>2, <4>1, <4>2, <4>3, <4>4
    <3> QED
      BY <3>1, <3>2
  <2>3. g = [i \in 0 .. m + 1 |-> g[i]]
    OBVIOUS
  <2> HIDE DEF g
  <2>4. JoinsBack(g, m + 1, seqs)
    BY <2>2, <2>3 DEF JoinsBack
  <2> QED
    BY <1>2, <2>4
<1> HIDE DEF S
<1>3. n \in S
  <2>1. n \in 0 .. n
    OBVIOUS
  <2> QED
    BY <1>1, <1>2, <2>1, SetInduction
<1> QED
  BY <1>3 DEF S

LEMMA PrependStep ==
  ASSUME NEW X, NEW n \in Nat, NEW seqs, AreSeqs(seqs, n, X), NEW g, JoinsBack(g, n, seqs)
  PROVE  /\ g[0] = <<>> /\ \A m \in 1 .. n : g[m] = seqs[m] \o g[m - 1]
         /\ \A m \in 0 .. n : g[m] \in Seq(X)
<1>1. \A m \in 0 .. n : g[m] = IF m = 0 THEN <<>> ELSE seqs[m] \o g[m - 1]
  BY DEF JoinsBack
<1>2. g[0] = <<>>
  BY <1>1
<1>3. \A m \in 1 .. n : g[m] = seqs[m] \o g[m - 1]
  <2>1. \A m \in 1 .. n : m \in 0 .. n /\ m # 0
    OBVIOUS
  <2> QED
    BY <1>1, <2>1
<1> DEFINE S == {m \in 0 .. n : g[m] \in Seq(X)}
<1>4. 0 \in S
  <2>1. g[0] \in Seq(X) /\ 0 \in 0 .. n
    BY <1>2, EmptySeq
  <2> QED
    BY <2>1
<1>5. ASSUME NEW m \in Nat, m < n, m \in S PROVE m + 1 \in S
  <2>1. PICK k : k = m + 1
    OBVIOUS
  <2>2. k \in 1 .. n /\ k \in 0 .. n /\ k - 1 = m
    BY <1>5, <2>1
  <2>3. g[k] = seqs[k] \o g[m] /\ seqs[k] \in Seq(X) /\ g[m] \in Seq(X)
    BY <1>3, <1>5, <2>2 DEF AreSeqs
  <2>4. g[k] \in Seq(X)
    BY <2>3, ConcatProperties
  <2> QED
    BY <2>1, <2>2, <2>4
<1> HIDE DEF S
<1>6. \A m \in 0 .. n : m \in S
  BY <1>4, <1>5, SetInduction
<1> QED
  BY <1>2, <1>3, <1>6 DEF S

LEMMA ConcatThree ==
  ASSUME NEW X, NEW s \in Seq(X), NEW t \in Seq(X), NEW u \in Seq(X),
         NEW v, v = s \o t, NEW w, w = t \o u
  PROVE  v \o u = s \o w
<1>1. (s \o t) \o u = s \o (t \o u)
  BY ConcatAssociative
<1> QED
  BY <1>1

\* Appending from the last sequence to the first is prepending from the first
\* to the last.
LEMMA JoinOfReverse ==
  ASSUME NEW X, NEW n \in Nat \ {0}, NEW seqs, AreSeqs(seqs, n, X), NEW rev,
         \A i \in 1 .. n : rev[i] = seqs[n - i + 1],
         NEW f, Joins(f, n, rev), NEW g, JoinsBack(g, n, seqs)
  PROVE  f[n] = g[n]
<1>1. AreSeqs(rev, n, X)
  <2>1. \A i \in 1 .. n : n - i + 1 \in 1 .. n
    OBVIOUS
  <2> QED
    BY <2>1 DEF AreSeqs
<1>2. /\ \A m \in 1 .. n : f[m] = IF m = 1 THEN rev[m] ELSE f[m - 1] \o rev[m]
      /\ \A m \in 1 .. n : f[m] \in Seq(X)
  <2>1. n \in Nat
    OBVIOUS
  <2> QED
    BY <1>1, <2>1, JoinStep, JoinElements
<1>3. /\ g[0] = <<>> /\ \A m \in 1 .. n : g[m] = seqs[m] \o g[m - 1]
      /\ \A m \in 0 .. n : g[m] \in Seq(X)
  <2>1. n \in Nat
    OBVIOUS
  <2> QED
    BY <2>1, PrependStep
<1> DEFINE S == {m \in 0 .. n : m = 0 \/ f[m] \o g[n - m] = g[n]}
<1>4. 0 \in S
  OBVIOUS
<1>5. ASSUME NEW m \in Nat, m < n, m \in S PROVE m + 1 \in S
  <2>1. PICK k, j : k = m + 1 /\ j = n - m
    OBVIOUS
  <2>2. /\ k \in 1 .. n /\ k \in 0 .. n /\ k - 1 = m /\ (k = 1 <=> m = 0)
        /\ j \in 1 .. n /\ j - 1 \in 0 .. n /\ n - k = j - 1 /\ n - k + 1 = j
    BY <1>5, <2>1
  <2>3. rev[k] = seqs[j] /\ g[j] = seqs[j] \o g[j - 1]
    BY <1>3, <2>2
  <2>4. CASE m = 0
    <3>1. f[k] = rev[k] /\ j = n
      BY <1>2, <2>1, <2>2, <2>4
    <3>2. f[k] \o g[n - k] = g[n]
      BY <2>2, <2>3, <3>1
    <3> QED
      BY <2>1, <2>2, <3>2
  <2>5. CASE m # 0
    <3>1. PICK x, y, a, b, d : x = f[k] /\ y = g[j] /\ a = f[m] /\ b = seqs[j] /\ d = g[j - 1]
      OBVIOUS
    <3>2. a \o y = g[n]
      BY <1>5, <2>1, <2>5, <3>1
    <3> HIDE DEF S
    <3>3. k # 1 /\ m \in 1 .. n
      BY <1>5, <2>2, <2>5
    <3>4. f[k] = f[k - 1] \o rev[k]
      BY <1>2, <2>2, <3>3
    <3>5. x = a \o b /\ y = b \o d
      BY <2>2, <2>3, <3>1, <3>4
    <3>6. a \in Seq(X) /\ b \in Seq(X) /\ d \in Seq(X)
      BY <1>2, <1>3, <2>2, <3>1, <3>3 DEF AreSeqs
    <3>7. x \o d = a \o y
      BY <3>5, <3>6, ConcatThree
    <3>8. f[k] \o g[n - k] = g[n]
      BY <2>2, <3>1, <3>2, <3>7
    <3> QED
      BY <2>1, <2>2, <3>8 DEF S
  <2> QED
    BY <2>4, <2>5
<1> HIDE DEF S
<1>6. n \in S
  <2>1. n \in 0 .. n /\ n \in Nat
    OBVIOUS
  <2> QED
    BY <1>4, <1>5, <2>1, SetInduction
<1>7. f[n] \o g[n - n] = g[n] /\ n - n = 0 /\ n \in 1 .. n
  <2>1. n # 0 /\ n - n = 0 /\ n \in 1 .. n
    OBVIOUS
  <2>2. n = 0 \/ f[n] \o g[n - n] = g[n]
    BY <1>6 DEF S
  <2> QED
    BY <2>1, <2>2
<1>8. f[n] \o <<>> = g[n] /\ f[n] \in Seq(X)
  BY <1>2, <1>3, <1>7
<1> QED
  BY <1>8, ConcatEmptySeq

-----------------------------------------------------------------------------
(* A function of the elements of the joined sequences. *)

Image(h, s) == [i \in 1 .. Len(s) |-> h[s[i]]]

IsConcat(u, s, t) == u = s \o t

LEMMA ImageOfConcat ==
  ASSUME NEW X, NEW h, NEW s \in Seq(X), NEW t \in Seq(X), NEW u, IsConcat(u, s, t)
  PROVE  IsConcat(Image(h, u), Image(h, s), Image(h, t))
<1>0. u = s \o t
  BY DEF IsConcat
<1> DEFINE Y == {h[x] : x \in X}
<1>1. PICK a, b : a = Len(s) /\ b = Len(t)
  OBVIOUS
<1>2. a \in Nat /\ b \in Nat
  BY <1>1, LenProperties
<1>3. /\ Len(u) = a + b /\ u \in Seq(X)
      /\ \A i \in 1 .. a + b : u[i] = IF i <= a THEN s[i] ELSE t[i - a]
  BY <1>0, <1>1, ConcatProperties
<1>4. \A r \in Seq(X) : Image(h, r) \in Seq(Y) /\ Len(Image(h, r)) = Len(r)
                        /\ \A i \in 1 .. Len(r) : Image(h, r)[i] = h[r[i]]
  <2> SUFFICES ASSUME NEW r \in Seq(X)
               PROVE  /\ Image(h, r) \in Seq(Y) /\ Len(Image(h, r)) = Len(r)
                      /\ \A i \in 1 .. Len(r) : Image(h, r)[i] = h[r[i]]
    OBVIOUS
  <2>1. Len(r) \in Nat /\ \A i \in 1 .. Len(r) : r[i] \in X
    BY LenProperties, ElementOfSeq
  <2>2. \A i \in 1 .. Len(r) : h[r[i]] \in Y
    BY <2>1
  <2> HIDE DEF Y
  <2> QED
    BY <2>1, <2>2 DEF Image
<1> HIDE DEF Y
<1>5. PICK hs, ht, hu : hs = Image(h, s) /\ ht = Image(h, t) /\ hu = Image(h, u)
  OBVIOUS
<1>6. /\ hs \in Seq(Y) /\ Len(hs) = a /\ \A i \in 1 .. a : hs[i] = h[s[i]]
      /\ ht \in Seq(Y) /\ Len(ht) = b /\ \A i \in 1 .. b : ht[i] = h[t[i]]
      /\ hu \in Seq(Y) /\ Len(hu) = a + b /\ \A i \in 1 .. a + b : hu[i] = h[u[i]]
  BY <1>1, <1>3, <1>4, <1>5
<1>7. PICK v : v = hs \o ht
  OBVIOUS
<1>8. /\ v \in Seq(Y) /\ Len(v) = a + b
      /\ \A i \in 1 .. a + b : v[i] = IF i <= a THEN hs[i] ELSE ht[i - a]
  <2>1. hs \in Seq(Y) /\ ht \in Seq(Y) /\ Len(hs) = a /\ Len(ht) = b
    BY <1>6
  <2> QED
    BY <1>7, <2>1, ConcatProperties
<1>9. ASSUME NEW i \in 1 .. a + b PROVE hu[i] = v[i]
  <2>1. CASE i <= a
    <3>1. i \in 1 .. a
      BY <1>2, <2>1
    <3>2. hu[i] = h[u[i]] /\ u[i] = s[i]
      BY <1>3, <1>6, <2>1
    <3>3. v[i] = hs[i] /\ hs[i] = h[s[i]]
      BY <1>6, <1>8, <2>1, <3>1
    <3> QED
      BY <3>2, <3>3
  <2>2. CASE ~(i <= a)
    <3>1. PICK j : j = i - a
      OBVIOUS
    <3>2. j \in 1 .. b
      BY <1>2, <2>2, <3>1
    <3>3. hu[i] = h[u[i]] /\ u[i] = t[j]
      BY <1>3, <1>6, <2>2, <3>1
    <3>4. v[i] = ht[j] /\ ht[j] = h[t[j]]
      BY <1>6, <1>8, <2>2, <3>1, <3>2
    <3> QED
      BY <3>3, <3>4
  <2> QED
    BY <2>1, <2>2
<1>10. hu = v
  BY <1>6, <1>8, <1>9, SeqEqual
<1> QED
  BY <1>1, <1>5, <1>7, <1>10 DEF IsConcat

AreImages(images, n, h, seqs) == \A i \in 1 .. n : images[i] = Image(h, seqs[i])

LEMMA ImageOfJoin ==
  ASSUME NEW X, NEW h, NEW n \in Nat, NEW seqs, AreSeqs(seqs, n, X),
         NEW f, Joins(f, n, seqs), NEW images, AreImages(images, n, h, seqs),
         NEW g, Joins(g, n, images)
  PROVE  \A m \in 1 .. n : g[m] = Image(h, f[m])
<1>1. \A m \in 1 .. n : f[m] = IF m = 1 THEN seqs[m] ELSE f[m - 1] \o seqs[m]
  BY JoinStep
<1>2. \A m \in 1 .. n : g[m] = IF m = 1 THEN images[m] ELSE g[m - 1] \o images[m]
  BY JoinStep
<1>3. \A m \in 1 .. n : f[m] \in Seq(X)
  BY JoinElements
<1>4. \A s, t \in Seq(X) : \A u : IsConcat(u, s, t) => IsConcat(Image(h, u), Image(h, s), Image(h, t))
  BY ImageOfConcat
<1> DEFINE S == {m \in 0 .. n : m = 0 \/ g[m] = Image(h, f[m])}
<1>5. 0 \in S
  OBVIOUS
<1>6. ASSUME NEW m \in Nat, m < n, m \in S PROVE m + 1 \in S
  <2>1. PICK k : k = m + 1
    OBVIOUS
  <2>2. k \in 1 .. n /\ k \in 0 .. n /\ k - 1 = m /\ (k = 1 <=> m = 0)
    BY <1>6, <2>1
  <2>3. g[k] = Image(h, f[k])
    <3>1. CASE m = 0
      BY <1>1, <1>2, <2>2, <3>1 DEF AreImages
    <3>2. CASE m # 0
      <4>1. g[m] = Image(h, f[m]) /\ images[k] = Image(h, seqs[k])
        BY <1>6, <2>2, <3>2 DEF AreImages
      <4> HIDE DEF S
      <4>2. k # 1 /\ m \in 1 .. n
        BY <1>6, <2>2, <3>2
      <4>3. PICK x, y, a, b : x = f[k] /\ y = g[k] /\ a = f[m] /\ b = seqs[k]
        OBVIOUS
      <4>4. f[k] = f[k - 1] \o seqs[k] /\ g[k] = g[k - 1] \o images[k]
        BY <1>1, <1>2, <2>2, <4>2
      <4>5. IsConcat(x, a, b) /\ y = Image(h, a) \o Image(h, b)
        BY <2>2, <4>1, <4>3, <4>4 DEF IsConcat
      <4>6. a \in Seq(X) /\ b \in Seq(X)
        BY <1>3, <2>2, <4>2, <4>3 DEF AreSeqs
      <4>7. Image(h, x) = Image(h, a) \o Image(h, b)
        <5>1. IsConcat(Image(h, x), Image(h, a), Image(h, b))
          BY <1>4, <4>5, <4>6
        <5> QED
          BY <5>1 DEF IsConcat
      <4> QED
        BY <4>3, <4>5, <4>7
    <3> QED
      BY <3>1, <3>2
  <2> QED
    BY <2>1, <2>2, <2>3
<1> HIDE DEF S
<1>7. \A m \in 0 .. n : m \in S
  BY <1>5, <1>6, SetInduction
<1>8. \A m \in 1 .. n : m \in 0 .. n /\ m # 0
  OBVIOUS
<1> QED
  BY <1>7, <1>8 DEF S
=============================================================================
