----------------------------- MODULE FilingProofs -----------------------------
(* Proofs about Filing: types, that no directive is lost, that no event is     *)
(* counted twice, whatever fails or is killed, and when filing again adds      *)
(* nothing and every event stays active.                                       *)
EXTENDS Filing, FiniteSetTheorems, WellFoundedInduction, TLAPS

-----------------------------------------------------------------------------
\* Natural numbers: a set of them has a least element, and induction.
Less == OpToRel(<, Nat)

LEMMA LeastOf ==
    ASSUME NEW T \in SUBSET Nat, T # {}
    PROVE  \E x \in T : \A y \in T : x <= y
<1>1. IsWellFoundedOn(Less, Nat)
  BY NatLessThanWellFounded DEF Less
<1>2. PICK x \in T : \A y \in T : <<y, x>> \notin Less
  BY <1>1, WFMin
<1>3. ASSUME NEW y \in T PROVE x <= y
  <2>1. x \in Nat /\ y \in Nat /\ <<y, x>> \notin Less
    BY <1>2
  <2> QED BY <2>1 DEF Less, OpToRel
<1> QED BY <1>3

LEMMA SetInduction ==
    ASSUME NEW T, 0 \in T, \A n \in Nat : n \in T => n + 1 \in T
    PROVE  \A n \in Nat : n \in T
<1> SUFFICES ASSUME Nat \ T # {} PROVE FALSE
  OBVIOUS
<1>1. PICK x \in Nat \ T : \A y \in Nat \ T : x <= y
  BY LeastOf
<1>2. x - 1 \in Nat /\ x - 1 \notin Nat \ T
  BY <1>1
<1> QED BY <1>1, <1>2

LEMMA GreatestOf ==
    ASSUME NEW n \in Nat, NEW T \in SUBSET (0 .. n), T # {}
    PROVE  \E x \in T : \A y \in T : y <= x
<1> DEFINE U == {k \in Nat : n - k \in T}
<1>1. U # {}
  <2>1. PICK y \in T : TRUE
    OBVIOUS
  <2>2. n - y \in U
    BY <2>1
  <2> QED BY <2>2
<1>2. PICK k \in U : \A j \in U : k <= j
  BY <1>1, LeastOf
<1>3. ASSUME NEW y \in T PROVE y <= n - k
  <2>1. n - y \in U /\ y \in Nat /\ k \in Nat
    OBVIOUS
  <2> QED BY <1>2, <2>1
<1> QED BY <1>2, <1>3

\* Min and Max give them.
LEMMA MinOf ==
    ASSUME NEW T \in SUBSET Nat, T # {}
    PROVE  Min(T) \in T /\ \A y \in T : Min(T) <= y
BY LeastOf DEF Min

LEMMA MaxOf ==
    ASSUME NEW n \in Nat, NEW T \in SUBSET (0 .. n), T # {}
    PROVE  Max(T) \in T /\ \A y \in T : y <= Max(T)
BY GreatestOf DEF Max

\* Finitely many integers have a least and a greatest one.
LEMMA Extremes ==
    ASSUME NEW n \in Nat, n > 0, NEW f \in [1 .. n -> Int]
    PROVE  \E lo, hi \in 1 .. n : \A i \in 1 .. n : f[lo] <= f[i] /\ f[i] <= f[hi]
<1> DEFINE T == {k \in Nat : k + 1 \in 1 .. n =>
                     \E lo, hi \in 1 .. k + 1 :
                         \A i \in 1 .. k + 1 : f[lo] <= f[i] /\ f[i] <= f[hi]}
<1>1. 0 \in T
  <2>1. 1 \in 1 .. 0 + 1 /\ \A i \in 1 .. 0 + 1 : i = 1
    OBVIOUS
  <2>2. 0 + 1 \in 1 .. n => f[1] \in Int
    OBVIOUS
  <2> QED BY <2>1, <2>2
<1>2. ASSUME NEW k \in Nat, k \in T PROVE k + 1 \in T
  <2> SUFFICES ASSUME (k + 1) + 1 \in 1 .. n
               PROVE  \E lo, hi \in 1 .. (k + 1) + 1 :
                         \A i \in 1 .. (k + 1) + 1 : f[lo] <= f[i] /\ f[i] <= f[hi]
    OBVIOUS
  <2>1. k + 1 \in 1 .. n
    OBVIOUS
  <2>2. PICK lo, hi \in 1 .. k + 1 : \A i \in 1 .. k + 1 : f[lo] <= f[i] /\ f[i] <= f[hi]
    BY <1>2, <2>1
  <2> DEFINE m == k + 2
             a == IF f[m] <= f[lo] THEN m ELSE lo
             b == IF f[hi] <= f[m] THEN m ELSE hi
  <2>3. /\ m \in 1 .. n /\ (k + 1) + 1 = m /\ 1 .. k + 1 \subseteq 1 .. n
        /\ \A i \in 1 .. m : i = m \/ i \in 1 .. k + 1
    OBVIOUS
  <2>4. f[m] \in Int /\ f[lo] \in Int /\ f[hi] \in Int /\ \A i \in 1 .. k + 1 : f[i] \in Int
    BY <2>3
  <2>5. a \in 1 .. m /\ b \in 1 .. m
    OBVIOUS
  <2> HIDE DEF m
  <2>6. \A i \in 1 .. m : f[a] <= f[i] /\ f[i] <= f[b]
    BY <2>2, <2>3, <2>4
  <2> QED BY <2>3, <2>5, <2>6
<1>3. \A k \in Nat : k \in T
  <2> HIDE DEF T
  <2> QED BY <1>1, <1>2, SetInduction
<1>4. n - 1 \in T /\ (n - 1) + 1 = n /\ n \in 1 .. n
  <2> HIDE DEF T
  <2> QED BY <1>3
<1> QED BY <1>4

LEMMA ToSetConcat ==
    ASSUME NEW S, NEW s \in Seq(S), NEW t \in Seq(S)
    PROVE  ToSet(s \o t) = ToSet(s) \cup ToSet(t)
<1>1. /\ Len(s) \in Nat /\ Len(t) \in Nat
      /\ DOMAIN s = 1 .. Len(s) /\ DOMAIN t = 1 .. Len(t)
      /\ DOMAIN (s \o t) = 1 .. Len(s) + Len(t)
  OBVIOUS
<1>2. \A i \in 1 .. Len(s) : i \in DOMAIN (s \o t) /\ (s \o t)[i] = s[i]
  OBVIOUS
<1>3. \A i \in 1 .. Len(t) : Len(s) + i \in DOMAIN (s \o t) /\ (s \o t)[Len(s) + i] = t[i]
  OBVIOUS
<1>4. ASSUME NEW i \in DOMAIN (s \o t)
      PROVE  i \in 1 .. Len(s) \/ (i - Len(s) \in 1 .. Len(t) /\ i = Len(s) + (i - Len(s)))
  BY <1>1
<1>5. ASSUME NEW x \in ToSet(s \o t) PROVE x \in ToSet(s) \cup ToSet(t)
  <2>1. PICK i \in DOMAIN (s \o t) : x = (s \o t)[i]
    BY DEF ToSet
  <2>2. CASE i \in 1 .. Len(s)
    BY <1>1, <1>2, <2>1, <2>2 DEF ToSet
  <2>3. CASE i - Len(s) \in 1 .. Len(t) /\ i = Len(s) + (i - Len(s))
    <3> DEFINE j == i - Len(s)
    <3>1. j \in 1 .. Len(t) /\ i = Len(s) + j
      BY <2>3
    <3> HIDE DEF j
    <3>2. x = t[j]
      BY <1>3, <2>1, <3>1
    <3> QED BY <1>1, <3>1, <3>2 DEF ToSet
  <2> QED BY <1>4, <2>2, <2>3
<1>6. \A x \in ToSet(s) : x \in ToSet(s \o t)
  BY <1>1, <1>2 DEF ToSet
<1>7. \A x \in ToSet(t) : x \in ToSet(s \o t)
  BY <1>1, <1>3 DEF ToSet
<1> QED BY <1>5, <1>6, <1>7

-----------------------------------------------------------------------------
\* FlattenSeq is what its recursion says.
Flattens(ss, f, n) ==
    f = [i \in 1 .. n |-> IF i = 1 THEN ss[i] ELSE f[i - 1] \o ss[i]]

LEMMA FlatteningExists ==
    ASSUME NEW ss
    PROVE  \A n \in Nat : \E f : Flattens(ss, f, n)
<1> DEFINE T == {n \in Nat : \E f : Flattens(ss, f, n)}
<1>1. 0 \in T
  <2>1. Flattens(ss, [i \in 1 .. 0 |-> 0], 0)
    BY DEF Flattens
  <2> QED BY <2>1
<1>2. ASSUME NEW n \in Nat, n \in T PROVE n + 1 \in T
  <2>1. PICK f : Flattens(ss, f, n)
    BY <1>2
  <2> DEFINE last == IF n = 0 THEN ss[1] ELSE f[n] \o ss[n + 1]
             g == [i \in 1 .. n + 1 |-> IF i = n + 1 THEN last ELSE f[i]]
  <2>2. ASSUME NEW i \in 1 .. n + 1
        PROVE  g[i] = IF i = 1 THEN ss[i] ELSE g[i - 1] \o ss[i]
    <3>1. CASE i = n + 1
      <4>1. CASE n = 0
        BY <3>1, <4>1
      <4>2. CASE n # 0
        <5>1. n \in 1 .. n + 1 /\ n # n + 1 /\ i # 1 /\ i - 1 = n
          BY <3>1, <4>2
        <5>2. g[n] = f[n] /\ g[n + 1] = last
          <6> HIDE DEF last
          <6> QED BY <3>1, <5>1
        <5>3. last = f[n] \o ss[n + 1]
          BY <4>2
        <5> HIDE DEF g, last
        <5> QED BY <3>1, <5>1, <5>2, <5>3
      <4> QED BY <4>1, <4>2
    <3>2. CASE i # n + 1
      <4>1. i \in 1 .. n /\ g[i] = f[i]
        BY <3>2
      <4>2. f[i] = IF i = 1 THEN ss[i] ELSE f[i - 1] \o ss[i]
        BY <2>1, <4>1 DEF Flattens
      <4>3. i # 1 => g[i - 1] = f[i - 1]
        BY <4>1
      <4> QED BY <4>1, <4>2, <4>3
    <3> QED BY <3>1, <3>2
  <2>3. g = [i \in 1 .. n + 1 |-> IF i = 1 THEN ss[i] ELSE g[i - 1] \o ss[i]]
    <3> HIDE DEF last
    <3>1. g = [i \in 1 .. n + 1 |-> g[i]]
      OBVIOUS
    <3> HIDE DEF g
    <3> QED BY <2>2, <3>1
  <2> HIDE DEF g, last
  <2>4. Flattens(ss, g, n + 1)
    BY <2>3 DEF Flattens
  <2> QED BY <2>4
<1>3. \A n \in Nat : n \in T => n + 1 \in T
  BY <1>2
<1> HIDE DEF T
<1>4. \A n \in Nat : n \in T
  BY <1>1, <1>3, SetInduction
<1> QED BY <1>4 DEF T

LEMMA FlattenIsRecursive ==
    ASSUME NEW S, NEW ss \in Seq(Seq(S)), ss # <<>>
    PROVE  \E f \in [1 .. Len(ss) -> Seq(S)] :
              /\ FlattenSeq(ss) = f[Len(ss)]
              /\ f[1] = ss[1]
              /\ \A i \in 1 .. Len(ss) - 1 : f[i + 1] = f[i] \o ss[i + 1]
<1> DEFINE N == Len(ss)
           f == CHOOSE f : Flattens(ss, f, N)
<1>1. N \in Nat /\ N > 0 /\ DOMAIN ss = 1 .. N
  OBVIOUS
<1>2. Flattens(ss, f, N)
  BY <1>1, FlatteningExists
<1>3. FlattenSeq(ss) = f[N]
  BY <1>1 DEF FlattenSeq, Flattens
<1> HIDE DEF f, N
<1>4. f = [i \in 1 .. N |-> f[i]]
  BY <1>2 DEF Flattens
<1>5. \A i \in 1 .. N : f[i] = IF i = 1 THEN ss[i] ELSE f[i - 1] \o ss[i]
  BY <1>2 DEF Flattens
<1>6. f[1] = ss[1]
  BY <1>1, <1>5
<1>7. \A i \in 1 .. N - 1 : f[i + 1] = f[i] \o ss[i + 1]
  <2> SUFFICES ASSUME NEW i \in 1 .. N - 1 PROVE f[i + 1] = f[i] \o ss[i + 1]
    OBVIOUS
  <2>1. i + 1 \in 1 .. N /\ i + 1 # 1 /\ (i + 1) - 1 = i
    BY <1>1
  <2> QED BY <1>5, <2>1
<1>8. \A i \in 1 .. N : ss[i] \in Seq(S)
  BY <1>1
<1> DEFINE T == {n \in Nat : n + 1 \in 1 .. N => f[n + 1] \in Seq(S)}
<1>9. 0 \in T
  BY <1>1, <1>6, <1>8
<1>10. ASSUME NEW n \in Nat, n \in T PROVE n + 1 \in T
  <2> SUFFICES ASSUME (n + 1) + 1 \in 1 .. N PROVE f[(n + 1) + 1] \in Seq(S)
    OBVIOUS
  <2>1. n + 1 \in 1 .. N - 1 /\ n + 1 \in 1 .. N
    BY <1>1
  <2>2. f[n + 1] \in Seq(S) /\ ss[(n + 1) + 1] \in Seq(S)
    BY <1>8, <1>10, <2>1
  <2>3. f[(n + 1) + 1] = f[n + 1] \o ss[(n + 1) + 1]
    BY <1>7, <2>1
  <2> QED BY <2>2, <2>3
<1>11. \A n \in Nat : n \in T
  <2> HIDE DEF T
  <2> QED BY <1>9, <1>10, SetInduction
<1>12. \A i \in 1 .. N : f[i] \in Seq(S)
  <2> SUFFICES ASSUME NEW i \in 1 .. N PROVE f[i] \in Seq(S)
    OBVIOUS
  <2>1. i - 1 \in Nat /\ (i - 1) + 1 = i
    BY <1>1
  <2>2. i - 1 \in T
    BY <1>11, <2>1
  <2> QED BY <2>1, <2>2
<1> HIDE DEF T
<1>13. f \in [1 .. N -> Seq(S)]
  BY <1>4, <1>12
<1> QED BY <1>3, <1>6, <1>7, <1>13 DEF N

\* t has each item of the first n sequences of ss once, and nothing else: its
\* item k is the one at col[k] of the sequence row[k].
Lays(ss, n, t, row, col) ==
    /\ \A k \in 1 .. Len(t) : /\ row[k] \in 1 .. n /\ col[k] \in 1 .. Len(ss[row[k]])
                              /\ t[k] = ss[row[k]][col[k]]
    /\ \A k, l \in 1 .. Len(t) : row[k] = row[l] /\ col[k] = col[l] => k = l
    /\ \A i \in 1 .. n : \A j \in 1 .. Len(ss[i]) :
          \E k \in 1 .. Len(t) : row[k] = i /\ col[k] = j

LEMMA LaysOneMore ==
    ASSUME NEW S, NEW ss \in Seq(Seq(S)), NEW n \in Nat, n + 1 \in 1 .. Len(ss),
           NEW t \in Seq(S), NEW row, NEW col, Lays(ss, n, t, row, col)
    PROVE  \E r, c : Lays(ss, n + 1, t \o ss[n + 1], r, c)
<1> DEFINE u == ss[n + 1]
           tu == t \o u
           m == Len(t)
           r == [k \in 1 .. m + Len(u) |-> IF k <= m THEN row[k] ELSE n + 1]
           c == [k \in 1 .. m + Len(u) |-> IF k <= m THEN col[k] ELSE k - m]
<1>1. u \in Seq(S) /\ Len(u) \in Nat /\ m \in Nat
  OBVIOUS
<1>2. /\ Len(tu) = m + Len(u)
      /\ \A k \in 1 .. m : k \in 1 .. Len(tu) /\ tu[k] = t[k] /\ r[k] = row[k] /\ c[k] = col[k]
      /\ \A k \in 1 .. Len(u) : /\ m + k \in 1 .. Len(tu) /\ tu[m + k] = u[k]
                                /\ r[m + k] = n + 1 /\ c[m + k] = k
  BY <1>1
<1>3. \A k \in 1 .. Len(tu) : k \in 1 .. m \/ (k - m \in 1 .. Len(u) /\ k = m + (k - m))
  BY <1>1, <1>2
<1>4. u = ss[n + 1]
  OBVIOUS
<1> HIDE DEF u, tu, m, r, c
<1>5. /\ \A k \in 1 .. m : /\ row[k] \in 1 .. n /\ col[k] \in 1 .. Len(ss[row[k]])
                           /\ t[k] = ss[row[k]][col[k]]
      /\ \A k, l \in 1 .. m : row[k] = row[l] /\ col[k] = col[l] => k = l
      /\ \A i \in 1 .. n : \A j \in 1 .. Len(ss[i]) :
            \E k \in 1 .. m : row[k] = i /\ col[k] = j
  BY DEF Lays, m
<1>6. ASSUME NEW k \in 1 .. Len(tu)
      PROVE  /\ r[k] \in 1 .. n + 1 /\ c[k] \in 1 .. Len(ss[r[k]])
             /\ tu[k] = ss[r[k]][c[k]]
  <2>1. CASE k \in 1 .. m
    <3>1. tu[k] = t[k] /\ r[k] = row[k] /\ c[k] = col[k]
      BY <1>2, <2>1
    <3>2. /\ row[k] \in 1 .. n /\ col[k] \in 1 .. Len(ss[row[k]])
          /\ t[k] = ss[row[k]][col[k]]
      BY <1>5, <2>1
    <3>3. row[k] \in 1 .. n + 1
      BY <3>2
    <3> QED BY <3>1, <3>2, <3>3
  <2>2. CASE k - m \in 1 .. Len(u) /\ k = m + (k - m)
    <3> DEFINE j == k - m
    <3>1. j \in 1 .. Len(u) /\ k = m + j
      BY <2>2
    <3> HIDE DEF j
    <3>2. tu[k] = u[j] /\ r[k] = n + 1 /\ c[k] = j
      BY <1>2, <3>1
    <3> QED BY <1>4, <3>1, <3>2
  <2> QED BY <1>3, <2>1, <2>2
<1>7. ASSUME NEW k \in 1 .. Len(tu), NEW l \in 1 .. Len(tu), r[k] = r[l], c[k] = c[l]
      PROVE  k = l
  <2>1. \A x \in 1 .. m : r[x] # n + 1
    BY <1>2, <1>5
  <2>2. \A x \in 1 .. Len(tu) : x \in 1 .. m \/ (r[x] = n + 1 /\ x = m + c[x])
    <3> SUFFICES ASSUME NEW x \in 1 .. Len(tu), x \notin 1 .. m
                 PROVE  r[x] = n + 1 /\ x = m + c[x]
      OBVIOUS
    <3> DEFINE j == x - m
    <3>1. j \in 1 .. Len(u) /\ x = m + j
      BY <1>3
    <3> HIDE DEF j
    <3> QED BY <1>2, <3>1
  <2>3. CASE k \in 1 .. m
    BY <1>2, <1>5, <1>7, <2>1, <2>2, <2>3
  <2>4. CASE k \notin 1 .. m
    BY <1>2, <1>5, <1>7, <2>1, <2>2, <2>4
  <2> QED BY <2>3, <2>4
<1>8. ASSUME NEW i \in 1 .. n + 1, NEW j \in 1 .. Len(ss[i])
      PROVE  \E k \in 1 .. Len(tu) : r[k] = i /\ c[k] = j
  <2>1. CASE i = n + 1
    BY <1>2, <1>4, <2>1
  <2>2. CASE i # n + 1
    <3>1. i \in 1 .. n
      BY <2>2
    <3>2. PICK k \in 1 .. m : row[k] = i /\ col[k] = j
      BY <1>5, <3>1
    <3> QED BY <1>2, <3>2
  <2> QED BY <2>1, <2>2
<1>9. Lays(ss, n + 1, tu, r, c)
  BY <1>6, <1>7, <1>8 DEF Lays
<1> QED BY <1>9 DEF tu, u

\* FlattenSeq keeps every item, once.
LEMMA FlattenLays ==
    ASSUME NEW S, NEW ss \in Seq(Seq(S))
    PROVE  /\ FlattenSeq(ss) \in Seq(S)
           /\ \E row, col : Lays(ss, Len(ss), FlattenSeq(ss), row, col)
<1>1. CASE ss = <<>>
  <2>1. FlattenSeq(ss) = <<>> /\ Len(ss) = 0
    BY <1>1 DEF FlattenSeq
  <2>2. Lays(ss, 0, <<>>, <<>>, <<>>)
    BY DEF Lays
  <2> QED BY <2>1, <2>2
<1>2. CASE ss # <<>>
  <2> DEFINE N == Len(ss)
  <2>1. PICK f \in [1 .. N -> Seq(S)] :
              /\ FlattenSeq(ss) = f[N]
              /\ f[1] = ss[1]
              /\ \A i \in 1 .. N - 1 : f[i + 1] = f[i] \o ss[i + 1]
    BY <1>2, FlattenIsRecursive
  <2>2. N \in Nat /\ N > 0 /\ ss[1] \in Seq(S) /\ Len(ss[1]) \in Nat
    BY <1>2
  <2> DEFINE T == {n \in Nat : n + 1 \in 1 .. N =>
                                 \E row, col : Lays(ss, n + 1, f[n + 1], row, col)}
  <2>3. 0 \in T
    <3> DEFINE one == [k \in 1 .. Len(ss[1]) |-> 1]
               id == [k \in 1 .. Len(ss[1]) |-> k]
    <3>1. Lays(ss, 1, ss[1], one, id)
      BY <2>2 DEF Lays
    <3>2. 0 + 1 = 1
      OBVIOUS
    <3> QED BY <2>1, <3>1, <3>2
  <2>4. ASSUME NEW n \in Nat, n \in T PROVE n + 1 \in T
    <3> SUFFICES ASSUME (n + 1) + 1 \in 1 .. N
                 PROVE  \E row, col : Lays(ss, (n + 1) + 1, f[(n + 1) + 1], row, col)
      OBVIOUS
    <3>1. n + 1 \in 1 .. N - 1 /\ n + 1 \in 1 .. N /\ n + 1 \in Nat
      BY <2>2
    <3>2. PICK row, col : Lays(ss, n + 1, f[n + 1], row, col)
      BY <2>4, <3>1
    <3>3. f[n + 1] \in Seq(S)
      BY <2>1, <3>1
    <3>4. f[(n + 1) + 1] = f[n + 1] \o ss[(n + 1) + 1]
      BY <2>1, <3>1
    <3> HIDE DEF T
    <3> QED BY <3>1, <3>2, <3>3, <3>4, LaysOneMore
  <2>5. \A n \in Nat : n \in T
    <3> HIDE DEF T
    <3> QED BY <2>3, <2>4, SetInduction
  <2>6. N - 1 \in Nat /\ (N - 1) + 1 = N /\ N \in 1 .. N
    BY <2>2
  <2>7. \E row, col : Lays(ss, N, f[N], row, col)
    <3>1. N - 1 \in T
      BY <2>5, <2>6
    <3> HIDE DEF N
    <3> QED BY <2>6, <3>1
  <2>8. FlattenSeq(ss) = f[N]
    BY <2>1
  <2>9. f[N] \in Seq(S)
    BY <2>1, <2>6
  <2> HIDE DEF N
  <2>10. \E row, col : Lays(ss, N, FlattenSeq(ss), row, col)
    BY <2>7, <2>8
  <2> QED BY <2>8, <2>9, <2>10 DEF N
<1> QED BY <1>1, <1>2

-----------------------------------------------------------------------------
\* t has the items of s at the places K, once each: item k is at at[k].
Picks(s, K, t, at) ==
    /\ \A k \in 1 .. Len(t) : at[k] \in K /\ t[k] = s[at[k]]
    /\ \A k, l \in 1 .. Len(t) : at[k] = at[l] => k = l
    /\ \A i \in K : \E k \in 1 .. Len(t) : at[k] = i

LEMMA ThosePicks ==
    ASSUME NEW S, NEW s \in Seq(S), NEW K \in SUBSET DOMAIN s
    PROVE  Those(s, K) \in Seq(S) /\ \E at : Picks(s, K, Those(s, K), at)
<1> DEFINE ss == [i \in DOMAIN s |-> IF i \in K THEN <<s[i]>> ELSE <<>>]
           t == Those(s, K)
<1>1. DOMAIN s = 1 .. Len(s) /\ Len(s) \in Nat
  OBVIOUS
<1>2. ASSUME NEW i \in DOMAIN s PROVE ss[i] \in Seq(S)
  <2>1. s[i] \in S
    OBVIOUS
  <2> QED BY <2>1
<1>3. ss \in Seq(Seq(S)) /\ Len(ss) = Len(s)
  <2>1. ss \in [1 .. Len(s) -> Seq(S)]
    BY <1>1, <1>2
  <2> HIDE DEF ss
  <2> QED BY <1>1, <2>1
<1>4. \A i \in DOMAIN s : /\ i \in K => Len(ss[i]) = 1 /\ ss[i][1] = s[i]
                          /\ i \notin K => Len(ss[i]) = 0
  OBVIOUS
<1>5. t = FlattenSeq(ss)
  BY DEF Those
<1> HIDE DEF ss, t
<1>6. PICK row, col : Lays(ss, Len(ss), t, row, col)
  BY <1>3, <1>5, FlattenLays
<1>7. t \in Seq(S)
  BY <1>3, <1>5, FlattenLays
<1>8. ASSUME NEW k \in 1 .. Len(t)
      PROVE  row[k] \in K /\ col[k] = 1 /\ t[k] = s[row[k]]
  <2>1. /\ row[k] \in DOMAIN s /\ col[k] \in 1 .. Len(ss[row[k]])
        /\ t[k] = ss[row[k]][col[k]]
    BY <1>1, <1>3, <1>6 DEF Lays
  <2>2. CASE row[k] \in K
    BY <1>4, <2>1, <2>2
  <2>3. CASE row[k] \notin K
    BY <1>4, <2>1, <2>3
  <2> QED BY <2>2, <2>3
<1>9. \A k, l \in 1 .. Len(t) : row[k] = row[l] => k = l
  BY <1>6, <1>8 DEF Lays
<1>10. ASSUME NEW i \in K PROVE \E k \in 1 .. Len(t) : row[k] = i
  <2>1. i \in 1 .. Len(ss) /\ 1 \in 1 .. Len(ss[i])
    BY <1>1, <1>3, <1>4
  <2> QED BY <1>6, <2>1 DEF Lays
<1>11. Picks(s, K, t, row)
  BY <1>8, <1>9, <1>10 DEF Picks
<1> QED BY <1>7, <1>11 DEF t

LEMMA PicksConcat ==
    ASSUME NEW S, NEW t \in Seq(S), NEW u \in Seq(S), NEW s, NEW K, NEW L, NEW at, NEW bt,
           Picks(s, K, t, at), Picks(s, L, u, bt), K \cap L = {}
    PROVE  \E ct : Picks(s, K \cup L, t \o u, ct)
<1> DEFINE m == Len(t)
           tu == t \o u
           ct == [k \in 1 .. m + Len(u) |-> IF k <= m THEN at[k] ELSE bt[k - m]]
<1>1. Len(u) \in Nat /\ m \in Nat
  OBVIOUS
<1>2. /\ Len(tu) = m + Len(u)
      /\ \A k \in 1 .. m : k \in 1 .. Len(tu) /\ tu[k] = t[k] /\ ct[k] = at[k]
      /\ \A k \in 1 .. Len(u) : m + k \in 1 .. Len(tu) /\ tu[m + k] = u[k] /\ ct[m + k] = bt[k]
  BY <1>1
<1>3. \A k \in 1 .. Len(tu) : \/ k \in 1 .. m
                              \/ \E j \in 1 .. Len(u) : k = m + j
  <2> SUFFICES ASSUME NEW k \in 1 .. Len(tu), k \notin 1 .. m
               PROVE  k - m \in 1 .. Len(u) /\ k = m + (k - m)
    OBVIOUS
  <2> QED BY <1>1, <1>2
<1>4. /\ \A k \in 1 .. m : at[k] \in K /\ t[k] = s[at[k]]
      /\ \A k, l \in 1 .. m : at[k] = at[l] => k = l
      /\ \A i \in K : \E k \in 1 .. m : at[k] = i
  BY DEF Picks, m
<1>5. /\ \A k \in 1 .. Len(u) : bt[k] \in L /\ u[k] = s[bt[k]]
      /\ \A k, l \in 1 .. Len(u) : bt[k] = bt[l] => k = l
      /\ \A i \in L : \E k \in 1 .. Len(u) : bt[k] = i
  BY DEF Picks
<1> HIDE DEF tu, m, ct
<1>6. ASSUME NEW k \in 1 .. Len(tu) PROVE ct[k] \in K \cup L /\ tu[k] = s[ct[k]]
  <2>1. CASE k \in 1 .. m
    <3>1. ct[k] = at[k] /\ tu[k] = t[k] /\ at[k] \in K /\ t[k] = s[at[k]]
      BY <1>2, <1>4, <2>1
    <3> QED BY <3>1
  <2>2. CASE \E j \in 1 .. Len(u) : k = m + j
    <3>1. PICK j \in 1 .. Len(u) : k = m + j
      BY <2>2
    <3>2. ct[k] = bt[j] /\ tu[k] = u[j] /\ bt[j] \in L /\ u[j] = s[bt[j]]
      BY <1>2, <1>5, <3>1
    <3> QED BY <3>2
  <2> QED BY <1>3, <2>1, <2>2
<1>7. ASSUME NEW k \in 1 .. Len(tu), NEW l \in 1 .. Len(tu), ct[k] = ct[l] PROVE k = l
  <2>1. \A x \in 1 .. m : ct[x] = at[x] /\ at[x] \in K
    BY <1>2, <1>4
  <2>2. \A x \in 1 .. Len(u) : ct[m + x] = bt[x] /\ bt[x] \in L
    BY <1>2, <1>5
  <2>3. CASE k \in 1 .. m /\ l \in 1 .. m
    BY <1>4, <1>7, <2>1, <2>3
  <2>4. CASE (\E i \in 1 .. Len(u) : k = m + i) /\ \E j \in 1 .. Len(u) : l = m + j
    <3>1. PICK i \in 1 .. Len(u) : k = m + i
      BY <2>4
    <3>2. PICK j \in 1 .. Len(u) : l = m + j
      BY <2>4
    <3>3. bt[i] = bt[j]
      BY <1>7, <2>2, <3>1, <3>2
    <3> QED BY <1>5, <3>1, <3>2, <3>3
  <2>5. CASE k \in 1 .. m /\ \E j \in 1 .. Len(u) : l = m + j
    <3>1. ct[k] \in K /\ ct[l] \in L
      BY <2>1, <2>2, <2>5
    <3> QED BY <1>7, <3>1
  <2>6. CASE l \in 1 .. m /\ \E j \in 1 .. Len(u) : k = m + j
    <3>1. ct[l] \in K /\ ct[k] \in L
      BY <2>1, <2>2, <2>6
    <3> QED BY <1>7, <3>1
  <2> QED BY <1>3, <2>3, <2>4, <2>5, <2>6
<1>8. ASSUME NEW i \in K \cup L PROVE \E k \in 1 .. Len(tu) : ct[k] = i
  <2>1. CASE i \in K
    <3>1. PICK k \in 1 .. m : at[k] = i
      BY <1>4, <2>1
    <3> QED BY <1>2, <3>1
  <2>2. CASE i \in L
    <3>1. PICK k \in 1 .. Len(u) : bt[k] = i
      BY <1>5, <2>2
    <3> QED BY <1>2, <3>1
  <2> QED BY <2>1, <2>2
<1>9. Picks(s, K \cup L, tu, ct)
  BY <1>6, <1>7, <1>8 DEF Picks
<1> QED BY <1>9 DEF tu

\* Rows that pick from places of their own pick, one after the other, from all
\* of these places.
LEMMA FlattenPicks ==
    ASSUME NEW S, NEW ss \in Seq(Seq(S)), NEW s, NEW K,
           \A i \in 1 .. Len(ss) : \E at : Picks(s, K[i], ss[i], at),
           \A i, j \in 1 .. Len(ss) : i # j => K[i] \cap K[j] = {}
    PROVE  \E at : Picks(s, UNION {K[i] : i \in 1 .. Len(ss)}, FlattenSeq(ss), at)
<1> DEFINE t == FlattenSeq(ss)
           all == UNION {K[i] : i \in 1 .. Len(ss)}
           of == [i \in 1 .. Len(ss) |-> CHOOSE at : Picks(s, K[i], ss[i], at)]
<1>1. PICK row, col : Lays(ss, Len(ss), t, row, col)
  BY FlattenLays
<1>2. \A i \in 1 .. Len(ss) : Picks(s, K[i], ss[i], of[i])
  OBVIOUS
<1>3. t \in Seq(S)
  BY FlattenLays
<1> DEFINE at == [k \in 1 .. Len(t) |-> of[row[k]][col[k]]]
<1>4. \A k \in 1 .. Len(t) : at[k] = of[row[k]][col[k]]
  OBVIOUS
<1>5. \A i \in 1 .. Len(ss) : K[i] \subseteq all
  OBVIOUS
<1>6. \A x \in all : \E i \in 1 .. Len(ss) : x \in K[i]
  OBVIOUS
<1> HIDE DEF t, all, of, at
<1>7. ASSUME NEW k \in 1 .. Len(t)
      PROVE  at[k] \in K[row[k]] /\ at[k] \in all /\ t[k] = s[at[k]]
  <2>1. row[k] \in 1 .. Len(ss) /\ col[k] \in 1 .. Len(ss[row[k]]) /\ t[k] = ss[row[k]][col[k]]
    BY <1>1 DEF Lays
  <2>2. Picks(s, K[row[k]], ss[row[k]], of[row[k]])
    BY <1>2, <2>1
  <2>3. /\ of[row[k]][col[k]] \in K[row[k]]
        /\ ss[row[k]][col[k]] = s[of[row[k]][col[k]]]
    BY <2>1, <2>2 DEF Picks
  <2>4. at[k] = of[row[k]][col[k]]
    BY <1>4
  <2> QED BY <1>5, <2>1, <2>3, <2>4
<1>8. ASSUME NEW k \in 1 .. Len(t), NEW l \in 1 .. Len(t), at[k] = at[l] PROVE k = l
  <2>1. /\ row[k] \in 1 .. Len(ss) /\ col[k] \in 1 .. Len(ss[row[k]])
        /\ row[l] \in 1 .. Len(ss) /\ col[l] \in 1 .. Len(ss[row[l]])
    BY <1>1 DEF Lays
  <2>2. row[k] = row[l]
    BY <1>7, <1>8, <2>1
  <2>3. Picks(s, K[row[k]], ss[row[k]], of[row[k]])
    BY <1>2, <2>1
  <2>4. of[row[k]][col[k]] = of[row[k]][col[l]]
    BY <1>4, <1>8, <2>2
  <2>5. col[k] = col[l]
    BY <2>1, <2>2, <2>3, <2>4 DEF Picks
  <2> QED BY <1>1, <2>2, <2>5 DEF Lays
<1>9. ASSUME NEW x \in all PROVE \E k \in 1 .. Len(t) : at[k] = x
  <2>1. PICK i \in 1 .. Len(ss) : x \in K[i]
    BY <1>6
  <2>2. PICK j \in 1 .. Len(ss[i]) : of[i][j] = x
    <3>1. Picks(s, K[i], ss[i], of[i])
      BY <1>2, <2>1
    <3> QED BY <2>1, <3>1 DEF Picks
  <2>3. PICK k \in 1 .. Len(t) : row[k] = i /\ col[k] = j
    BY <1>1 DEF Lays
  <2> QED BY <1>4, <2>2, <2>3
<1>10. Picks(s, all, t, at)
  BY <1>7, <1>8, <1>9 DEF Picks
<1> QED BY <1>10 DEF t, all

\* Picking twice.
ValuesAt(at, L) == {at[j] : j \in L}

LEMMA PicksCompose ==
    ASSUME NEW s, NEW K, NEW t, NEW L, NEW u, NEW at, NEW bt,
           Picks(s, K, t, at), Picks(t, L, u, bt), L \subseteq 1 .. Len(t)
    PROVE  \E ct : Picks(s, ValuesAt(at, L), u, ct)
<1> DEFINE ct == [k \in 1 .. Len(u) |-> at[bt[k]]]
           M == ValuesAt(at, L)
<1>1. \A k \in 1 .. Len(u) : bt[k] \in L /\ bt[k] \in 1 .. Len(t) /\ u[k] = t[bt[k]]
  BY DEF Picks
<1>2. \A k \in 1 .. Len(u) : ct[k] = at[bt[k]]
  OBVIOUS
<1>3. \A j \in L : at[j] \in M
  BY DEF ValuesAt
<1>4. \A x \in M : \E j \in L : at[j] = x
  BY DEF ValuesAt
<1> HIDE DEF ct, M
<1>5. \A j \in 1 .. Len(t) : t[j] = s[at[j]]
  BY DEF Picks
<1>6. \A k \in 1 .. Len(u) : ct[k] \in M /\ u[k] = s[ct[k]]
  BY <1>1, <1>2, <1>3, <1>5
<1>7. ASSUME NEW k \in 1 .. Len(u), NEW l \in 1 .. Len(u), ct[k] = ct[l] PROVE k = l
  <2>1. bt[k] = bt[l]
    <3>1. bt[k] \in 1 .. Len(t) /\ bt[l] \in 1 .. Len(t) /\ at[bt[k]] = at[bt[l]]
      BY <1>1, <1>2, <1>7
    <3> QED BY <3>1 DEF Picks
  <2> QED BY <2>1 DEF Picks
<1>8. ASSUME NEW x \in M PROVE \E k \in 1 .. Len(u) : ct[k] = x
  <2>1. PICK j \in L : at[j] = x
    BY <1>4
  <2>2. PICK k \in 1 .. Len(u) : bt[k] = j
    BY DEF Picks
  <2> QED BY <1>2, <2>1, <2>2
<1>9. Picks(s, M, u, ct)
  BY <1>6, <1>7, <1>8 DEF Picks
<1> QED BY <1>9 DEF M

\* What is picked from t is picked from s \o t, behind the items of s.
Behind(n, K) == {n + i : i \in K}

LEMMA PicksBehind ==
    ASSUME NEW S, NEW s \in Seq(S), NEW t \in Seq(S), NEW K \in SUBSET (1 .. Len(t)),
           NEW u, NEW at, Picks(t, K, u, at)
    PROVE  \E bt : Picks(s \o t, Behind(Len(s), K), u, bt)
<1>1. Len(s) \in Nat /\ Len(t) \in Nat
  OBVIOUS
<1>2. \A i \in 1 .. Len(t) : (s \o t)[Len(s) + i] = t[i]
  BY <1>1
<1> DEFINE st == s \o t
           bt == [k \in 1 .. Len(u) |-> Len(s) + at[k]]
           n == Len(s)
<1>3. \A k \in 1 .. Len(u) : at[k] \in K /\ at[k] \in Nat /\ bt[k] = n + at[k] /\ u[k] = t[at[k]]
  <2>1. \A k \in 1 .. Len(u) : at[k] \in K /\ u[k] = t[at[k]]
    BY DEF Picks
  <2>2. K \subseteq Nat
    OBVIOUS
  <2> QED BY <2>1, <2>2
<1>4. \A k, l \in 1 .. Len(u) : at[k] = at[l] => k = l
  BY DEF Picks
<1>5. \A i \in K : \E k \in 1 .. Len(u) : at[k] = i
  BY DEF Picks
<1>6. n \in Nat /\ \A i \in K : st[n + i] = t[i]
  BY <1>1, <1>2
<1> DEFINE M == Behind(n, K)
<1>7. \A i \in K : n + i \in M
  BY DEF Behind
<1>8. \A x \in M : \E i \in K : x = n + i
  BY DEF Behind
<1> HIDE DEF bt, n, st, M
<1>9. ASSUME NEW k \in 1 .. Len(u), NEW l \in 1 .. Len(u), bt[k] = bt[l] PROVE k = l
  <2>1. /\ at[k] \in Nat /\ at[l] \in Nat
        /\ bt[k] = n + at[k] /\ bt[l] = n + at[l]
    BY <1>3
  <2>2. n + at[k] = n + at[l] /\ n \in Nat
    BY <1>6, <1>9, <2>1
  <2>3. at[k] = at[l]
    BY <2>1, <2>2
  <2> QED BY <1>4, <2>3
<1>10. ASSUME NEW k \in 1 .. Len(u) PROVE bt[k] \in M /\ u[k] = st[bt[k]]
  <2>1. at[k] \in K /\ bt[k] = n + at[k] /\ u[k] = t[at[k]]
    BY <1>3
  <2>2. n + at[k] \in M
    BY <1>7, <2>1
  <2>3. st[n + at[k]] = t[at[k]]
    BY <1>6, <2>1
  <2> QED BY <2>1, <2>2, <2>3
<1>11. ASSUME NEW x \in M PROVE \E k \in 1 .. Len(u) : bt[k] = x
  <2>1. PICK i \in K : x = n + i
    BY <1>8
  <2>2. PICK k \in 1 .. Len(u) : at[k] = i
    BY <1>5
  <2> QED BY <1>3, <2>1, <2>2
<1>12. Picks(st, M, u, bt)
  BY <1>9, <1>10, <1>11 DEF Picks
<1> QED BY <1>12 DEF M, n, st
-----------------------------------------------------------------------------
LEMMA RankType ==
    ASSUME NEW p \in Files, NEW e \in EntryType
    PROVE  Rank(p, e) \in Int
<1>1. Day(e.d) \in Int
  BY DirectivesAssumption DEF EntryType, Day
<1>2. Order[p] \in {"ascending", "descending", "append"}
  BY ParametersAssumption
<1> QED BY <1>1, <1>2 DEF Rank

\* Sorting keeps every entry, once.
LEMMA SortedPicks ==
    ASSUME NEW p \in Files, NEW entries \in Seq(EntryType)
    PROVE  /\ Sorted(p, entries) \in Seq(EntryType)
           /\ \E at : Picks(entries, DOMAIN entries, Sorted(p, entries), at)
<1>1. CASE entries = <<>>
  <2>1. Sorted(p, entries) = <<>> /\ DOMAIN entries = {} /\ Len(entries) = 0
    BY <1>1 DEF Sorted
  <2>2. Picks(entries, {}, <<>>, <<>>)
    BY DEF Picks
  <2> QED BY <2>1, <2>2
<1>2. CASE entries # <<>>
  <2> DEFINE n == Len(entries)
             rank == [i \in 1 .. n |-> Rank(p, entries[i])]
             ranks == {Rank(p, e) : e \in ToSet(entries)}
             at(r) == {i \in DOMAIN entries : Rank(p, entries[i]) = Min(ranks) + r - 1}
             ss == [r \in 1 .. Max(ranks) - Min(ranks) + 1 |-> Those(entries, at(r))]
             K == [r \in 1 .. Max(ranks) - Min(ranks) + 1 |-> at(r)]
  <2>1. n \in Nat /\ n > 0 /\ DOMAIN entries = 1 .. n
    BY <1>2
  <2>2. \A i \in 1 .. n : entries[i] \in EntryType /\ rank[i] = Rank(p, entries[i])
    OBVIOUS
  <2>3. rank \in [1 .. n -> Int]
    BY <2>2, RankType
  <2>4. ranks = {rank[i] : i \in 1 .. n}
    BY <2>1 DEF ToSet
  <2>5. Sorted(p, entries) = FlattenSeq(ss)
    BY <1>2 DEF Sorted
  <2> HIDE DEF n, rank, ranks
  <2>6. PICK lo, hi \in 1 .. n : \A i \in 1 .. n : rank[lo] <= rank[i] /\ rank[i] <= rank[hi]
    BY <2>1, <2>3, Extremes
  <2>7. /\ Min(ranks) \in ranks /\ Max(ranks) \in ranks
        /\ \A x \in ranks : Min(ranks) <= x /\ x <= Max(ranks)
    <3>1. rank[lo] \in ranks /\ \A x \in ranks : rank[lo] <= x
      BY <2>4, <2>6
    <3>2. rank[hi] \in ranks /\ \A x \in ranks : x <= rank[hi]
      BY <2>4, <2>6
    <3> QED BY <3>1, <3>2 DEF Min, Max
  <2>8. ranks \subseteq Int
    BY <2>3, <2>4
  <2> DEFINE a == Min(ranks)
             z == Max(ranks)
             m == z - a + 1
  <2>9. a \in Int /\ z \in Int /\ a <= z /\ m \in Nat /\ m >= 1
    <3>1. a \in ranks /\ z \in ranks /\ a <= z
      BY <2>7
    <3>2. a \in Int /\ z \in Int
      BY <2>8, <3>1
    <3> HIDE DEF a, z
    <3> QED BY <3>1, <3>2
  <2>10. \A i \in 1 .. n : rank[i] - a + 1 \in 1 .. m /\ rank[i] = a + (rank[i] - a + 1) - 1
    <3> SUFFICES ASSUME NEW i \in 1 .. n
                 PROVE  rank[i] - a + 1 \in 1 .. m /\ rank[i] = a + (rank[i] - a + 1) - 1
      OBVIOUS
    <3>1. rank[i] \in Int /\ a <= rank[i] /\ rank[i] <= z
      BY <2>3, <2>4, <2>7
    <3> HIDE DEF a, z
    <3> QED BY <2>9, <3>1
  <2> HIDE DEF a, z
  <2>11. ASSUME NEW r \in 1 .. m
         PROVE  K[r] = {i \in 1 .. n : rank[i] = a + r - 1} /\ ss[r] = Those(entries, K[r])
    <3>1. K[r] = at(r) /\ ss[r] = Those(entries, at(r))
      <4> HIDE DEF at
      <4> QED BY DEF a, z
    <3>2. at(r) = {i \in 1 .. n : rank[i] = a + r - 1}
      BY <2>1, <2>2 DEF a
    <3> QED BY <3>1, <3>2
  <2>12. \A r \in 1 .. m : K[r] \in SUBSET DOMAIN entries
    BY <2>1, <2>11
  <2>13. ASSUME NEW r \in 1 .. m
         PROVE  ss[r] \in Seq(EntryType) /\ \E t : Picks(entries, K[r], ss[r], t)
    <3>1. K[r] \in SUBSET DOMAIN entries /\ ss[r] = Those(entries, K[r])
      BY <2>11, <2>12
    <3> HIDE DEF ss, K
    <3> QED BY <3>1, ThosePicks
  <2>14. DOMAIN ss = 1 .. m /\ ss = [r \in 1 .. m |-> ss[r]]
    BY DEF a, z
  <2> HIDE DEF ss, K, m
  <2>15. ss \in Seq(Seq(EntryType)) /\ Len(ss) = m
    <3>1. ss \in [1 .. m -> Seq(EntryType)]
      BY <2>13, <2>14
    <3> QED BY <2>9, <3>1
  <2>16. \A r, q \in 1 .. Len(ss) : r # q => K[r] \cap K[q] = {}
    <3> SUFFICES ASSUME NEW r \in 1 .. m, NEW q \in 1 .. m, NEW i \in K[r], i \in K[q]
                 PROVE  r = q
      BY <2>15
    <3>1. rank[i] = a + r - 1 /\ rank[i] = a + q - 1
      BY <2>11
    <3>2. r \in Int /\ q \in Int /\ a \in Int
      BY <2>9
    <3> QED BY <3>1, <3>2
  <2>17. UNION {K[r] : r \in 1 .. Len(ss)} = DOMAIN entries
    <3>1. ASSUME NEW i \in DOMAIN entries PROVE \E r \in 1 .. Len(ss) : i \in K[r]
      <4>1. i \in 1 .. n /\ rank[i] - a + 1 \in 1 .. m
        BY <2>1, <2>10
      <4>2. i \in K[rank[i] - a + 1]
        BY <2>10, <2>11, <4>1
      <4> QED BY <2>15, <4>1, <4>2
    <3>2. \A r \in 1 .. Len(ss) : K[r] \subseteq DOMAIN entries
      BY <2>12, <2>15
    <3> QED BY <3>1, <3>2
  <2>18. \E t : Picks(entries, UNION {K[r] : r \in 1 .. Len(ss)}, FlattenSeq(ss), t)
    BY <2>13, <2>15, <2>16, FlattenPicks
  <2>19. FlattenSeq(ss) \in Seq(EntryType)
    BY <2>15, FlattenLays
  <2> QED BY <2>5, <2>17, <2>18, <2>19
<1> QED BY <1>1, <1>2

LEMMA TargetOffsetType ==
    ASSUME NEW p \in Files, NEW file \in Seq(EntryType), NEW e \in EntryType
    PROVE  TargetOffset(p, file, e) \in 0 .. Len(file)
<1> DEFINE active == ActivePlaces(file)
           before == {i \in active : Rank(p, file[i]) <= Rank(p, e)}
<1>1. Len(file) \in Nat /\ DOMAIN file = 1 .. Len(file)
  OBVIOUS
<1>2. active \subseteq 1 .. Len(file) /\ before \subseteq active
  BY <1>1 DEF ActivePlaces
<1>3. TargetOffset(p, file, e) =
        IF Order[p] = "append" \/ active = {} THEN Len(file)
        ELSE IF before = {} THEN Min(active) - 1 ELSE Max(before)
  BY DEF TargetOffset
<1> HIDE DEF active, before
<1>4. CASE Order[p] = "append" \/ active = {}
  BY <1>1, <1>3, <1>4
<1>5. CASE ~(Order[p] = "append" \/ active = {}) /\ before = {}
  <2>1. active \in SUBSET Nat /\ active # {}
    BY <1>2, <1>5
  <2>2. Min(active) \in 1 .. Len(file)
    BY <1>2, <2>1, MinOf
  <2> QED BY <1>1, <1>3, <1>5, <2>2
<1>6. CASE ~(Order[p] = "append" \/ active = {}) /\ before # {}
  <2>1. before \in SUBSET (0 .. Len(file))
    BY <1>1, <1>2
  <2>2. Max(before) \in 0 .. Len(file)
    BY <1>1, <1>6, <2>1, MaxOf
  <2> QED BY <1>3, <1>6, <2>2
<1> QED BY <1>4, <1>5, <1>6

\* A merged file (existing.go's mergeExistingFile) has the entries of the file and
\* the insertions, each exactly once, whatever order the file is kept in.
THEOREM MergedPicks ==
    ASSUME NEW p \in Files, NEW file \in Seq(EntryType), NEW inserts \in Seq(EntryType)
    PROVE  /\ Merged(p, file, inserts) \in Seq(EntryType)
           /\ \E at : Picks(file \o inserts, DOMAIN (file \o inserts),
                            Merged(p, file, inserts), at)
<1> DEFINE new == Sorted(p, inserts)
           n == Len(file)
           all == file \o inserts
           behind(i) == {j \in DOMAIN new : TargetOffset(p, file, new[j]) = i}
           ss == [i \in DOMAIN file |-> <<file[i]>> \o Those(new, behind(i))]
<1>1. new \in Seq(EntryType)
  BY SortedPicks
<1>2. PICK at : Picks(inserts, DOMAIN inserts, new, at)
  BY SortedPicks
<1>3. n \in Nat /\ DOMAIN file = 1 .. n /\ all \in Seq(EntryType) /\ Len(inserts) \in Nat
      /\ DOMAIN inserts = 1 .. Len(inserts) /\ Len(all) = n + Len(inserts)
      /\ DOMAIN all = 1 .. n + Len(inserts)
      /\ \A i \in 1 .. n : file[i] \in EntryType /\ all[i] = file[i]
  OBVIOUS
<1>4. Merged(p, file, inserts) = Those(new, behind(0)) \o FlattenSeq(ss)
  BY DEF Merged
<1> DEFINE M == [i \in 0 .. n |-> {n + k : k \in {at[j] : j \in behind(i)}}]
           K == [i \in 1 .. n |-> {i} \cup M[i]]
<1>5. DOMAIN new = 1 .. Len(new) /\ Len(new) \in Nat
  BY <1>1
<1>6. \A j \in DOMAIN new : /\ at[j] \in 1 .. Len(inserts)
                            /\ TargetOffset(p, file, new[j]) \in 0 .. n
  <2> SUFFICES ASSUME NEW j \in DOMAIN new
               PROVE  at[j] \in 1 .. Len(inserts) /\ TargetOffset(p, file, new[j]) \in 0 .. n
    OBVIOUS
  <2>1. at[j] \in DOMAIN inserts
    BY <1>2, <1>5 DEF Picks
  <2>2. new[j] \in EntryType
    BY <1>1, <1>5
  <2> QED BY <1>3, <2>1, <2>2, TargetOffsetType
<1>7. ASSUME NEW i \in 0 .. n
      PROVE  /\ Those(new, behind(i)) \in Seq(EntryType)
             /\ \E t : Picks(all, M[i], Those(new, behind(i)), t)
  <2> DEFINE B == behind(i)
             L == {at[j] : j \in B}
  <2>1. B \in SUBSET DOMAIN new
    OBVIOUS
  <2>2. M[i] = Behind(n, L)
    BY DEF Behind
  <2>3. L \in SUBSET (1 .. Len(inserts))
    BY <1>6
  <2> HIDE DEF B, M
  <2>4. Those(new, B) \in Seq(EntryType)
    BY <1>1, <2>1, ThosePicks
  <2>5. PICK b : Picks(new, B, Those(new, B), b)
    BY <1>1, <2>1, ThosePicks
  <2>6. PICK c : Picks(inserts, L, Those(new, B), c)
    <3> DEFINE u == Those(new, B)
    <3>1. Picks(inserts, DOMAIN inserts, new, at) /\ Picks(new, B, u, b) /\ B \subseteq 1 .. Len(new)
      BY <1>2, <1>5, <2>1, <2>5
    <3>2. L = ValuesAt(at, B)
      BY DEF ValuesAt
    <3> HIDE DEF new, u, L
    <3>3. PICK c : Picks(inserts, ValuesAt(at, B), u, c)
      BY <3>1, PicksCompose
    <3> QED BY <3>2, <3>3 DEF u
  <2>7. PICK d : Picks(all, Behind(n, L), Those(new, B), d)
    <3> HIDE DEF new, L
    <3> QED BY <2>3, <2>6, PicksBehind
  <2>8. Picks(all, M[i], Those(new, B), d)
    BY <2>2, <2>7
  <2> QED BY <2>4, <2>8 DEF B
<1>8. ASSUME NEW i \in 0 .. n PROVE \A x \in M[i] : x \in n + 1 .. n + Len(inserts)
  <2>1. \A j \in behind(i) : j \in DOMAIN new
    OBVIOUS
  <2>2. ASSUME NEW x \in M[i] PROVE \E j \in DOMAIN new : x = n + at[j]
    BY <2>1
  <2> HIDE DEF M
  <2> QED BY <1>3, <1>6, <2>2
<1>9. ASSUME NEW i \in 0 .. n, NEW l \in 0 .. n, i # l PROVE M[i] \cap M[l] = {}
  <2> SUFFICES ASSUME NEW x \in M[i], x \in M[l] PROVE FALSE
    OBVIOUS
  <2>1. PICK j \in DOMAIN new : x = n + at[j] /\ TargetOffset(p, file, new[j]) = i
    OBVIOUS
  <2>2. PICK k \in DOMAIN new : x = n + at[k] /\ TargetOffset(p, file, new[k]) = l
    OBVIOUS
  <2>3. at[j] = at[k]
    BY <1>3, <1>6, <2>1, <2>2
  <2>4. j = k
    BY <1>2, <1>5, <2>3 DEF Picks
  <2> QED BY <1>9, <2>1, <2>2, <2>4
<1>10. ASSUME NEW k \in 1 .. Len(inserts) PROVE \E i \in 0 .. n : n + k \in M[i]
  <2>1. PICK j \in DOMAIN new : at[j] = k
    BY <1>2, <1>3, <1>5 DEF Picks
  <2>2. TargetOffset(p, file, new[j]) \in 0 .. n
    BY <1>6
  <2>3. j \in behind(TargetOffset(p, file, new[j]))
    OBVIOUS
  <2> QED BY <2>1, <2>2, <2>3
<1> HIDE DEF M
<1>11. ASSUME NEW i \in 1 .. n
       PROVE  /\ ss[i] \in Seq(EntryType)
              /\ \E t : Picks(all, K[i], ss[i], t)
  <2>1. Picks(all, {i}, <<file[i]>>, <<i>>)
    BY <1>3 DEF Picks
  <2>2. i \in 0 .. n
    OBVIOUS
  <2>3. PICK t : Picks(all, M[i], Those(new, behind(i)), t)
    BY <1>7, <2>2
  <2>4. Those(new, behind(i)) \in Seq(EntryType)
    BY <1>7, <2>2
  <2>5. {i} \cap M[i] = {}
    BY <1>3, <1>8, <2>2
  <2>6. <<file[i]>> \in Seq(EntryType)
    BY <1>3
  <2>7. K[i] = {i} \cup M[i] /\ ss[i] = <<file[i]>> \o Those(new, behind(i))
    BY <1>3
  <2> DEFINE u == Those(new, behind(i))
             f == <<file[i]>>
  <2>8. f \in Seq(EntryType) /\ u \in Seq(EntryType) /\ Picks(all, {i}, f, <<i>>) /\ Picks(all, M[i], u, t)
    BY <2>1, <2>3, <2>4, <2>6
  <2> HIDE DEF u, f, all
  <2>9. \E ct : Picks(all, {i} \cup M[i], f \o u, ct)
    BY <2>5, <2>8, PicksConcat
  <2>10. f \o u \in Seq(EntryType)
    BY <2>8
  <2> QED BY <2>7, <2>9, <2>10 DEF f, u
<1>12. ss \in Seq(Seq(EntryType)) /\ Len(ss) = n /\ DOMAIN K = 1 .. n
  <2>1. DOMAIN ss = 1 .. n /\ ss = [i \in 1 .. n |-> ss[i]]
    BY <1>3
  <2> HIDE DEF ss
  <2>2. ss \in [1 .. n -> Seq(EntryType)]
    BY <1>11, <2>1
  <2> QED BY <1>3, <2>2
<1>13. \A i \in 1 .. n : K[i] = {i} \cup M[i]
  OBVIOUS
<1> HIDE DEF K
<1>14. \A i, l \in 1 .. Len(ss) : i # l => K[i] \cap K[l] = {}
  <2> SUFFICES ASSUME NEW i \in 1 .. n, NEW l \in 1 .. n, i # l, NEW x \in K[i], x \in K[l]
               PROVE  FALSE
    BY <1>12
  <2>1. i \in 0 .. n /\ l \in 0 .. n
    OBVIOUS
  <2>2. M[i] \cap M[l] = {}
    BY <1>9, <2>1
  <2>3. i \notin M[l] /\ l \notin M[i]
    BY <1>3, <1>8, <2>1
  <2> QED BY <1>13, <2>2, <2>3
<1> DEFINE rest == UNION {K[i] : i \in 1 .. Len(ss)}
<1>15. PICK t : Picks(all, rest, FlattenSeq(ss), t)
  <2> HIDE DEF ss
  <2> QED BY <1>11, <1>12, <1>14, FlattenPicks
<1>16. FlattenSeq(ss) \in Seq(EntryType)
  BY <1>12, FlattenLays
<1>17. 0 \in 0 .. n
  BY <1>3
<1>18. M[0] \cap rest = {}
  <2> SUFFICES ASSUME NEW i \in 1 .. n, NEW x \in K[i], x \in M[0] PROVE FALSE
    BY <1>12
  <2>1. i \in 0 .. n /\ i # 0
    OBVIOUS
  <2>2. M[0] \cap M[i] = {} /\ i \notin M[0]
    BY <1>3, <1>8, <1>9, <1>17, <2>1
  <2> QED BY <1>13, <2>2
<1>19. M[0] \cup rest = DOMAIN all
  <2>1. ASSUME NEW x \in DOMAIN all PROVE x \in M[0] \cup rest
    <3>1. CASE x \in 1 .. n
      BY <1>12, <1>13, <3>1
    <3>2. CASE x \notin 1 .. n
      <4>1. x - n \in 1 .. Len(inserts) /\ n + (x - n) = x
        BY <1>3, <3>2
      <4>2. PICK i \in 0 .. n : x \in M[i]
        BY <1>10, <4>1
      <4>3. CASE i = 0
        BY <4>2, <4>3
      <4>4. CASE i # 0
        <5>1. i \in 1 .. n
          BY <1>3, <4>4
        <5> QED BY <1>12, <1>13, <4>2, <5>1
      <4> QED BY <4>3, <4>4
    <3> QED BY <3>1, <3>2
  <2>2. \A i \in 0 .. n : M[i] \subseteq DOMAIN all
    BY <1>3, <1>8
  <2>3. \A i \in 1 .. n : K[i] \subseteq DOMAIN all
    BY <1>3, <1>13, <2>2
  <2> QED BY <1>12, <1>17, <2>1, <2>2, <2>3
<1>20. PICK b : Picks(all, M[0], Those(new, behind(0)), b)
  BY <1>7, <1>17
<1>21. Those(new, behind(0)) \in Seq(EntryType)
  BY <1>7, <1>17
<1> DEFINE u == Those(new, behind(0))
           f == FlattenSeq(ss)
<1>22. u \in Seq(EntryType) /\ f \in Seq(EntryType) /\ Picks(all, M[0], u, b) /\ Picks(all, rest, f, t)
  BY <1>15, <1>16, <1>20, <1>21
<1>23. Merged(p, file, inserts) = u \o f
  BY <1>4
<1> HIDE DEF u, f, all, rest
<1>24. \E ct : Picks(all, M[0] \cup rest, u \o f, ct)
  BY <1>18, <1>22, PicksConcat
<1>25. u \o f \in Seq(EntryType)
  BY <1>22
<1> QED BY <1>19, <1>23, <1>24, <1>25 DEF all
-----------------------------------------------------------------------------
\* Of some places of a sequence of integers, one has the least of them.
LEMMA LeastValue ==
    ASSUME NEW n \in Nat, NEW v \in [1 .. n -> Int], NEW places \in SUBSET (1 .. n), places # {}
    PROVE  \E k \in places : \A j \in places : v[k] <= v[j]
<1>1. PICK lo \in 1 .. n : \A j \in 1 .. n : v[lo] <= v[j]
  <2>1. PICK x \in places : TRUE
    OBVIOUS
  <2>2. x \in 1 .. n
    OBVIOUS
  <2>3. n > 0
    BY <2>2
  <2> QED BY <2>3, Extremes
<1> DEFINE above == {v[j] - v[lo] : j \in places}
<1>2. above \in SUBSET Nat /\ above # {}
  <2>1. \A j \in places : v[j] \in Int /\ v[lo] \in Int /\ v[lo] <= v[j]
    BY <1>1
  <2>2. \A j \in places : v[j] - v[lo] \in Nat
    BY <2>1
  <2> QED BY <2>2
<1>3. PICK x \in above : \A y \in above : x <= y
  <2> HIDE DEF above
  <2> QED BY <1>2, LeastOf
<1>4. PICK k \in places : x = v[k] - v[lo]
  OBVIOUS
<1>5. ASSUME NEW j \in places PROVE v[k] <= v[j]
  <2>1. v[k] - v[lo] <= v[j] - v[lo]
    BY <1>3, <1>4
  <2>2. v[k] \in Int /\ v[j] \in Int /\ v[lo] \in Int
    OBVIOUS
  <2> QED BY <2>1, <2>2
<1> QED BY <1>5

\* The run of commented-out directives that starts somewhere has a first one in
\* the canonical order.
LEMMA FirstOfRunIsThere ==
    ASSUME NEW p \in Files, NEW file \in Seq(EntryType), NEW i \in DOMAIN file,
           RunStart(p, file, i)
    PROVE  \E j \in DOMAIN file : FirstOfRun(p, file, i) = file[j] /\ file[j].commented
<1> DEFINE run == {j \in DOMAIN file : InRun(p, file, i, j)}
           first == {j \in run : \A k \in run : NotAfter(file[j].d, file[k].d)}
           n == Len(file)
           day == [j \in 1 .. n |-> Day(file[j].d)]
           rank == [j \in 1 .. n |-> Facts[file[j].d].rank]
<1>1. n \in Nat /\ DOMAIN file = 1 .. n
  OBVIOUS
<1>2. /\ day \in [1 .. n -> Int] /\ \A j \in 1 .. n : day[j] = Day(file[j].d)
      /\ rank \in [1 .. n -> Int] /\ \A j \in 1 .. n : rank[j] = Facts[file[j].d].rank
  <2> SUFFICES ASSUME NEW j \in 1 .. n
               PROVE  Day(file[j].d) \in Int /\ Facts[file[j].d].rank \in Int
    OBVIOUS
  <2>1. file[j] \in EntryType
    OBVIOUS
  <2> QED BY <2>1, DirectivesAssumption DEF EntryType, Day
<1>3. i \in run
  BY <1>1 DEF RunStart, InRun
<1>4. \A j \in run : j \in 1 .. n /\ file[j].commented
  <2> SUFFICES ASSUME NEW j \in run PROVE file[j].commented
    BY <1>1
  <2>1. i <= j /\ i \in Nat /\ j \in Nat /\ \A k \in i .. j : file[k].commented
    BY <1>1 DEF InRun
  <2> QED BY <2>1
<1>5. FirstOfRun(p, file, i) = file[Min(first)]
  BY DEF FirstOfRun
<1>6. first = {j \in run : \A k \in run : NotAfter(file[j].d, file[k].d)}
  OBVIOUS
<1> HIDE DEF run, first, n, day, rank
<1>7. PICK k \in run : \A j \in run : day[k] <= day[j]
  <2>1. run \in SUBSET (1 .. n) /\ run # {}
    BY <1>3, <1>4
  <2> QED BY <1>1, <1>2, <2>1, LeastValue
<1> DEFINE eldest == {j \in run : day[j] = day[k]}
<1>8. eldest \in SUBSET (1 .. n) /\ eldest # {}
  BY <1>4
<1>9. PICK m \in eldest : \A j \in eldest : rank[m] <= rank[j]
  <2> HIDE DEF eldest
  <2> QED BY <1>1, <1>2, <1>8, LeastValue
<1>10. ASSUME NEW j \in run PROVE NotAfter(file[m].d, file[j].d)
  <2>1. day[m] = day[k] /\ day[k] <= day[j] /\ j \in 1 .. n /\ k \in 1 .. n /\ m \in 1 .. n
    BY <1>4, <1>7, <1>9
  <2>2. /\ day[j] = Day(file[j].d) /\ day[m] = Day(file[m].d) /\ day[j] \in Int /\ day[k] \in Int
        /\ rank[j] = Facts[file[j].d].rank /\ rank[m] = Facts[file[m].d].rank
    BY <1>2, <2>1
  <2>3. day[j] = day[k] => rank[m] <= rank[j]
    BY <1>9
  <2> QED BY <2>1, <2>2, <2>3 DEF NotAfter
<1>11. first \in SUBSET Nat /\ first # {}
  <2>1. m \in first
    BY <1>6, <1>10
  <2> QED BY <1>4, <1>6, <2>1
<1>12. Min(first) \in first
  BY <1>11, MinOf
<1> QED BY <1>1, <1>4, <1>5, <1>6, <1>12

LEMMA ExtractHolds ==
    ASSUME NEW p \in Files, NEW file \in Seq(EntryType)
    PROVE  /\ Extract(p, file) \in Seq(EntryType)
           /\ ToSet(Extract(p, file)) \subseteq ToSet(file)
<1> DEFINE ss == [i \in DOMAIN file |->
                     IF RunStart(p, file, i) THEN <<FirstOfRun(p, file, i)>> ELSE <<>>]
<1>1. Extract(p, file) = FlattenSeq(ss)
  BY DEF Extract
<1>2. DOMAIN file = 1 .. Len(file) /\ Len(file) \in Nat
  OBVIOUS
<1>3. \A i \in DOMAIN file : file[i] \in EntryType /\ file[i] \in ToSet(file)
  BY DEF ToSet
<1>4. ASSUME NEW i \in DOMAIN file
      PROVE  ss[i] \in Seq(EntryType) /\ \A k \in 1 .. Len(ss[i]) : ss[i][k] \in ToSet(file)
  <2>1. CASE RunStart(p, file, i)
    <3>1. PICK j \in DOMAIN file : FirstOfRun(p, file, i) = file[j]
      BY <2>1, FirstOfRunIsThere
    <3>2. ss[i] = <<file[j]>>
      BY <2>1, <3>1
    <3> HIDE DEF ss
    <3> QED BY <1>3, <3>2
  <2>2. CASE ~RunStart(p, file, i)
    <3>1. ss[i] = <<>>
      BY <2>2
    <3> HIDE DEF ss
    <3> QED BY <3>1
  <2> QED BY <2>1, <2>2
<1>5. DOMAIN ss = 1 .. Len(file) /\ ss = [i \in 1 .. Len(file) |-> ss[i]]
  BY <1>2
<1> HIDE DEF ss
<1>6. ss \in Seq(Seq(EntryType)) /\ Len(ss) = Len(file)
  <2>1. ss \in [1 .. Len(file) -> Seq(EntryType)]
    BY <1>2, <1>4, <1>5
  <2> QED BY <1>2, <2>1
<1>7. PICK row, col : Lays(ss, Len(ss), FlattenSeq(ss), row, col)
  BY <1>6, FlattenLays
<1>8. FlattenSeq(ss) \in Seq(EntryType)
  BY <1>6, FlattenLays
<1>9. ASSUME NEW k \in 1 .. Len(FlattenSeq(ss)) PROVE FlattenSeq(ss)[k] \in ToSet(file)
  <2>1. /\ row[k] \in 1 .. Len(ss) /\ col[k] \in 1 .. Len(ss[row[k]])
        /\ FlattenSeq(ss)[k] = ss[row[k]][col[k]]
    BY <1>7 DEF Lays
  <2> QED BY <1>2, <1>4, <1>6, <2>1
<1>10. ToSet(FlattenSeq(ss)) \subseteq ToSet(file)
  <2>1. DOMAIN FlattenSeq(ss) = 1 .. Len(FlattenSeq(ss))
    BY <1>8
  <2>2. ToSet(FlattenSeq(ss)) = {FlattenSeq(ss)[k] : k \in 1 .. Len(FlattenSeq(ss))}
    BY <2>1 DEF ToSet
  <2> QED BY <1>9, <2>2
<1> QED BY <1>1, <1>8, <1>10

\* BuildIndex reads back entries of the file, among them all that are active.
LEMMA ReadBackHolds ==
    ASSUME NEW p \in Files, NEW file \in Seq(EntryType)
    PROVE  /\ ReadBack(p, file) \in Seq(EntryType)
           /\ ToSet(ReadBack(p, file)) \subseteq ToSet(file)
           /\ \A e \in ToSet(file) : ~e.commented => e \in ToSet(ReadBack(p, file))
<1> DEFINE places == ActivePlaces(file)
           u == Those(file, places)
           v == Extract(p, file)
<1>1. places \in SUBSET DOMAIN file /\ \A i \in DOMAIN file : ~file[i].commented => i \in places
  BY DEF ActivePlaces
<1>2. ReadBack(p, file) = u \o v
  BY DEF ReadBack
<1> HIDE DEF places
<1>3. u \in Seq(EntryType)
  BY <1>1, ThosePicks
<1>4. PICK at : Picks(file, places, u, at)
  BY <1>1, ThosePicks
<1>5. v \in Seq(EntryType) /\ ToSet(v) \subseteq ToSet(file)
  BY ExtractHolds
<1> HIDE DEF u, v
<1>6. ToSet(u \o v) = ToSet(u) \cup ToSet(v)
  BY <1>3, <1>5, ToSetConcat
<1>7. ToSet(u) \subseteq ToSet(file)
  <2> SUFFICES ASSUME NEW k \in DOMAIN u PROVE u[k] \in ToSet(file)
    BY DEF ToSet
  <2>1. k \in 1 .. Len(u)
    BY <1>3
  <2>2. at[k] \in DOMAIN file /\ u[k] = file[at[k]]
    BY <1>1, <1>4, <2>1 DEF Picks
  <2> QED BY <2>2 DEF ToSet
<1>8. ASSUME NEW e \in ToSet(file), ~e.commented PROVE e \in ToSet(u)
  <2>1. PICK i \in DOMAIN file : e = file[i]
    BY DEF ToSet
  <2>2. PICK k \in 1 .. Len(u) : at[k] = i
    BY <1>1, <1>4, <1>8, <2>1 DEF Picks
  <2>3. u[k] = file[i] /\ k \in DOMAIN u
    BY <1>3, <1>4, <2>2 DEF Picks
  <2> QED BY <2>1, <2>3 DEF ToSet
<1>9. u \o v \in Seq(EntryType)
  BY <1>3, <1>5
<1> QED BY <1>2, <1>5, <1>6, <1>7, <1>8, <1>9

-----------------------------------------------------------------------------
\* Reading the next directive of the input.
LEMMA DirectivesOfRead ==
    ASSUME NEW in, NEW d
    PROVE  d \in DirectivesOf(in) <=>
              Routed(d) /\ \E i \in DOMAIN in : \E j \in DOMAIN in[i].directives :
                              d = in[i].directives[j]
BY DEF DirectivesOf, ToSet

LEMMA ConsumeReads ==
    ASSUME TypeOK, AtDirective, Consume
    PROVE  /\ NextDirective \in Directives
           /\ todo' \in Seq(SourceType)
           /\ DirectivesOf(todo) \subseteq DirectivesOf(todo') \cup {NextDirective}
<1>1. todo \in Seq(SourceType) /\ todo # <<>>
  BY DEF TypeOK, AtDirective
<1> DEFINE ds == todo[1].directives
<1>2. Len(todo) \in Nat /\ DOMAIN todo = 1 .. Len(todo) /\ 1 \in 1 .. Len(todo) /\ Head(todo) = todo[1]
  BY <1>1
<1>3. todo[1] \in SourceType
  BY <1>1, <1>2
<1>4. ds \in Seq(Directives) /\ ds # <<>>
  BY <1>2, <1>3 DEF SourceType, AtDirective
<1>5. NextDirective = ds[1] /\ ds[1] \in Directives
  BY <1>2, <1>4 DEF NextDirective
<1>6. Tail(ds) \in Seq(Directives) /\ Len(ds) \in Nat /\ DOMAIN ds = 1 .. Len(ds)
      /\ DOMAIN Tail(ds) = 1 .. Len(ds) - 1
      /\ \A j \in 1 .. Len(ds) - 1 : Tail(ds)[j] = ds[j + 1]
  BY <1>4
<1>7. todo' = [todo EXCEPT ![1] = [todo[1] EXCEPT !.directives = Tail(ds)]]
  BY <1>2 DEF Consume
<1>8. [todo[1] EXCEPT !.directives = Tail(ds)] \in SourceType
  BY <1>3, <1>6 DEF SourceType
<1>9. todo' \in Seq(SourceType)
  BY <1>1, <1>7, <1>8
<1>10. DOMAIN todo' = DOMAIN todo /\ todo'[1].directives = Tail(ds)
       /\ \A i \in DOMAIN todo : i # 1 => todo'[i] = todo[i]
  BY <1>1, <1>2, <1>3, <1>7 DEF SourceType
<1>11. ASSUME NEW d \in DirectivesOf(todo), d # NextDirective
       PROVE  d \in DirectivesOf(todo')
  <2>1. PICK i \in DOMAIN todo : \E j \in DOMAIN todo[i].directives : d = todo[i].directives[j]
    BY DirectivesOfRead
  <2>2. PICK j \in DOMAIN todo[i].directives : d = todo[i].directives[j]
    BY <2>1
  <2>3. Routed(d)
    BY DirectivesOfRead
  <2>4. \E l \in DOMAIN todo'[i].directives : d = todo'[i].directives[l]
    <3>1. CASE i # 1
      BY <1>10, <2>2, <3>1
    <3>2. CASE i = 1
      <4>1. j \in 1 .. Len(ds) /\ d = ds[j] /\ j # 1
        BY <1>5, <1>6, <1>11, <2>2, <3>2
      <4>2. j - 1 \in 1 .. Len(ds) - 1 /\ (j - 1) + 1 = j
        BY <1>6, <4>1
      <4>3. Tail(ds)[j - 1] = d /\ j - 1 \in DOMAIN Tail(ds)
        BY <1>6, <4>1, <4>2
      <4> QED BY <1>10, <3>2, <4>3
    <3> QED BY <3>1, <3>2
  <2> QED BY <1>10, <2>3, <2>4, DirectivesOfRead
<1> QED BY <1>5, <1>9, <1>11

LEMMA NextSourceReads ==
    ASSUME TypeOK, NextSource
    PROVE  todo' \in Seq(SourceType) /\ DirectivesOf(todo) \subseteq DirectivesOf(todo')
<1>1. todo \in Seq(SourceType) /\ todo # <<>> /\ todo' = Tail(todo) /\ Head(todo).directives = <<>>
  BY DEF TypeOK, NextSource
<1>2. /\ Len(todo) \in Nat /\ DOMAIN todo = 1 .. Len(todo) /\ Head(todo) = todo[1]
      /\ DOMAIN todo' = 1 .. Len(todo) - 1
      /\ \A i \in 1 .. Len(todo) - 1 : todo'[i] = todo[i + 1]
  BY <1>1
<1>3. ASSUME NEW d \in DirectivesOf(todo) PROVE d \in DirectivesOf(todo')
  <2>1. PICK i \in DOMAIN todo : \E j \in DOMAIN todo[i].directives : d = todo[i].directives[j]
    BY DirectivesOfRead
  <2>2. i # 1
    BY <1>1, <1>2, <2>1
  <2>3. i - 1 \in 1 .. Len(todo) - 1 /\ (i - 1) + 1 = i
    BY <1>2, <2>1, <2>2
  <2>4. todo'[i - 1] = todo[i] /\ i - 1 \in DOMAIN todo'
    BY <1>2, <2>3
  <2> QED BY <2>1, <2>4, DirectivesOfRead
<1>4. todo' \in Seq(SourceType)
  BY <1>1
<1> QED BY <1>3, <1>4

\* Whatever is left to merge, the next file is one of it.
LEMMA NextFile ==
    ASSUME TypeOK, left # {}
    PROVE  Min(left) \in left /\ Min(left) \in Files
<1>1. left \in SUBSET Nat
  BY FilesAssumption DEF TypeOK
<1> QED BY <1>1, MinOf DEF TypeOK

LEMMA AppendEntry ==
    ASSUME NEW f \in [Files -> Seq(EntryType)], NEW p \in Files, NEW e \in EntryType
    PROVE  /\ [f EXCEPT ![p] = Append(@, e)] \in [Files -> Seq(EntryType)]
           /\ [f EXCEPT ![p] = Append(@, e)][p] = f[p] \o <<e>>
           /\ \A q \in Files : q # p => [f EXCEPT ![p] = Append(@, e)][q] = f[q]
<1>1. f[p] \in Seq(EntryType)
  OBVIOUS
<1>2. Append(f[p], e) \in Seq(EntryType) /\ Append(f[p], e) = f[p] \o <<e>>
  BY <1>1
<1> QED BY <1>2

LEMMA NothingType == Nothing \in [Files -> Seq(EntryType)] /\ \A p \in Files : ToSet(Nothing[p]) = {}
BY DEF Nothing, ToSet

-----------------------------------------------------------------------------
\* Types of the whole state, whatever the inputs and their order: in particular
\* a plan holds only what is routed to its file.
THEOREM Typing == Spec => []TypeOK
<1>1. Init => TypeOK
  <2> SUFFICES ASSUME Init PROVE TypeOK
    OBVIOUS
  <2>1. 0 \in 0 .. MaxRuns
    BY ParametersAssumption
  <2>2. /\ plan \in [Files -> Seq(EntryType)] /\ index \in [Files -> Seq(EntryType)]
        /\ \A p \in Files : \A e \in ToSet(plan[p]) : Dest(e.d) = p
    <3>1. plan = Nothing /\ index = Nothing
      BY DEF Init
    <3> QED BY <3>1, NothingType
  <2>3. <<>> \in Seq(SourceType) /\ <<>> \in Seq(EntryType)
    OBVIOUS
  <2> QED BY <2>1, <2>2, <2>3, DiskAssumption DEF Init, TypeOK
<1>2. TypeOK /\ [Next]_vars => TypeOK'
  <2> SUFFICES ASSUME TypeOK, [Next]_vars PROVE TypeOK'
    OBVIOUS
  <2>1. CASE UNCHANGED vars
    BY <2>1 DEF TypeOK, vars, process
  <2>2. ASSUME Exit, completed' \subseteq begun PROVE TypeOK'
    <3>1. /\ plan' \in [Files -> Seq(EntryType)] /\ index' \in [Files -> Seq(EntryType)]
          /\ \A p \in Files : \A e \in ToSet(plan'[p]) : Dest(e.d) = p
      <4>1. plan' = Nothing /\ index' = Nothing
        BY <2>2 DEF Exit
      <4> QED BY <4>1, NothingType
    <3>2. <<>> \in Seq(SourceType) /\ <<>> \in Seq(EntryType)
      OBVIOUS
    <3> QED BY <2>2, <3>1, <3>2 DEF Exit, TypeOK
  <2>3. ASSUME NEW in \in Inputs, NEW fl \in Flags, Begin(in, fl) PROVE TypeOK'
    <3>1. in \in Seq(SourceType)
      BY InputsAssumption
    <3>2. BuildIndex \in [Files -> Seq(EntryType)]
      <4>1. \A p \in Files : disk[p] \in Seq(EntryType)
        BY DEF TypeOK
      <4>2. \A p \in Files : ReadBack(p, disk[p]) \in Seq(EntryType)
        BY <4>1, ReadBackHolds
      <4> QED BY <4>2 DEF BuildIndex
    <3>3. runs' \in 0 .. MaxRuns
      BY <2>3, ParametersAssumption DEF Begin, TypeOK
    <3> QED BY <2>3, <3>1, <3>2, <3>3 DEF Begin, TypeOK
  <2>4. CASE RefuseSource
    BY <2>2, <2>4 DEF RefuseSource, TypeOK
  <2>5. CASE NextSource
    BY <2>5, NextSourceReads DEF NextSource, TypeOK
  <2>6. CASE PassThrough
    BY <2>6, ConsumeReads DEF PassThrough, TypeOK
  <2>7. CASE RefuseDirective
    BY <2>2, <2>7 DEF RefuseDirective, TypeOK
  <2>8. CASE Skip
    BY <2>8, ConsumeReads DEF Skip, TypeOK
  <2>9. CASE Accept
    <3> DEFINE d == NextDirective
               e == Entry(d, ToComment(index, d))
    <3>1. d \in Directives /\ todo' \in Seq(SourceType)
      BY <2>9, ConsumeReads DEF Accept
    <3>2. Dest(d) \in Files
      BY <3>1, DirectivesAssumption DEF Dest
    <3>3. ToComment(index, d) \in BOOLEAN
      BY DEF ToComment, InOtherActive
    <3>4. e \in EntryType /\ e.d = d
      BY <3>1, <3>3 DEF Entry, EntryType
    <3>5. /\ plan' = [plan EXCEPT ![Dest(d)] = Append(@, e)]
          /\ index' = [index EXCEPT ![Dest(d)] = Append(@, e)]
      BY <2>9 DEF Accept, Indexed
    <3> HIDE DEF e, d
    <3>6. /\ plan' \in [Files -> Seq(EntryType)] /\ index' \in [Files -> Seq(EntryType)]
          /\ plan'[Dest(d)] = plan[Dest(d)] \o <<e>>
          /\ \A q \in Files : q # Dest(d) => plan'[q] = plan[q]
      BY <3>2, <3>4, <3>5, AppendEntry DEF TypeOK
    <3>7. plan[Dest(d)] \in Seq(EntryType) /\ <<e>> \in Seq(EntryType)
      BY <3>2, <3>4 DEF TypeOK
    <3>8. ToSet(plan'[Dest(d)]) = ToSet(plan[Dest(d)]) \cup {e}
      <4>1. ToSet(<<e>>) = {e}
        BY DEF ToSet
      <4>2. ToSet(plan[Dest(d)] \o <<e>>) = ToSet(plan[Dest(d)]) \cup ToSet(<<e>>)
        BY <3>7, ToSetConcat
      <4> QED BY <3>6, <4>1, <4>2
    <3>9. ASSUME NEW p \in Files, NEW x \in ToSet(plan'[p]) PROVE Dest(x.d) = p
      <4>1. CASE p = Dest(d)
        BY <3>4, <3>8, <3>9, <4>1 DEF TypeOK
      <4>2. CASE p # Dest(d)
        BY <3>6, <3>9, <4>2 DEF TypeOK
      <4> QED BY <4>1, <4>2
    <3>10. ASSUME NEW p \in left PROVE plan'[p] # <<>>
      <4>1. CASE p = Dest(d)
        BY <3>6, <3>7, <4>1
      <4>2. CASE p # Dest(d)
        BY <3>6, <4>2 DEF TypeOK
      <4> QED BY <4>1, <4>2
    <3> QED BY <2>9, <3>1, <3>6, <3>9, <3>10 DEF Accept, TypeOK
  <2>10. CASE BeginMerge
    BY <2>10 DEF BeginMerge, ToMerge, TypeOK
  <2>11. CASE Preview
    BY <2>11 DEF Preview, TypeOK
  <2>12. CASE WriteTemp
    <3>1. Min(left) \in Files
      BY <2>12, NextFile DEF WriteTemp
    <3>2. disk[Min(left)] \in Seq(EntryType) /\ plan[Min(left)] \in Seq(EntryType)
      BY <3>1 DEF TypeOK
    <3>3. draft' \in Seq(EntryType)
      BY <2>12, <3>1, <3>2, MergedPicks DEF WriteTemp
    <3> QED BY <2>12, <3>3 DEF WriteTemp, TypeOK
  <2>13. CASE Rename
    <3>1. disk' \in [Files -> Seq(EntryType)]
      BY <2>13 DEF Rename, TypeOK
    <3> QED BY <2>13, <3>1 DEF Rename, TypeOK
  <2>14. CASE FailMerge
    BY <2>14 DEF FailMerge, TypeOK
  <2>15. CASE Finish
    BY <2>2, <2>15 DEF Finish, TypeOK
  <2>16. CASE Crash
    BY <2>2, <2>16 DEF Crash, TypeOK
  <2> QED BY <2>1, <2>3, <2>4, <2>5, <2>6, <2>7, <2>8, <2>9, <2>10, <2>11, <2>12, <2>13,
             <2>14, <2>15, <2>16 DEF Next
<1> QED BY <1>1, <1>2, PTL DEF Spec

-----------------------------------------------------------------------------
\* Total adds every number once, in whatever order.
SumsUp(ps, n, sum) ==
    sum = [s \in SUBSET (1 .. n) |-> IF s = {} THEN 0 ELSE sum[s \ {Max(s)}] + ps[Max(s)]]

LEMMA GreatestPlace ==
    ASSUME NEW n \in Nat, NEW s \in SUBSET (1 .. n), s # {}
    PROVE  /\ Max(s) \in s /\ Max(s) \in 1 .. n
           /\ \A y \in s : y <= Max(s)
           /\ s \ {Max(s)} \subseteq 1 .. Max(s) - 1
<1>1. s \in SUBSET (0 .. n)
  OBVIOUS
<1>2. Max(s) \in s /\ \A y \in s : y <= Max(s)
  BY <1>1, MaxOf
<1> DEFINE m == Max(s)
<1> HIDE DEF m
<1>3. m \in s /\ \A y \in s : y <= m
  BY <1>2 DEF m
<1>4. m \in 1 .. n /\ s \ {m} \subseteq 1 .. m - 1
  BY <1>3
<1> QED BY <1>3, <1>4 DEF m

LEMMA SumsExist ==
    ASSUME NEW ps
    PROVE  \A n \in Nat : \E sum : SumsUp(ps, n, sum)
<1> DEFINE T == {n \in Nat : \E sum : SumsUp(ps, n, sum)}
<1>1. 0 \in T
  <2> DEFINE sum == [s \in SUBSET (1 .. 0) |-> 0]
  <2>1. \A s \in SUBSET (1 .. 0) : s = {}
    OBVIOUS
  <2>2. SumsUp(ps, 0, sum)
    BY <2>1 DEF SumsUp
  <2> QED BY <2>2
<1>2. ASSUME NEW n \in Nat, n \in T PROVE n + 1 \in T
  <2>1. PICK sum : SumsUp(ps, n, sum)
    BY <1>2
  <2> DEFINE more == [s \in SUBSET (1 .. n + 1) |->
                         IF n + 1 \in s THEN sum[s \ {n + 1}] + ps[n + 1] ELSE sum[s]]
  <2>2. ASSUME NEW s \in SUBSET (1 .. n + 1)
        PROVE  more[s] = IF s = {} THEN 0 ELSE more[s \ {Max(s)}] + ps[Max(s)]
    <3>1. CASE n + 1 \in s
      <4>1. s # {} /\ n + 1 \in Nat
        BY <3>1
      <4>2. Max(s) \in 1 .. n + 1 /\ n + 1 <= Max(s)
        BY <3>1, <4>1, GreatestPlace
      <4>3. Max(s) = n + 1
        BY <4>2
      <4>4. s \ {n + 1} \in SUBSET (1 .. n + 1) /\ n + 1 \notin s \ {n + 1}
        OBVIOUS
      <4>5. more[s \ {n + 1}] = sum[s \ {n + 1}]
        BY <4>4
      <4>6. more[s] = sum[s \ {n + 1}] + ps[n + 1]
        BY <3>1
      <4> HIDE DEF more
      <4> QED BY <4>1, <4>3, <4>5, <4>6
    <3>2. CASE n + 1 \notin s
      <4>1. s \in SUBSET (1 .. n) /\ more[s] = sum[s]
        BY <3>2
      <4>2. sum[s] = IF s = {} THEN 0 ELSE sum[s \ {Max(s)}] + ps[Max(s)]
        BY <2>1, <4>1 DEF SumsUp
      <4>3. n + 1 \notin s \ {Max(s)} /\ s \ {Max(s)} \in SUBSET (1 .. n + 1)
        BY <3>2
      <4>4. more[s \ {Max(s)}] = sum[s \ {Max(s)}]
        BY <4>3
      <4> HIDE DEF more
      <4> QED BY <4>1, <4>2, <4>4
    <3> QED BY <3>1, <3>2
  <2>3. more = [s \in SUBSET (1 .. n + 1) |-> more[s]]
    OBVIOUS
  <2> HIDE DEF more
  <2>4. more = [s \in SUBSET (1 .. n + 1) |->
                  IF s = {} THEN 0 ELSE more[s \ {Max(s)}] + ps[Max(s)]]
    BY <2>2, <2>3
  <2>5. SumsUp(ps, n + 1, more)
    BY <2>4 DEF SumsUp
  <2> QED BY <2>5
<1>3. \A n \in Nat : n \in T => n + 1 \in T
  BY <1>2
<1> HIDE DEF T
<1>4. \A n \in Nat : n \in T
  BY <1>1, <1>3, SetInduction
<1> QED BY <1>4 DEF T

LEMMA TotalSumsUp ==
    ASSUME NEW ps \in Seq(Int)
    PROVE  \E sum : SumsUp(ps, Len(ps), sum) /\ Total(ps) = sum[1 .. Len(ps)]
<1> DEFINE n == Len(ps)
           sum == CHOOSE sum : SumsUp(ps, n, sum)
<1>1. n \in Nat /\ DOMAIN ps = 1 .. n
  OBVIOUS
<1>2. SumsUp(ps, n, sum)
  BY <1>1, SumsExist
<1>3. sum = CHOOSE sums : sums = [s \in SUBSET (1 .. n) |->
                  IF s = {} THEN 0 ELSE sums[s \ {Max(s)}] + ps[Max(s)]]
  BY DEF SumsUp
<1>4. Total(ps) = sum[1 .. n]
  BY <1>1, <1>3 DEF Total, FoldLeft, MapThenFoldSet
<1> QED BY <1>2, <1>4

LEMMA NumberType ==
    ASSUME NEW ps \in Seq(Int)
    PROVE  /\ Len(ps) \in Nat /\ DOMAIN ps = 1 .. Len(ps)
           /\ \A i \in 1 .. Len(ps) : ps[i] \in Int
OBVIOUS

\* Sets of places without the greatest, and with one more.
BelowMax(s) == s \ {Max(s)}
More(s, x) == s \cup {x}

LEMMA SumRecurs ==
    ASSUME NEW ps, NEW n, NEW sum, SumsUp(ps, n, sum)
    PROVE  /\ sum[{}] = 0
           /\ \A s \in SUBSET (1 .. n) : s # {} => sum[s] = sum[BelowMax(s)] + ps[Max(s)]
<1>1. \A s \in SUBSET (1 .. n) :
        sum[s] = IF s = {} THEN 0 ELSE sum[s \ {Max(s)}] + ps[Max(s)]
  BY DEF SumsUp
<1>2. {} \in SUBSET (1 .. n)
  OBVIOUS
<1>3. sum[{}] = 0
  BY <1>1, <1>2
<1> QED BY <1>1, <1>3 DEF BelowMax

LEMMA SumType ==
    ASSUME NEW ps \in Seq(Int), NEW sum, SumsUp(ps, Len(ps), sum)
    PROVE  \A s \in SUBSET (1 .. Len(ps)) : sum[s] \in Int
<1> DEFINE n == Len(ps)
           T == {m \in Nat : \A s \in SUBSET ((1 .. m) \cap (1 .. n)) : sum[s] \in Int}
<1>1. n \in Nat /\ \A i \in 1 .. n : ps[i] \in Int
  BY NumberType
<1>2. /\ sum[{}] = 0
      /\ \A s \in SUBSET (1 .. n) : s # {} => sum[s] = sum[s \ {Max(s)}] + ps[Max(s)]
  <2>1. SumsUp(ps, n, sum)
    OBVIOUS
  <2> HIDE DEF n
  <2>2. /\ sum[{}] = 0
        /\ \A s \in SUBSET (1 .. n) : s # {} => sum[s] = sum[BelowMax(s)] + ps[Max(s)]
    BY <2>1, SumRecurs
  <2> QED BY <2>2 DEF BelowMax
<1> HIDE DEF n
<1>3. 0 \in T
  <2>1. ASSUME NEW s \in SUBSET ((1 .. 0) \cap (1 .. n)) PROVE sum[s] \in Int
    <3>1. s = {}
      OBVIOUS
    <3> QED BY <1>2, <3>1
  <2> QED BY <2>1
<1>4. ASSUME NEW m \in Nat, m \in T PROVE m + 1 \in T
  <2>1. ASSUME NEW s \in SUBSET ((1 .. m + 1) \cap (1 .. n)) PROVE sum[s] \in Int
    <3>1. CASE s = {}
      BY <1>2, <3>1
    <3>2. CASE s # {}
      <4>1. s \in SUBSET (1 .. n) /\ s \in SUBSET (1 .. m + 1) /\ m + 1 \in Nat
        OBVIOUS
      <4>2. Max(s) \in 1 .. m + 1 /\ s \ {Max(s)} \subseteq 1 .. Max(s) - 1 /\ Max(s) \in s
        BY <3>2, <4>1, GreatestPlace
      <4>3. s \ {Max(s)} \in SUBSET ((1 .. m) \cap (1 .. n))
        BY <4>1, <4>2
      <4>4. sum[s \ {Max(s)}] \in Int
        BY <1>4, <4>3
      <4>5. ps[Max(s)] \in Int
        BY <1>1, <4>1, <4>2
      <4>6. sum[s] = sum[s \ {Max(s)}] + ps[Max(s)]
        BY <1>2, <3>2, <4>1
      <4> QED BY <4>4, <4>5, <4>6
    <3> QED BY <3>1, <3>2
  <2> QED BY <2>1
<1>5. \A m \in Nat : m \in T => m + 1 \in T
  BY <1>4
<1> HIDE DEF T
<1>6. n \in T
  BY <1>1, <1>3, <1>5, SetInduction
<1> USE DEF T
<1> QED BY <1>6 DEF n

\* One more place adds its amount.
LEMMA SumAdds ==
    ASSUME NEW ps \in Seq(Int), NEW sum, SumsUp(ps, Len(ps), sum),
           NEW s \in SUBSET (1 .. Len(ps)), NEW x \in 1 .. Len(ps), x \notin s
    PROVE  sum[More(s, x)] = sum[s] + ps[x]
<1> DEFINE n == Len(ps)
           T == {m \in Nat : \A r \in SUBSET ((1 .. m) \cap (1 .. n)) :
                                r \cup {x} \subseteq 1 .. m /\ x \notin r
                                    => sum[r \cup {x}] = sum[r] + ps[x]}
<1>1. n \in Nat /\ x \in 1 .. n /\ \A i \in 1 .. n : ps[i] \in Int
  BY NumberType
<1>2. \A r \in SUBSET (1 .. n) : r # {} => sum[r] = sum[r \ {Max(r)}] + ps[Max(r)]
  <2>1. SumsUp(ps, n, sum)
    OBVIOUS
  <2> HIDE DEF n
  <2>2. \A r \in SUBSET (1 .. n) : r # {} => sum[r] = sum[BelowMax(r)] + ps[Max(r)]
    BY <2>1, SumRecurs
  <2> QED BY <2>2 DEF BelowMax
<1>3. \A r \in SUBSET (1 .. n) : sum[r] \in Int
  BY SumType
<1> HIDE DEF n
<1>4. 0 \in T
  OBVIOUS
<1>5. ASSUME NEW m \in Nat, m \in T PROVE m + 1 \in T
  <2>1. ASSUME NEW r \in SUBSET ((1 .. m + 1) \cap (1 .. n)), r \cup {x} \subseteq 1 .. m + 1, x \notin r
        PROVE  sum[r \cup {x}] = sum[r] + ps[x]
    <3> DEFINE t == r \cup {x}
               M == Max(t)
    <3>1. t \in SUBSET (1 .. n) /\ t \in SUBSET (1 .. m + 1) /\ m + 1 \in Nat /\ t # {} /\ x \in t
      BY <1>1, <2>1
    <3>2. M \in t /\ M \in 1 .. m + 1 /\ t \ {M} \subseteq 1 .. M - 1 /\ \A y \in t : y <= M
      <4> HIDE DEF t
      <4> QED BY <3>1, GreatestPlace
    <3>3. sum[t] = sum[t \ {M}] + ps[M]
      BY <1>2, <3>1
    <3>4. CASE M = x
      <4>1. t \ {M} = r
        BY <2>1, <3>4
      <4> QED BY <3>3, <3>4, <4>1
    <3>5. CASE M # x
      <4> DEFINE q == r \ {M}
      <4>1. M \in r /\ r \in SUBSET (1 .. n) /\ r # {} /\ r \subseteq t
        BY <3>1, <3>2, <3>5
      <4>2. Max(r) \in r /\ \A y \in r : y <= Max(r)
        BY <1>1, <4>1, GreatestPlace
      <4>3. Max(r) = M
        <5>1. Max(r) <= M /\ M <= Max(r) /\ Max(r) \in 1 .. n /\ M \in 1 .. n
          BY <3>2, <4>1, <4>2
        <5> HIDE DEF M
        <5> QED BY <5>1
      <4>4. sum[r] = sum[q] + ps[M]
        BY <1>2, <4>1, <4>3
      <4>5. t \ {M} = q \cup {x} /\ x \notin q
        BY <2>1, <3>5
      <4>6. q \cup {x} \subseteq 1 .. m
        <5>1. q \cup {x} \subseteq 1 .. M - 1 /\ M \in 1 .. m + 1
          BY <3>2, <4>5
        <5> HIDE DEF q, M
        <5> QED BY <5>1
      <4>7. q \in SUBSET ((1 .. m) \cap (1 .. n))
        BY <4>6, <4>1
      <4>8. sum[q \cup {x}] = sum[q] + ps[x]
        <5> HIDE DEF q
        <5> QED BY <1>5, <4>5, <4>6, <4>7
      <4>9. sum[q] \in Int /\ ps[M] \in Int /\ ps[x] \in Int
        BY <1>1, <1>3, <4>1, <4>7
      <4>10. sum[t] = (sum[q] + ps[x]) + ps[M]
        BY <3>3, <4>5, <4>8
      <4> HIDE DEF t, q, M
      <4>11. sum[t] = sum[r] + ps[x]
        BY <4>4, <4>9, <4>10
      <4> QED BY <4>11 DEF t
    <3> QED BY <3>4, <3>5
  <2>2. \A r \in SUBSET ((1 .. m + 1) \cap (1 .. n)) :
           r \cup {x} \subseteq 1 .. m + 1 /\ x \notin r => sum[r \cup {x}] = sum[r] + ps[x]
    BY <2>1
  <2>3. m + 1 \in Nat
    OBVIOUS
  <2> QED BY <2>2, <2>3
<1>6. \A m \in Nat : m \in T => m + 1 \in T
  BY <1>5
<1> HIDE DEF T
<1>7. n \in T
  BY <1>1, <1>4, <1>6, SetInduction
<1>8. s \in SUBSET ((1 .. n) \cap (1 .. n)) /\ s \cup {x} \subseteq 1 .. n
  BY DEF n
<1>9. sum[s \cup {x}] = sum[s] + ps[x]
  BY <1>7, <1>8 DEF T
<1> QED BY <1>9 DEF More

-----------------------------------------------------------------------------
\* Items assigned one to one: f takes each of s to an equal one of t.
Pairs(s, t, f) ==
    /\ f \in [1 .. Len(s) -> 1 .. Len(t)]
    /\ \A i, j \in 1 .. Len(s) : f[i] = f[j] => i = j
    /\ \A i \in 1 .. Len(s) : s[i] = t[f[i]]

\* Every item has its pair.
Covers(s, t, f) == \A j \in 1 .. Len(t) : \E i \in 1 .. Len(s) : f[i] = j

SameLegs(s, t) == \E f : Pairs(s, t, f) /\ Covers(s, t, f)

LEMMA SameLegsReflexive ==
    ASSUME NEW V, NEW s \in Seq(V)
    PROVE  SameLegs(s, s)
<1> DEFINE f == [i \in 1 .. Len(s) |-> i]
<1>1. Pairs(s, s, f) /\ Covers(s, s, f)
  BY DEF Pairs, Covers
<1> QED BY <1>1 DEF SameLegs

LEMMA SameLegsSymmetric ==
    ASSUME NEW V, NEW s \in Seq(V), NEW t \in Seq(V), SameLegs(s, t)
    PROVE  SameLegs(t, s)
<1>1. PICK f : Pairs(s, t, f) /\ Covers(s, t, f)
  BY DEF SameLegs
<1> DEFINE g == [j \in 1 .. Len(t) |-> CHOOSE i \in 1 .. Len(s) : f[i] = j]
<1>2. \A j \in 1 .. Len(t) : g[j] \in 1 .. Len(s) /\ f[g[j]] = j
  BY <1>1 DEF Covers
<1>3. \A i \in 1 .. Len(s) : f[i] \in 1 .. Len(t) /\ s[i] = t[f[i]]
  BY <1>1 DEF Pairs
<1>4. \A i, j \in 1 .. Len(s) : f[i] = f[j] => i = j
  BY <1>1 DEF Pairs
<1>5. g \in [1 .. Len(t) -> 1 .. Len(s)]
  BY <1>2
<1> HIDE DEF g
<1>6. \A i, j \in 1 .. Len(t) : g[i] = g[j] => i = j
  BY <1>2
<1>7. \A j \in 1 .. Len(t) : t[j] = s[g[j]]
  BY <1>2, <1>3
<1>8. ASSUME NEW i \in 1 .. Len(s) PROVE \E j \in 1 .. Len(t) : g[j] = i
  <2>1. f[i] \in 1 .. Len(t) /\ f[g[f[i]]] = f[i] /\ g[f[i]] \in 1 .. Len(s)
    BY <1>2, <1>3
  <2> QED BY <1>4, <2>1
<1>9. Pairs(t, s, g)
  BY <1>5, <1>6, <1>7 DEF Pairs
<1>10. Covers(t, s, g)
  BY <1>8 DEF Covers
<1> QED BY <1>9, <1>10 DEF SameLegs

\* The bijections and injections of DirectiveMatch.
LEMMA PairsAreInjections ==
    ASSUME NEW V, NEW s \in Seq(V), NEW t \in Seq(V), NEW f
    PROVE  /\ (f \in Injection(DOMAIN s, DOMAIN t) /\ \A i \in DOMAIN s : s[i] = t[f[i]])
                  <=> Pairs(s, t, f)
           /\ (f \in Bijection(DOMAIN s, DOMAIN t) /\ \A i \in DOMAIN s : s[i] = t[f[i]])
                  <=> Pairs(s, t, f) /\ Covers(s, t, f)
<1>1. DOMAIN s = 1 .. Len(s) /\ DOMAIN t = 1 .. Len(t)
  OBVIOUS
<1>2. f \in Injection(DOMAIN s, DOMAIN t) <=>
        /\ f \in [1 .. Len(s) -> 1 .. Len(t)]
        /\ \A i, j \in 1 .. Len(s) : f[i] = f[j] => i = j
  BY <1>1 DEF Injection, IsInjective
<1>3. f \in Bijection(DOMAIN s, DOMAIN t) <=>
        f \in Injection(DOMAIN s, DOMAIN t) /\ Covers(s, t, f)
  BY <1>1, <1>2 DEF Bijection, Surjection, Covers, Injection
<1> QED BY <1>1, <1>2, <1>3 DEF Pairs

LEMMA SameLegsIsBijection ==
    ASSUME NEW V, NEW s \in Seq(V), NEW t \in Seq(V)
    PROVE  SameLegs(s, t) <=> \E f \in Bijection(DOMAIN s, DOMAIN t) : \A i \in DOMAIN s : s[i] = t[f[i]]
BY PairsAreInjections DEF SameLegs

\* Equal numbers of items: none is left over.
LEMMA PairsCover ==
    ASSUME NEW V, NEW s \in Seq(V), NEW t \in Seq(V), Len(s) = Len(t),
           NEW f, Pairs(s, t, f)
    PROVE  Covers(s, t, f)
<1> DEFINE S == 1 .. Len(s)
<1>1. f \in Injection(S, S)
  BY DEF Pairs, Injection, IsInjective
<1>2. IsFiniteSet(S)
  BY FS_Interval
<1>3. f \in Surjection(S, S)
  <2> HIDE DEF S
  <2> QED BY <1>1, <1>2, FS_Injection
<1> QED BY <1>3 DEF Surjection, Covers

\* One more: exactly one is left over.
LEMMA OneIsLeftOver ==
    ASSUME NEW V, NEW s \in Seq(V), NEW t \in Seq(V), Len(t) = Len(s) + 1,
           NEW f, Pairs(s, t, f)
    PROVE  \E j \in 1 .. Len(t) :
              /\ \A i \in 1 .. Len(s) : f[i] # j
              /\ \A k \in 1 .. Len(t) : k # j => \E i \in 1 .. Len(s) : f[i] = k
<1> DEFINE n == Len(s)
           S == 1 .. n
           T == 1 .. n + 1
<1>1. n \in Nat /\ 1 .. Len(t) = T
  OBVIOUS
<1>2. f \in [S -> T] /\ \A i, j \in S : f[i] = f[j] => i = j
  BY <1>1 DEF Pairs
<1>3. /\ IsFiniteSet(S) /\ IsFiniteSet(T)
      /\ Cardinality(S) = n /\ Cardinality(T) = n + 1
  <2>1. n + 1 \in Int /\ n \in Int /\ 1 \in Int /\ ~(1 > n + 1)
    BY <1>1
  <2>2. IsFiniteSet(S) /\ Cardinality(S) = IF 1 > n THEN 0 ELSE n - 1 + 1
    BY <2>1, FS_Interval
  <2>3. IsFiniteSet(T) /\ Cardinality(T) = IF 1 > n + 1 THEN 0 ELSE (n + 1) - 1 + 1
    <3> HIDE DEF n
    <3> QED BY <2>1, FS_Interval
  <2> HIDE DEF n
  <2> QED BY <1>1, <2>2, <2>3
<1>4. PICK j \in T : \A i \in S : f[i] # j
  <2> SUFFICES ASSUME \A j \in T : \E i \in S : f[i] = j PROVE FALSE
    OBVIOUS
  <2>1. f \in Surjection(S, T)
    BY <1>2 DEF Surjection
  <2>2. Cardinality(T) <= Cardinality(S)
    <3> HIDE DEF S, T
    <3> QED BY <1>3, <2>1, FS_Surjection
  <2> HIDE DEF n, S, T
  <2> QED BY <1>1, <1>3, <2>2
<1>5. ASSUME NEW k \in T, k # j PROVE \E i \in S : f[i] = k
  <2> DEFINE g == [i \in T |-> IF i \in S THEN f[i] ELSE j]
  <2>1. g \in [T -> T] /\ \A i \in S : g[i] = f[i]
    BY <1>2
  <2>2. \A i \in T : i \in S \/ (i = n + 1 /\ i \notin S /\ g[i] = j)
    BY <1>1
  <2> HIDE DEF g
  <2>3. ASSUME NEW a \in T, NEW b \in T, g[a] = g[b] PROVE a = b
    <3> HIDE DEF S, T, n
    <3> QED BY <1>2, <1>4, <2>1, <2>2, <2>3
  <2>4. g \in Injection(T, T)
    BY <2>1, <2>3 DEF Injection, IsInjective
  <2>5. g \in Surjection(T, T)
    <3> HIDE DEF T
    <3> QED BY <1>3, <2>4, FS_Injection
  <2>6. PICK i \in T : g[i] = k
    BY <2>5 DEF Surjection
  <2> QED BY <1>5, <2>1, <2>2, <2>6
<1> HIDE DEF S, T
<1>6. \A k \in T : k # j => \E i \in S : f[i] = k
  BY <1>5
<1> QED BY <1>1, <1>4, <1>6 DEF S

\* The sum over the places that are paired.
LEMMA SumOfPaired ==
    ASSUME NEW s \in Seq(Int), NEW t \in Seq(Int), NEW f, Pairs(s, t, f),
           NEW sum, SumsUp(t, Len(t), sum)
    PROVE  sum[ValuesAt(f, 1 .. Len(s))] = Total(s)
<1> DEFINE n == Len(s)
<1>1. PICK sub : SumsUp(s, n, sub) /\ Total(s) = sub[1 .. n]
  BY TotalSumsUp
<1> DEFINE T == {k \in Nat : k \in 0 .. n => sum[ValuesAt(f, 1 .. k)] = sub[1 .. k]}
<1>n. n \in Nat
  OBVIOUS
<1>2. \A i \in 1 .. n : f[i] \in 1 .. Len(t) /\ s[i] = t[f[i]]
  BY DEF Pairs
<1>3. \A i, j \in 1 .. n : f[i] = f[j] => i = j
  BY DEF Pairs
<1>4. sum[{}] = 0 /\ sub[{}] = 0
  BY <1>1, SumRecurs
<1>5. /\ \A r \in SUBSET (1 .. Len(t)) : \A x \in 1 .. Len(t) :
             x \notin r => sum[More(r, x)] = sum[r] + t[x]
      /\ \A r \in SUBSET (1 .. n) : \A x \in 1 .. n :
             x \notin r => sub[More(r, x)] = sub[r] + s[x]
  BY <1>1, SumAdds
<1> HIDE DEF n
<1>6. 0 \in T
  <2>1. 1 .. 0 = {} /\ ValuesAt(f, {}) = {}
    BY DEF ValuesAt
  <2> QED BY <1>4, <2>1
<1>7. ASSUME NEW k \in Nat, k \in T PROVE k + 1 \in T
  <2> SUFFICES ASSUME k + 1 \in 0 .. n
               PROVE  sum[ValuesAt(f, 1 .. k + 1)] = sub[1 .. k + 1]
    OBVIOUS
  <2> DEFINE r == ValuesAt(f, 1 .. k)
  <2>1. /\ k \in 0 .. n /\ k + 1 \in 1 .. n /\ 1 .. k \subseteq 1 .. n
        /\ k + 1 \notin 1 .. k /\ 1 .. k + 1 = More(1 .. k, k + 1)
    BY <1>n DEF More
  <2>2. sum[r] = sub[1 .. k]
    BY <1>7, <2>1
  <2>3. ValuesAt(f, 1 .. k + 1) = More(r, f[k + 1])
    BY <2>1 DEF ValuesAt, More
  <2>4. r \in SUBSET (1 .. Len(t))
    BY <1>2, <2>1 DEF ValuesAt
  <2>5. f[k + 1] \in 1 .. Len(t) /\ f[k + 1] \notin r
    BY <1>2, <1>3, <2>1 DEF ValuesAt
  <2> HIDE DEF r
  <2>6. sum[More(r, f[k + 1])] = sum[r] + t[f[k + 1]]
    BY <1>5, <2>4, <2>5
  <2>7. sub[More(1 .. k, k + 1)] = sub[1 .. k] + s[k + 1]
    BY <1>5, <2>1
  <2>8. t[f[k + 1]] = s[k + 1]
    BY <1>2, <2>1
  <2> QED BY <2>1, <2>2, <2>3, <2>6, <2>7, <2>8
<1>8. \A k \in Nat : k \in T => k + 1 \in T
  BY <1>7
<1> HIDE DEF T
<1>9. n \in T
  BY <1>n, <1>6, <1>8, SetInduction
<1>10. n \in 0 .. n
  BY <1>n
<1> QED BY <1>1, <1>9, <1>10 DEF T, n

LEMMA TotalType ==
    ASSUME NEW s \in Seq(Int)
    PROVE  Total(s) \in Int
<1>1. PICK sum : SumsUp(s, Len(s), sum) /\ Total(s) = sum[1 .. Len(s)]
  BY TotalSumsUp
<1> QED BY <1>1, SumType

LEMMA EqualTotals ==
    ASSUME NEW s \in Seq(Int), NEW t \in Seq(Int), NEW f,
           Pairs(s, t, f), Covers(s, t, f)
    PROVE  Total(s) = Total(t)
<1>1. PICK sum : SumsUp(t, Len(t), sum) /\ Total(t) = sum[1 .. Len(t)]
  BY TotalSumsUp
<1>2. ValuesAt(f, 1 .. Len(s)) = 1 .. Len(t)
  <2>1. \A i \in 1 .. Len(s) : f[i] \in 1 .. Len(t)
    BY DEF Pairs
  <2>2. \A j \in 1 .. Len(t) : \E i \in 1 .. Len(s) : f[i] = j
    BY DEF Covers
  <2> QED BY <2>1, <2>2 DEF ValuesAt
<1>3. sum[ValuesAt(f, 1 .. Len(s))] = Total(s)
  BY <1>1, SumOfPaired
<1> QED BY <1>1, <1>2, <1>3

LEMMA TotalOfLeftOver ==
    ASSUME NEW s \in Seq(Int), NEW t \in Seq(Int), NEW f, Pairs(s, t, f),
           NEW j \in 1 .. Len(t), \A i \in 1 .. Len(s) : f[i] # j,
           \A k \in 1 .. Len(t) : k # j => \E i \in 1 .. Len(s) : f[i] = k
    PROVE  Total(t) = Total(s) + t[j]
<1>1. PICK sum : SumsUp(t, Len(t), sum) /\ Total(t) = sum[1 .. Len(t)]
  BY TotalSumsUp
<1> DEFINE r == ValuesAt(f, 1 .. Len(s))
<1>2. r \in SUBSET (1 .. Len(t)) /\ j \notin r /\ More(r, j) = 1 .. Len(t)
  <2>1. \A i \in 1 .. Len(s) : f[i] \in 1 .. Len(t)
    BY DEF Pairs
  <2>2. r \in SUBSET (1 .. Len(t)) /\ j \notin r
    BY <2>1 DEF ValuesAt
  <2>3. \A k \in 1 .. Len(t) : k # j => k \in r
    BY DEF ValuesAt
  <2> HIDE DEF r
  <2> QED BY <2>2, <2>3 DEF More
<1>3. sum[r] = Total(s)
  BY <1>1, SumOfPaired
<1> HIDE DEF r
<1>4. sum[More(r, j)] = sum[r] + t[j]
  BY <1>1, <1>2, SumAdds
<1> QED BY <1>1, <1>2, <1>3, <1>4

\* The weights of the postings are numbers, one for each.
Weights(s, c) == [i \in DOMAIN s |-> Weight(s[i], c)]

LEMMA WeightsType ==
    ASSUME NEW s \in Seq(PostingType), NEW c \in Currencies
    PROVE  /\ Weights(s, c) \in Seq(Int) /\ Len(Weights(s, c)) = Len(s)
           /\ \A i \in 1 .. Len(s) : Weights(s, c)[i] = Weight(s[i], c)
           /\ Residual(s, c) = Total(Weights(s, c)) /\ Residual(s, c) \in Int
<1>1. Len(s) \in Nat /\ DOMAIN s = 1 .. Len(s) /\ \A i \in 1 .. Len(s) : s[i] \in PostingType
  OBVIOUS
<1>2. ASSUME NEW p \in PostingType PROVE Weight(p, c) \in Int
  <2> DEFINE rate == IF p.cost # None THEN p.cost ELSE p.price
  <2>1. p.amount \in Int /\ rate \in RateType
    BY DEF PostingType
  <2>2. rate # None => rate.number \in Int
    BY <2>1 DEF RateType
  <2>3. Weight(p, c) = IF rate = None THEN (IF p.currency = c THEN p.amount ELSE 0)
                       ELSE IF rate.currency = c THEN p.amount * rate.number ELSE 0
    BY DEF Weight
  <2> HIDE DEF rate
  <2> QED BY <2>1, <2>2, <2>3
<1>3. Weights(s, c) = [i \in 1 .. Len(s) |-> Weight(s[i], c)]
  BY <1>1 DEF Weights
<1>4. \A i \in 1 .. Len(s) : Weight(s[i], c) \in Int
  BY <1>1, <1>2
<1>5. Weights(s, c) \in [1 .. Len(s) -> Int]
  BY <1>3, <1>4
<1>6. Weights(s, c) \in Seq(Int) /\ Len(Weights(s, c)) = Len(s)
  BY <1>1, <1>3, <1>5
<1>7. Residual(s, c) = Total(Weights(s, c))
  BY DEF Residual, Weights
<1> QED BY <1>3, <1>6, <1>7, TotalType

LEMMA PairedWeights ==
    ASSUME NEW s \in Seq(PostingType), NEW t \in Seq(PostingType), NEW c \in Currencies,
           NEW f, Pairs(s, t, f)
    PROVE  Pairs(Weights(s, c), Weights(t, c), f)
<1>1. /\ Len(Weights(s, c)) = Len(s) /\ \A i \in 1 .. Len(s) : Weights(s, c)[i] = Weight(s[i], c)
      /\ Len(Weights(t, c)) = Len(t) /\ \A i \in 1 .. Len(t) : Weights(t, c)[i] = Weight(t[i], c)
  BY WeightsType
<1>2. \A i \in 1 .. Len(s) : f[i] \in 1 .. Len(t) /\ s[i] = t[f[i]]
  BY DEF Pairs
<1> QED BY <1>1, <1>2 DEF Pairs

-----------------------------------------------------------------------------
\* What the match rules say of two transactions.
LEMMA ExactLegs ==
    ASSUME NEW s \in Seq(PostingType), NEW t \in Seq(PostingType)
    PROVE  MultisetEqual("exact", s, t) <=> Len(s) = Len(t) /\ SameLegs(s, t)
<1>1. \A p, q : PostingEqual("exact", p, q) <=> p = q
  BY DEF PostingEqual
<1> QED BY <1>1, SameLegsIsBijection DEF MultisetEqual

LEMMA ExactLeftover ==
    ASSUME NEW s \in Seq(PostingType), NEW t \in Seq(PostingType), NEW acct,
           SubsetWithLeftover("exact", s, t, acct)
    PROVE  /\ Len(t) = Len(s) + 1
           /\ \E f : /\ Pairs(s, t, f)
                     /\ \A j \in 1 .. Len(t) : (\A i \in 1 .. Len(s) : f[i] # j) => t[j].account = acct
<1>1. \A p, q : PostingEqual("exact", p, q) <=> p = q
  BY DEF PostingEqual
<1>2. Len(t) = Len(s) + 1
  BY DEF SubsetWithLeftover
<1>3. PICK f \in Injection(DOMAIN s, DOMAIN t) :
        /\ \A i \in DOMAIN s : s[i] = t[f[i]]
        /\ \A j \in DOMAIN t \ Range(f) : t[j].account = acct
  BY <1>1 DEF SubsetWithLeftover
<1>4. Pairs(s, t, f)
  BY <1>3, PairsAreInjections
<1>5. DOMAIN f = 1 .. Len(s) /\ DOMAIN t = 1 .. Len(t)
  BY <1>4 DEF Pairs
<1>6. ASSUME NEW j \in 1 .. Len(t), \A i \in 1 .. Len(s) : f[i] # j
      PROVE  t[j].account = acct
  <2>1. j \in DOMAIN t \ Range(f)
    BY <1>5, <1>6 DEF Range
  <2> QED BY <1>3, <2>1
<1> QED BY <1>2, <1>4, <1>6

\* The legs of the postings that state an amount, and of one that does not.
LegType == SUBSET PostingType
StatedLegs(s) == [i \in DOMAIN s |-> Leg({s[i]})]
ElidedLeg(s, acct) == Leg({Units(acct, -Residual(s, c), c) : c \in Currencies})

LEMMA LegsType ==
    ASSUME NEW s \in Seq(PostingType)
    PROVE  /\ StatedLegs(s) \in Seq(LegType) /\ Len(StatedLegs(s)) = Len(s)
           /\ \A i \in 1 .. Len(s) : StatedLegs(s)[i] = Leg({s[i]})
           /\ \A acct \in Accounts : ElidedLeg(s, acct) \in LegType
<1>1. Len(s) \in Nat /\ DOMAIN s = 1 .. Len(s) /\ \A i \in 1 .. Len(s) : s[i] \in PostingType
  OBVIOUS
<1>2. StatedLegs(s) = [i \in 1 .. Len(s) |-> Leg({s[i]})]
  BY <1>1 DEF StatedLegs
<1>3. \A i \in 1 .. Len(s) : Leg({s[i]}) \in LegType
  BY <1>1 DEF Leg, LegType
<1>4. StatedLegs(s) \in [1 .. Len(s) -> LegType]
  BY <1>2, <1>3
<1>5. StatedLegs(s) \in Seq(LegType) /\ Len(StatedLegs(s)) = Len(s)
  BY <1>1, <1>4
<1>6. ASSUME NEW acct \in Accounts, NEW c \in Currencies
      PROVE  Units(acct, -Residual(s, c), c) \in PostingType
  <2>1. Residual(s, c) \in Int
    BY WeightsType
  <2>2. -Residual(s, c) \in Int
    BY <2>1
  <2> QED BY <2>2 DEF Units, PostingType, RateType
<1>7. \A acct \in Accounts : ElidedLeg(s, acct) \in LegType
  BY <1>6 DEF ElidedLeg, Leg, LegType
<1> QED BY <1>2, <1>5, <1>7

LEMMA PairedLegs ==
    ASSUME NEW s \in Seq(PostingType), NEW t \in Seq(PostingType), NEW f, Pairs(s, t, f)
    PROVE  Pairs(StatedLegs(s), StatedLegs(t), f)
<1>1. /\ Len(StatedLegs(s)) = Len(s) /\ \A i \in 1 .. Len(s) : StatedLegs(s)[i] = Leg({s[i]})
      /\ Len(StatedLegs(t)) = Len(t) /\ \A i \in 1 .. Len(t) : StatedLegs(t)[i] = Leg({t[i]})
  BY LegsType
<1>2. \A i \in 1 .. Len(s) : f[i] \in 1 .. Len(t) /\ s[i] = t[f[i]]
  BY DEF Pairs
<1>3. \A i \in 1 .. Len(s) : StatedLegs(s)[i] = StatedLegs(t)[f[i]]
  BY <1>1, <1>2
<1>4. Len(StatedLegs(s)) = Len(s) /\ Len(StatedLegs(t)) = Len(t)
  BY <1>1
<1> QED BY <1>3, <1>4 DEF Pairs

\* Equal postings have equal legs, and leave the same open for one that is elided.
LEMMA EqualPostings ==
    ASSUME NEW s \in Seq(PostingType), NEW t \in Seq(PostingType), SameLegs(s, t)
    PROVE  /\ SameLegs(StatedLegs(s), StatedLegs(t))
           /\ \A acct : ElidedLeg(s, acct) = ElidedLeg(t, acct)
<1>1. PICK f : Pairs(s, t, f) /\ Covers(s, t, f)
  BY DEF SameLegs
<1>2. Covers(StatedLegs(s), StatedLegs(t), f)
  BY <1>1, LegsType DEF Covers
<1>3. SameLegs(StatedLegs(s), StatedLegs(t))
  BY <1>1, <1>2, PairedLegs DEF SameLegs
<1>4. ASSUME NEW c \in Currencies PROVE Residual(s, c) = Residual(t, c)
  <2>1. Weights(s, c) \in Seq(Int) /\ Weights(t, c) \in Seq(Int)
    BY WeightsType
  <2>2. Pairs(Weights(s, c), Weights(t, c), f)
    BY <1>1, PairedWeights
  <2>3. Covers(Weights(s, c), Weights(t, c), f)
    BY <1>1, WeightsType DEF Covers
  <2>4. Total(Weights(s, c)) = Total(Weights(t, c))
    BY <2>1, <2>2, <2>3, EqualTotals
  <2> QED BY <2>4, WeightsType
<1>5. ASSUME NEW acct PROVE ElidedLeg(s, acct) = ElidedLeg(t, acct)
  <2>1. {Units(acct, -Residual(s, c), c) : c \in Currencies}
          = {Units(acct, -Residual(t, c), c) : c \in Currencies}
    BY <1>4
  <2> QED BY <2>1 DEF ElidedLeg
<1> QED BY <1>3, <1>5

LEMMA BothAppended ==
    ASSUME NEW V, NEW s \in Seq(V), NEW t \in Seq(V), NEW x \in V,
           Len(s) = Len(t), SameLegs(s, t)
    PROVE  SameLegs(Append(s, x), Append(t, x))
<1>1. PICK f : Pairs(s, t, f) /\ Covers(s, t, f)
  BY DEF SameLegs
<1> DEFINE n == Len(s)
           bs == Append(s, x)
           bt == Append(t, x)
           g == [i \in 1 .. n + 1 |-> IF i = n + 1 THEN n + 1 ELSE f[i]]
<1>3. /\ n \in Nat
      /\ Len(bs) = n + 1 /\ Len(bt) = n + 1 /\ bs[n + 1] = bt[n + 1]
      /\ \A i \in 1 .. n : bs[i] = s[i] /\ bt[i] = t[i]
  OBVIOUS
<1>4. \A i \in 1 .. n : f[i] \in 1 .. n /\ s[i] = t[f[i]]
  BY <1>1 DEF Pairs
<1>5. \A i, j \in 1 .. n : f[i] = f[j] => i = j
  BY <1>1 DEF Pairs
<1>6. \A j \in 1 .. n : \E i \in 1 .. n : f[i] = j
  BY <1>1 DEF Covers
<1> HIDE DEF n, bs, bt
<1>7. \A i \in 1 .. n + 1 : (i = n + 1 /\ g[i] = n + 1) \/ (i \in 1 .. n /\ g[i] = f[i])
  BY <1>3
<1>8. /\ g \in [1 .. n + 1 -> 1 .. n + 1]
      /\ \A i \in 1 .. n : g[i] = f[i]
      /\ g[n + 1] = n + 1 /\ n + 1 \notin 1 .. n /\ n + 1 \in 1 .. n + 1
  BY <1>3, <1>4
<1> HIDE DEF g
<1>9. \A i, j \in 1 .. n + 1 : g[i] = g[j] => i = j
  BY <1>4, <1>5, <1>7, <1>8
<1>10. \A i \in 1 .. n + 1 : bs[i] = bt[g[i]]
  BY <1>3, <1>4, <1>7
<1>11. \A j \in 1 .. n + 1 : \E i \in 1 .. n + 1 : g[i] = j
  <2> SUFFICES ASSUME NEW j \in 1 .. n + 1 PROVE \E i \in 1 .. n + 1 : g[i] = j
    OBVIOUS
  <2>1. CASE j = n + 1
    BY <1>8, <2>1
  <2>2. CASE j # n + 1
    <3>1. j \in 1 .. n
      BY <1>3, <2>2
    <3>2. PICK i \in 1 .. n : f[i] = j
      BY <1>6, <3>1
    <3>3. i \in 1 .. n + 1
      BY <1>3
    <3> QED BY <1>8, <3>2, <3>3
  <2> QED BY <2>1, <2>2
<1>12. Pairs(bs, bt, g) /\ Covers(bs, bt, g)
  BY <1>3, <1>8, <1>9, <1>10, <1>11 DEF Pairs, Covers
<1> QED BY <1>12 DEF SameLegs, bs, bt

LEMMA LeftOverAppended ==
    ASSUME NEW V, NEW s \in Seq(V), NEW t \in Seq(V), Len(t) = Len(s) + 1,
           NEW f, Pairs(s, t, f), NEW j \in 1 .. Len(t), \A i \in 1 .. Len(s) : f[i] # j,
           \A k \in 1 .. Len(t) : k # j => \E i \in 1 .. Len(s) : f[i] = k
    PROVE  SameLegs(Append(s, t[j]), t)
<1> DEFINE n == Len(s)
           bs == Append(s, t[j])
           g == [i \in 1 .. n + 1 |-> IF i = n + 1 THEN j ELSE f[i]]
<1>7. /\ n \in Nat /\ Len(t) = n + 1
      /\ Len(bs) = n + 1 /\ bs[n + 1] = t[j]
      /\ \A i \in 1 .. n : bs[i] = s[i]
  OBVIOUS
<1>8. \A i \in 1 .. n : f[i] \in 1 .. n + 1 /\ s[i] = t[f[i]]
  BY <1>7 DEF Pairs
<1>9. \A i, k \in 1 .. n : f[i] = f[k] => i = k
  BY DEF Pairs
<1>10. /\ j \in 1 .. n + 1 /\ \A i \in 1 .. n : f[i] # j
       /\ \A k \in 1 .. n + 1 : k # j => \E i \in 1 .. n : f[i] = k
  BY <1>7
<1> HIDE DEF n, bs
<1>11. \A i \in 1 .. n + 1 : (i = n + 1 /\ g[i] = j) \/ (i \in 1 .. n /\ g[i] = f[i])
  BY <1>7
<1>12. /\ g \in [1 .. n + 1 -> 1 .. n + 1]
       /\ \A i \in 1 .. n : g[i] = f[i] /\ i \in 1 .. n + 1
       /\ g[n + 1] = j /\ n + 1 \in 1 .. n + 1
  BY <1>7, <1>8, <1>10
<1> HIDE DEF g
<1>13. \A i, k \in 1 .. n + 1 : g[i] = g[k] => i = k
  BY <1>9, <1>10, <1>11
<1>14. ASSUME NEW i \in 1 .. n + 1 PROVE bs[i] = t[g[i]]
  <2>1. CASE i = n + 1 /\ g[i] = j
    BY <1>7, <2>1
  <2>2. CASE i \in 1 .. n /\ g[i] = f[i]
    <3>1. bs[i] = s[i] /\ s[i] = t[f[i]]
      BY <1>7, <1>8, <2>2
    <3> QED BY <2>2, <3>1
  <2> QED BY <1>11, <2>1, <2>2
<1>15. ASSUME NEW k \in 1 .. n + 1 PROVE \E i \in 1 .. n + 1 : g[i] = k
  <2>1. CASE k = j
    BY <1>12, <2>1
  <2>2. CASE k # j
    <3>1. PICK i \in 1 .. n : f[i] = k
      BY <1>10, <2>2
    <3> QED BY <1>12, <3>1
  <2> QED BY <2>1, <2>2
<1>16. Pairs(bs, t, g) /\ Covers(bs, t, g)
  BY <1>7, <1>12, <1>13, <1>14, <1>15 DEF Pairs, Covers
<1> QED BY <1>16 DEF SameLegs, bs

\* The posting left over is the one that is elided, if the side that states it
\* balances and states plain units there.
LEMMA LeftOverIsElided ==
    ASSUME NEW s \in Seq(PostingType), NEW t \in Seq(PostingType), NEW acct \in Accounts,
           SubsetWithLeftover("exact", s, t, acct), \A c \in Currencies : Residual(t, c) = 0,
           \A i \in DOMAIN t : t[i].account = acct => Plain(t[i])
    PROVE  SameLegs(Append(StatedLegs(s), ElidedLeg(s, acct)), StatedLegs(t))
<1>1. Len(t) = Len(s) + 1
  BY ExactLeftover
<1>2. PICK f : /\ Pairs(s, t, f)
               /\ \A j \in 1 .. Len(t) : (\A i \in 1 .. Len(s) : f[i] # j) => t[j].account = acct
  BY ExactLeftover
<1>3. PICK j \in 1 .. Len(t) :
           /\ \A i \in 1 .. Len(s) : f[i] # j
           /\ \A k \in 1 .. Len(t) : k # j => \E i \in 1 .. Len(s) : f[i] = k
  BY <1>1, <1>2, OneIsLeftOver
<1> DEFINE p == t[j]
<1>4. p \in PostingType /\ p.account = acct /\ p.cost = None /\ p.price = None
  <2>1. p \in PostingType /\ DOMAIN t = 1 .. Len(t)
    OBVIOUS
  <2> QED BY <1>2, <1>3, <2>1 DEF Plain
<1>5. ASSUME NEW c \in Currencies
      PROVE  -Residual(s, c) = IF p.currency = c THEN p.amount ELSE 0
  <2> DEFINE ws == Weights(s, c)
             wt == Weights(t, c)
  <2>1. /\ ws \in Seq(Int) /\ Len(ws) = Len(s) /\ Total(ws) = Residual(s, c)
        /\ wt \in Seq(Int) /\ Len(wt) = Len(t) /\ Total(wt) = Residual(t, c)
        /\ wt[j] = Weight(p, c) /\ Residual(s, c) \in Int
    BY WeightsType
  <2>2. Pairs(ws, wt, f)
    BY <1>2, PairedWeights
  <2> HIDE DEF ws, wt, p
  <2>3. Total(wt) = Total(ws) + wt[j]
    BY <1>3, <2>1, <2>2, TotalOfLeftOver
  <2>4. Weight(p, c) = IF p.currency = c THEN p.amount ELSE 0
    BY <1>4 DEF Weight
  <2>5. p.amount \in Int /\ Residual(t, c) = 0
    BY <1>4 DEF PostingType
  <2> DEFINE w == Weight(p, c)
             r == Residual(s, c)
  <2>6. w \in Int
    BY <2>4, <2>5
  <2>7. r \in Int /\ 0 = r + w
    BY <2>1, <2>3, <2>5
  <2> HIDE DEF w, r
  <2>8. -r = w
    BY <2>6, <2>7
  <2> QED BY <2>4, <2>8 DEF w, r
<1>6. p = Units(acct, p.amount, p.currency) /\ p.currency \in Currencies
  BY <1>4 DEF PostingType, Units
<1>7. \A n, c : Units(acct, n, c).amount = n
  BY DEF Units
<1> HIDE DEF p
<1>8. ElidedLeg(s, acct) = Leg({p})
  <2>1. ASSUME NEW u \in ElidedLeg(s, acct) PROVE u \in Leg({p})
    <3>1. PICK c \in Currencies : u = Units(acct, -Residual(s, c), c)
      BY DEF ElidedLeg, Leg
    <3>2. u.amount # 0 /\ u.amount = -Residual(s, c)
      BY <1>7, <3>1 DEF ElidedLeg, Leg
    <3>3. p.currency = c /\ -Residual(s, c) = p.amount
      BY <1>5, <3>2
    <3>4. u = p
      BY <1>6, <3>1, <3>3
    <3> QED BY <3>2, <3>4 DEF Leg
  <2>2. ASSUME NEW u \in Leg({p}) PROVE u \in ElidedLeg(s, acct)
    <3>1. u = p /\ u.amount # 0
      BY DEF Leg
    <3>2. p = Units(acct, -Residual(s, p.currency), p.currency)
      BY <1>5, <1>6
    <3> QED BY <1>6, <3>1, <3>2 DEF ElidedLeg, Leg
  <2> QED BY <2>1, <2>2
<1>9. /\ StatedLegs(s) \in Seq(LegType) /\ Len(StatedLegs(s)) = Len(s)
      /\ StatedLegs(t) \in Seq(LegType) /\ Len(StatedLegs(t)) = Len(t)
      /\ StatedLegs(t)[j] = Leg({p})
  BY LegsType DEF p
<1>10. Pairs(StatedLegs(s), StatedLegs(t), f)
  BY <1>2, PairedLegs
<1> QED BY <1>1, <1>3, <1>8, <1>9, <1>10, LeftOverAppended

-----------------------------------------------------------------------------
LEMMA FactsType ==
    ASSUME NEW d \in Directives
    PROVE  /\ Facts[d].keyed \in Seq(PostingType)
           /\ Facts[d].elided \in Accounts \cup {None}
           /\ Dest(d) \in Files
           /\ Legs(Facts[d]) = IF Facts[d].elided = None THEN StatedLegs(Facts[d].keyed)
                               ELSE Append(StatedLegs(Facts[d].keyed),
                                           ElidedLeg(Facts[d].keyed, Facts[d].elided))
           /\ Legs(Facts[d]) \in Seq(LegType)
<1>1. /\ Facts[d].keyed \in Seq(PostingType)
      /\ Facts[d].elided \in Accounts \cup {None} /\ Facts[d].dest \in Files
  BY DirectivesAssumption
<1>2. Legs(Facts[d]) = IF Facts[d].elided = None THEN StatedLegs(Facts[d].keyed)
                       ELSE Append(StatedLegs(Facts[d].keyed),
                                   ElidedLeg(Facts[d].keyed, Facts[d].elided))
  BY DEF Legs, Stated, Elided, StatedLegs, ElidedLeg
<1>3. StatedLegs(Facts[d].keyed) \in Seq(LegType)
  BY <1>1, LegsType
<1>4. Facts[d].elided # None => ElidedLeg(Facts[d].keyed, Facts[d].elided) \in LegType
  BY <1>1, LegsType
<1>5. Legs(Facts[d]) \in Seq(LegType)
  BY <1>2, <1>3, <1>4
<1> QED BY <1>1, <1>2, <1>5 DEF Dest

LEMMA SkipMeaning ==
    ASSUME NEW a, NEW b, NEW w
    PROVE  SkipCapable(MatchKind(a, b, w))
               <=> ~IdConflict(a, b) /\ (IdEqual(a, b) \/ Exact(a, b))
<1>1. CASE IdConflict(a, b)
  <2>1. MatchKind(a, b, w) = "none"
    BY <1>1 DEF MatchKind, IdEqual
  <2> QED BY <1>1, <2>1 DEF SkipCapable
<1>2. CASE ~IdConflict(a, b) /\ IdEqual(a, b)
  <2>1. MatchKind(a, b, w) = "id"
    BY <1>2 DEF MatchKind
  <2> QED BY <1>2, <2>1 DEF SkipCapable
<1>3. CASE ~IdConflict(a, b) /\ ~IdEqual(a, b)
  <2>1. MatchKind(a, b, w) = IF Exact(a, b) THEN "exact"
                             ELSE IF Structural(a, b, w) THEN "structural" ELSE "none"
    BY <1>3 DEF MatchKind
  <2> QED BY <1>3, <2>1 DEF SkipCapable
<1> QED BY <1>1, <1>2, <1>3

LEMMA SharedKeysSymmetric ==
    ASSUME NEW a, NEW b
    PROVE  /\ SharedKeys(a, b) = SharedKeys(b, a)
           /\ IdConflict(a, b) <=> IdConflict(b, a)
           /\ IdEqual(a, b) <=> IdEqual(b, a)
BY DEF SharedKeys, IdConflict, IdEqual

\* Whether two directives match by id or exactly (equality.go) does not depend on
\* which of them was filed first.
THEOREM SkipIsSymmetric ==
    ASSUME NEW x \in Directives, NEW d \in Directives, SkipCapable(Match[x][d])
    PROVE  SkipCapable(Match[d][x])
<1> DEFINE a == Facts[x]
           b == Facts[d]
<1>1. /\ Match[x][d] = MatchKind(a, b, Window[Dest(d)])
      /\ Match[d][x] = MatchKind(b, a, Window[Dest(x)])
  BY DEF Match
<1>2. a.keyed \in Seq(PostingType) /\ b.keyed \in Seq(PostingType)
  BY FactsType
<1> HIDE DEF a, b
<1>3. ~IdConflict(a, b) /\ (IdEqual(a, b) \/ Exact(a, b))
  BY <1>1, SkipMeaning
<1>4. ASSUME Exact(a, b) PROVE Exact(b, a)
  <2>1. a.kind = b.kind /\ a.day = b.day /\ a.text = b.text /\ MatchPostings("exact", a, b)
    BY <1>4 DEF Exact
  <2>2. MultisetEqual("exact", a.keyed, b.keyed) => MultisetEqual("exact", b.keyed, a.keyed)
    BY <1>2, ExactLegs, SameLegsSymmetric
  <2>3. MatchPostings("exact", b, a)
    BY <2>1, <2>2 DEF MatchPostings
  <2> QED BY <2>1, <2>3 DEF Exact
<1>5. ~IdConflict(b, a) /\ (IdEqual(b, a) \/ Exact(b, a))
  BY <1>3, <1>4, SharedKeysSymmetric
<1> QED BY <1>1, <1>5, SkipMeaning

LEMMA EventIsSame ==
    ASSUME NEW x \in Directives, NEW d \in Directives
    PROVE  SameEvent(Facts[x], Facts[d]) <=>
             \/ IdEqual(Facts[x], Facts[d])
             \/ /\ ~IdConflict(Facts[x], Facts[d])
                /\ Facts[x].kind = Facts[d].kind /\ Facts[x].day = Facts[d].day
                /\ Facts[x].text = Facts[d].text
                /\ SameLegs(Legs(Facts[x]), Legs(Facts[d]))
<1>1. Legs(Facts[x]) \in Seq(LegType) /\ Legs(Facts[d]) \in Seq(LegType)
  BY FactsType
<1>2. SameLegs(Legs(Facts[x]), Legs(Facts[d])) <=>
        \E f \in Bijection(DOMAIN Legs(Facts[x]), DOMAIN Legs(Facts[d])) :
           \A i \in DOMAIN Legs(Facts[x]) : Legs(Facts[x])[i] = Legs(Facts[d])[f[i]]
  BY <1>1, SameLegsIsBijection
<1> QED BY <1>2 DEF SameEvent

LEMMA SkipReflexive ==
    ASSUME NEW d \in Directives
    PROVE  SkipCapable(Match[d][d])
<1> DEFINE a == Facts[d]
<1>1. Match[d][d] = MatchKind(a, a, Window[Dest(d)]) /\ a.keyed \in Seq(PostingType)
  BY FactsType DEF Match
<1> HIDE DEF a
<1>2. MatchPostings("exact", a, a)
  BY <1>1, ExactLegs, SameLegsReflexive DEF MatchPostings
<1>3. ~IdConflict(a, a) /\ Exact(a, a)
  BY <1>2 DEF IdConflict, Exact
<1> QED BY <1>1, <1>3, SkipMeaning

\* What is skipped records the same event as what it is skipped for, unless one of
\* the two elides a posting that the other states (equality.go's
\* subsetWithLeftoverAccount), and that one does not balance, or holds no plain units
\* there: only then the posting left over need not be the one that was elided.
THEOREM SkipIsSameEvent ==
    ASSUME NEW x \in Directives, NEW d \in Directives, SkipCapable(Match[x][d]),
           ~MatchIsPresumed(Facts[x], Facts[d]), ~MatchIsPresumed(Facts[d], Facts[x])
    PROVE  SameEvent(Facts[x], Facts[d])
<1> DEFINE a == Facts[x]
           b == Facts[d]
           s == a.keyed
           t == b.keyed
<1>1. Match[x][d] = MatchKind(a, b, Window[Dest(d)])
  BY DEF Match
<1>2. /\ s \in Seq(PostingType) /\ a.elided \in Accounts \cup {None}
      /\ Legs(a) = IF a.elided = None THEN StatedLegs(s)
                   ELSE Append(StatedLegs(s), ElidedLeg(s, a.elided))
  BY FactsType
<1>3. /\ t \in Seq(PostingType) /\ b.elided \in Accounts \cup {None}
      /\ Legs(b) = IF b.elided = None THEN StatedLegs(t)
                   ELSE Append(StatedLegs(t), ElidedLeg(t, b.elided))
  BY FactsType
<1>4. SameEvent(a, b) <=>
             \/ IdEqual(a, b)
             \/ /\ ~IdConflict(a, b)
                /\ a.kind = b.kind /\ a.day = b.day /\ a.text = b.text
                /\ SameLegs(Legs(a), Legs(b))
  BY EventIsSame
<1>5. ~MatchIsPresumed(a, b) /\ ~MatchIsPresumed(b, a)
  OBVIOUS
<1> HIDE DEF a, b
<1>6. ~IdConflict(a, b) /\ (IdEqual(a, b) \/ Exact(a, b))
  BY <1>1, SkipMeaning
<1>7. ASSUME Exact(a, b) PROVE SameLegs(Legs(a), Legs(b))
  <2>1. MatchPostings("exact", a, b)
    BY <1>7 DEF Exact
  <2>2. CASE a.elided = b.elided /\ MultisetEqual("exact", s, t)
    <3> HIDE DEF s, t
    <3>1. Len(s) = Len(t) /\ SameLegs(s, t)
      BY <1>2, <1>3, <2>2, ExactLegs
    <3>2. /\ SameLegs(StatedLegs(s), StatedLegs(t))
          /\ ElidedLeg(s, a.elided) = ElidedLeg(t, a.elided)
      BY <1>2, <1>3, <3>1, EqualPostings
    <3>3. CASE a.elided = None
      BY <1>2, <1>3, <2>2, <3>2, <3>3
    <3>4. CASE a.elided # None
      <4>1. /\ StatedLegs(s) \in Seq(LegType) /\ StatedLegs(t) \in Seq(LegType)
            /\ Len(StatedLegs(s)) = Len(StatedLegs(t))
            /\ ElidedLeg(s, a.elided) \in LegType
        BY <1>2, <1>3, <3>1, <3>4, LegsType
      <4>2. SameLegs(Append(StatedLegs(s), ElidedLeg(s, a.elided)),
                     Append(StatedLegs(t), ElidedLeg(s, a.elided)))
        BY <3>2, <4>1, BothAppended
      <4> QED BY <1>2, <1>3, <2>2, <3>2, <3>4, <4>2
    <3> QED BY <3>3, <3>4
  <2>3. CASE /\ a.elided # None /\ b.elided = None
             /\ SubsetWithLeftover("exact", s, t, a.elided)
    <3>1. /\ a.elided \in Accounts
          /\ \A c \in Currencies : Residual(t, c) = 0
          /\ \A i \in DOMAIN t : t[i].account = a.elided => Plain(t[i])
      BY <1>2, <1>5, <2>3 DEF MatchIsPresumed
    <3> HIDE DEF s, t
    <3>2. SameLegs(Append(StatedLegs(s), ElidedLeg(s, a.elided)), StatedLegs(t))
      BY <1>2, <1>3, <2>3, <3>1, LeftOverIsElided
    <3> QED BY <1>2, <1>3, <2>3, <3>2
  <2>4. CASE /\ a.elided = None /\ b.elided # None
             /\ SubsetWithLeftover("exact", t, s, b.elided)
    <3>1. /\ b.elided \in Accounts
          /\ \A c \in Currencies : Residual(s, c) = 0
          /\ \A i \in DOMAIN s : s[i].account = b.elided => Plain(s[i])
      BY <1>3, <1>5, <2>4 DEF MatchIsPresumed
    <3> HIDE DEF s, t
    <3>2. SameLegs(Append(StatedLegs(t), ElidedLeg(t, b.elided)), StatedLegs(s))
      BY <1>2, <1>3, <2>4, <3>1, LeftOverIsElided
    <3>3. Append(StatedLegs(t), ElidedLeg(t, b.elided)) \in Seq(LegType)
          /\ StatedLegs(s) \in Seq(LegType)
      BY <1>2, <1>3, <3>1, LegsType
    <3>4. SameLegs(StatedLegs(s), Append(StatedLegs(t), ElidedLeg(t, b.elided)))
      BY <3>2, <3>3, SameLegsSymmetric
    <3> QED BY <1>2, <1>3, <2>4, <3>4
  <2> QED BY <2>1, <2>2, <2>3, <2>4 DEF MatchPostings
<1>8. Exact(a, b) => a.kind = b.kind /\ a.day = b.day /\ a.text = b.text
  BY DEF Exact
<1>9. SameEvent(a, b)
  BY <1>4, <1>6, <1>7, <1>8
<1> QED BY <1>9 DEF a, b

\* So an entry that a directive is skipped for records it.
LEMMA SkipIsRecord ==
    ASSUME NEW x \in Directives, NEW d \in Directives, SkipCapable(Match[x][d])
    PROVE  Records(Facts[x], Facts[d])
<1>1. CASE MatchIsPresumed(Facts[x], Facts[d]) \/ MatchIsPresumed(Facts[d], Facts[x])
  <2>1. Match[x][d] = MatchKind(Facts[x], Facts[d], Window[Dest(d)])
    BY DEF Match
  <2>2. IdEqual(Facts[x], Facts[d]) \/ Exact(Facts[x], Facts[d])
    BY <2>1, SkipMeaning
  <2> QED BY <1>1, <2>2 DEF Records, SameEvent
<1>2. CASE ~MatchIsPresumed(Facts[x], Facts[d]) /\ ~MatchIsPresumed(Facts[d], Facts[x])
  BY <1>2, SkipIsSameEvent DEF Records
<1> QED BY <1>1, <1>2

-----------------------------------------------------------------------------
\* Why no event is lost. The books of a file are its entries and those that are
\* planned for it, until they have been written or have failed to be.
InBooks(p) == ToSet(disk[p]) \cup (IF pc = "route" \/ p \in left THEN ToSet(plan[p]) ELSE {})

\* What a run reads, it has an entry for that the directive would be skipped for.
Recorded(d, entries) == \E e \in entries : e.d \in Directives /\ SkipCapable(Match[e.d][d])

Kept == \A in \in completed : \A d \in DirectivesOf(in) : Recorded(d, ToSet(disk[Dest(d)]))

IndexInBooks == pc = "route" => \A p \in Files : ToSet(index[p]) \subseteq InBooks(p)

\* What has been read of the input is in the books, if the run may still succeed.
Succeeding == pc = "route" \/ (pc # "idle" /\ ~failed /\ ~flags.dryRun)
ReadIsRecorded ==
    Succeeding => \A d \in DirectivesOf(input) :
                     d \in DirectivesOf(todo) \/ Recorded(d, InBooks(Dest(d)))

Phases ==
    /\ pc \in {"merge", "write"} => todo = <<>>
    /\ pc = "write" => /\ left # {}
                       /\ draft = Merged(Min(left), disk[Min(left)], plan[Min(left)])

EventInv == Kept /\ IndexInBooks /\ ReadIsRecorded /\ Phases

LEMMA DirectivesOfType ==
    ASSUME NEW in \in Seq(SourceType), NEW d \in DirectivesOf(in)
    PROVE  d \in Directives /\ Dest(d) \in Files
<1>1. PICK i \in DOMAIN in : \E j \in DOMAIN in[i].directives : d = in[i].directives[j]
  BY DirectivesOfRead
<1>2. PICK j \in DOMAIN in[i].directives : d = in[i].directives[j]
  BY <1>1
<1>3. in[i].directives \in Seq(Directives)
  <2>1. in[i] \in SourceType
    OBVIOUS
  <2> QED BY <2>1 DEF SourceType
<1>4. d \in Directives
  BY <1>2, <1>3
<1> QED BY <1>4, FactsType

LEMMA MergedSet ==
    ASSUME NEW p \in Files, NEW file \in Seq(EntryType), NEW inserts \in Seq(EntryType)
    PROVE  ToSet(Merged(p, file, inserts)) = ToSet(file) \cup ToSet(inserts)
<1> DEFINE all == file \o inserts
           u == Merged(p, file, inserts)
<1>1. u \in Seq(EntryType)
  BY MergedPicks
<1>2. PICK at : Picks(all, DOMAIN all, u, at)
  BY MergedPicks
<1>3. ToSet(all) = ToSet(file) \cup ToSet(inserts)
  BY ToSetConcat
<1> HIDE DEF u, all
<1>4. DOMAIN u = 1 .. Len(u)
  BY <1>1
<1>5. ASSUME NEW k \in DOMAIN u PROVE u[k] \in ToSet(all)
  <2>1. at[k] \in DOMAIN all /\ u[k] = all[at[k]]
    BY <1>2, <1>4 DEF Picks
  <2> QED BY <2>1 DEF ToSet
<1>6. ASSUME NEW i \in DOMAIN all PROVE all[i] \in ToSet(u)
  <2>1. PICK k \in 1 .. Len(u) : at[k] = i
    BY <1>2 DEF Picks
  <2>2. u[k] = all[i]
    BY <1>2, <2>1 DEF Picks
  <2> QED BY <1>4, <2>2 DEF ToSet
<1>7. \A x \in ToSet(u) : x \in ToSet(all)
  BY <1>5 DEF ToSet
<1>8. \A x \in ToSet(all) : x \in ToSet(u)
  BY <1>6 DEF ToSet
<1>9. ToSet(u) = ToSet(all)
  BY <1>7, <1>8
<1> QED BY <1>3, <1>9 DEF u

\* A rename leaves the books of every file as they are.
LEMMA RenameKeepsBooks ==
    ASSUME TypeOK, Phases, Rename
    PROVE  \A p \in Files : InBooks(p) = InBooks(p)' /\ ToSet(disk[p]) \subseteq ToSet(disk'[p])
<1> DEFINE m == Min(left)
<1>1. left # {} /\ draft = Merged(m, disk[m], plan[m]) /\ pc = "write"
  BY DEF Phases, Rename
<1>2. m \in left /\ m \in Files
  BY <1>1, NextFile
<1>3. disk[m] \in Seq(EntryType) /\ plan[m] \in Seq(EntryType)
  BY <1>2 DEF TypeOK
<1>4. ToSet(draft) = ToSet(disk[m]) \cup ToSet(plan[m])
  BY <1>1, <1>2, <1>3, MergedSet
<1>5. /\ disk' = [disk EXCEPT ![m] = draft] /\ plan' = plan /\ left' = left \ {m}
      /\ pc' = "merge" /\ disk \in [Files -> Seq(EntryType)]
  BY DEF Rename, TypeOK
<1> HIDE DEF m
<1>6. disk'[m] = draft /\ \A p \in Files : p # m => disk'[p] = disk[p]
  BY <1>2, <1>5
<1> SUFFICES ASSUME NEW p \in Files
             PROVE  InBooks(p) = InBooks(p)' /\ ToSet(disk[p]) \subseteq ToSet(disk'[p])
  OBVIOUS
<1>7. CASE p = m
  BY <1>1, <1>2, <1>4, <1>5, <1>6, <1>7 DEF InBooks
<1>8. CASE p # m
  BY <1>1, <1>5, <1>6, <1>8 DEF InBooks
<1> QED BY <1>7, <1>8

\* What is accepted is in the books, and so is what it is skipped for.
LEMMA AcceptRecords ==
    ASSUME TypeOK, Accept, NEW d \in Directives, d = NextDirective
    PROVE  /\ Recorded(d, InBooks(Dest(d))')
           /\ \A p \in Files : InBooks(p) \subseteq InBooks(p)'
           /\ IndexInBooks => IndexInBooks'
<1> DEFINE e == Entry(d, ToComment(index, d))
<1>1. Dest(d) \in Files /\ pc = "route" /\ pc' = "route" /\ disk' = disk
  BY FactsType DEF Accept, AtDirective
<1>2. e \in EntryType /\ e.d = d
  <2>1. ToComment(index, d) \in BOOLEAN
    BY DEF ToComment, InOtherActive
  <2> QED BY <1>1, <2>1 DEF Entry, EntryType
<1>3. /\ plan' = [plan EXCEPT ![Dest(d)] = Append(@, e)]
      /\ index' = [index EXCEPT ![Dest(d)] = Append(@, e)]
  BY DEF Accept, Indexed
<1>4. plan \in [Files -> Seq(EntryType)] /\ index \in [Files -> Seq(EntryType)]
  BY DEF TypeOK
<1> HIDE DEF e
<1>5. /\ plan'[Dest(d)] = plan[Dest(d)] \o <<e>>
      /\ \A q \in Files : q # Dest(d) => plan'[q] = plan[q]
  BY <1>1, <1>2, <1>3, <1>4, AppendEntry
<1>6. /\ index'[Dest(d)] = index[Dest(d)] \o <<e>>
      /\ \A q \in Files : q # Dest(d) => index'[q] = index[q]
  BY <1>1, <1>2, <1>3, <1>4, AppendEntry
<1>7. \A s \in Seq(EntryType) : ToSet(s \o <<e>>) = ToSet(s) \cup {e}
  <2>1. <<e>> \in Seq(EntryType) /\ ToSet(<<e>>) = {e}
    BY <1>2 DEF ToSet
  <2>2. \A s \in Seq(EntryType) : ToSet(s \o <<e>>) = ToSet(s) \cup ToSet(<<e>>)
    BY <2>1, ToSetConcat
  <2> QED BY <2>1, <2>2
<1>8. /\ ToSet(plan'[Dest(d)]) = ToSet(plan[Dest(d)]) \cup {e}
      /\ ToSet(index'[Dest(d)]) = ToSet(index[Dest(d)]) \cup {e}
  BY <1>1, <1>4, <1>5, <1>6, <1>7
<1>9. \A p \in Files : InBooks(p) = ToSet(disk[p]) \cup ToSet(plan[p])
                       /\ InBooks(p)' = ToSet(disk[p]) \cup ToSet(plan'[p])
  BY <1>1 DEF InBooks
<1>10. e \in InBooks(Dest(d))'
  BY <1>1, <1>8, <1>9
<1>11. Recorded(d, InBooks(Dest(d))')
  BY <1>1, <1>2, <1>10, SkipReflexive DEF Recorded
<1>12. ASSUME NEW p \in Files PROVE InBooks(p) \subseteq InBooks(p)'
  BY <1>5, <1>8, <1>9
<1>13. ASSUME IndexInBooks PROVE IndexInBooks'
  <2>1. ASSUME NEW p \in Files PROVE ToSet(index'[p]) \subseteq InBooks(p)'
    <3>1. ToSet(index[p]) \subseteq InBooks(p)
      BY <1>1, <1>13 DEF IndexInBooks
    <3>2. CASE p = Dest(d)
      BY <1>8, <1>10, <1>12, <3>1, <3>2
    <3>3. CASE p # Dest(d)
      BY <1>6, <1>12, <3>1, <3>3
    <3> QED BY <3>2, <3>3
  <2> QED BY <2>1 DEF IndexInBooks
<1> QED BY <1>11, <1>12, <1>13

LEMMA SkipRecords ==
    ASSUME TypeOK, IndexInBooks, Skip, NEW d \in Directives, d = NextDirective
    PROVE  Recorded(d, InBooks(Dest(d)))
<1> DEFINE entries == index[Dest(d)]
           hits == {i \in DOMAIN entries : Matches(entries[i].d, d)}
           x == entries[Min(hits)]
<1>1. Dest(d) \in Files /\ pc = "route" /\ Skipped(index, d)
  BY FactsType DEF Skip, AtDirective
<1>2. entries \in Seq(EntryType) /\ DOMAIN entries = 1 .. Len(entries)
  BY <1>1 DEF TypeOK
<1>3. /\ hits # {} => InDestination(index, d) = Match[x.d][d]
      /\ hits = {} => InDestination(index, d) = "none"
  BY DEF InDestination
<1> HIDE DEF x
<1>4. hits # {} /\ SkipCapable(Match[x.d][d])
  BY <1>1, <1>3 DEF Skipped, SkipCapable
<1>5. hits \in SUBSET Nat /\ hits \subseteq DOMAIN entries
  BY <1>2
<1> HIDE DEF hits, entries
<1>6. Min(hits) \in DOMAIN entries
  BY <1>4, <1>5, MinOf
<1>7. x \in ToSet(entries)
  BY <1>6 DEF x, ToSet
<1>8. x.d \in Directives
  <2>1. x \in EntryType
    BY <1>2, <1>6 DEF x
  <2> QED BY <2>1 DEF EntryType
<1>9. x \in InBooks(Dest(d))
  BY <1>1, <1>7 DEF IndexInBooks, entries
<1> QED BY <1>4, <1>8, <1>9 DEF Recorded

\* While the disk stays or grows, what was recorded on it stays recorded.
LEMMA KeepsRecorded ==
    ASSUME TypeOK, Kept, completed' \subseteq completed,
           \A p \in Files : ToSet(disk[p]) \subseteq ToSet(disk'[p])
    PROVE  Kept'
<1> SUFFICES ASSUME NEW in \in completed, NEW d \in DirectivesOf(in)
             PROVE  Recorded(d, ToSet(disk'[Dest(d)]))
  BY DEF Kept
<1>1. in \in Seq(SourceType)
  BY InputsAssumption DEF TypeOK
<1>2. Dest(d) \in Files
  BY <1>1, DirectivesOfType
<1>3. Recorded(d, ToSet(disk[Dest(d)]))
  BY DEF Kept
<1> QED BY <1>2, <1>3 DEF Recorded

\* While the books stay or grow, what was read stays recorded.
LEMMA KeepsRead ==
    ASSUME TypeOK, ReadIsRecorded, Succeeding, input' = input,
           \A p \in Files : InBooks(p) \subseteq InBooks(p)',
           \A d \in DirectivesOf(todo) : d \in DirectivesOf(todo') \/ Recorded(d, InBooks(Dest(d))')
    PROVE  ReadIsRecorded'
<1> SUFFICES ASSUME NEW d \in DirectivesOf(input)
             PROVE  d \in DirectivesOf(todo') \/ Recorded(d, InBooks(Dest(d))')
  BY DEF ReadIsRecorded
<1>1. Dest(d) \in Files
  BY DirectivesOfType DEF TypeOK
<1>2. d \in DirectivesOf(todo) \/ Recorded(d, InBooks(Dest(d)))
  BY DEF ReadIsRecorded
<1>3. InBooks(Dest(d)) \subseteq InBooks(Dest(d))'
  BY <1>1
<1>4. Recorded(d, InBooks(Dest(d))) => Recorded(d, InBooks(Dest(d))')
  BY <1>3 DEF Recorded
<1> QED BY <1>2, <1>4

\* The invariant: while a run reads, routes and merges, the books hold all that
\* it has read, so they do when it has merged everything.
LEMMA Reading == Spec => []EventInv
<1>1. Init => EventInv
  BY DEF Init, EventInv, Kept, IndexInBooks, ReadIsRecorded, Succeeding, Phases
<1>2. TypeOK /\ EventInv /\ [Next]_vars => EventInv'
  <2> SUFFICES ASSUME TypeOK, EventInv, [Next]_vars PROVE EventInv'
    OBVIOUS
  <2>1. CASE UNCHANGED vars
    BY <2>1 DEF EventInv, Kept, IndexInBooks, ReadIsRecorded, Succeeding, Phases,
                InBooks, vars, process
  <2>2. ASSUME Exit, Kept' PROVE EventInv'
    BY <2>2 DEF Exit, EventInv, IndexInBooks, ReadIsRecorded, Succeeding, Phases
  <2>3. ASSUME disk' = disk, completed' \subseteq completed PROVE Kept'
    BY <2>3, KeepsRecorded DEF EventInv
  <2>4. ASSUME NEW in \in Inputs, NEW fl \in Flags, Begin(in, fl) PROVE EventInv'
    <3>1. Kept'
      BY <2>3, <2>4 DEF Begin
    <3>2. IndexInBooks'
      <4>1. ASSUME NEW p \in Files PROVE ToSet(index'[p]) \subseteq InBooks(p)'
        <5>1. index'[p] = ReadBack(p, disk[p]) /\ disk' = disk /\ disk[p] \in Seq(EntryType)
          BY <2>4 DEF Begin, BuildIndex, TypeOK
        <5>2. ToSet(ReadBack(p, disk[p])) \subseteq ToSet(disk[p])
          BY <5>1, ReadBackHolds
        <5> QED BY <5>1, <5>2 DEF InBooks
      <4> QED BY <4>1 DEF IndexInBooks
    <3>3. ReadIsRecorded' /\ Phases'
      BY <2>4 DEF Begin, ReadIsRecorded, Phases
    <3> QED BY <3>1, <3>2, <3>3 DEF EventInv
  <2>5. CASE RefuseSource
    BY <2>2, <2>3, <2>5 DEF RefuseSource, Exit
  <2>6. ASSUME UNCHANGED <<disk, pc, flags, input, index, plan, left, draft, failed, completed>>,
               pc = "route",
               \A d \in DirectivesOf(todo) :
                   d \in DirectivesOf(todo') \/ Recorded(d, InBooks(Dest(d)))
        PROVE  EventInv'
    <3>1. Kept'
      BY <2>3, <2>6
    <3>2. \A p : InBooks(p) = InBooks(p)'
      BY <2>6 DEF InBooks
    <3>3. IndexInBooks' /\ Phases'
      BY <2>6, <3>2 DEF EventInv, IndexInBooks, Phases
    <3>4. ReadIsRecorded'
      BY <2>6, <3>2, KeepsRead DEF EventInv, Succeeding
    <3> QED BY <3>1, <3>3, <3>4 DEF EventInv
  <2>7. CASE NextSource
    <3>1. DirectivesOf(todo) \subseteq DirectivesOf(todo')
      BY <2>7, NextSourceReads
    <3> QED BY <2>6, <2>7, <3>1 DEF NextSource
  <2>8. CASE PassThrough
    <3>1. DirectivesOf(todo) \subseteq DirectivesOf(todo') \cup {NextDirective}
      BY <2>8, ConsumeReads DEF PassThrough
    <3>2. NextDirective \notin DirectivesOf(todo)
      BY <2>8, DirectivesOfRead DEF PassThrough
    <3> QED BY <2>6, <2>8, <3>1, <3>2 DEF PassThrough, AtDirective
  <2>9. CASE RefuseDirective
    BY <2>2, <2>3, <2>9 DEF RefuseDirective, Exit
  <2>10. CASE Skip
    <3>1. PICK d \in Directives : d = NextDirective
      BY <2>10, ConsumeReads DEF Skip
    <3>2. DirectivesOf(todo) \subseteq DirectivesOf(todo') \cup {d}
      BY <2>10, <3>1, ConsumeReads DEF Skip
    <3>3. Recorded(d, InBooks(Dest(d)))
      BY <2>10, <3>1, SkipRecords DEF EventInv
    <3> QED BY <2>6, <2>10, <3>2, <3>3 DEF Skip, AtDirective
  <2>11. CASE Accept
    <3>1. PICK d \in Directives : d = NextDirective
      BY <2>11, ConsumeReads DEF Accept
    <3>2. DirectivesOf(todo) \subseteq DirectivesOf(todo') \cup {d}
      BY <2>11, <3>1, ConsumeReads DEF Accept
    <3>3. /\ Recorded(d, InBooks(Dest(d))')
          /\ \A p \in Files : InBooks(p) \subseteq InBooks(p)'
          /\ IndexInBooks'
      BY <2>11, <3>1, AcceptRecords DEF EventInv
    <3>4. Kept'
      BY <2>3, <2>11 DEF Accept
    <3>5. pc = "route" /\ pc' = "route" /\ input' = input
      BY <2>11 DEF Accept, AtDirective
    <3>6. ReadIsRecorded'
      BY <3>2, <3>3, <3>5, KeepsRead DEF EventInv, Succeeding
    <3>7. Phases'
      BY <3>5 DEF Phases
    <3> QED BY <3>3, <3>4, <3>6, <3>7 DEF EventInv
  <2>12. ASSUME Kept', pc' = "merge", todo = <<>>, todo' = <<>>, input' = input,
                Succeeding' => Succeeding /\ \A p \in Files : InBooks(p) \subseteq InBooks(p)'
         PROVE  EventInv'
    <3>1. IndexInBooks' /\ Phases'
      BY <2>12 DEF IndexInBooks, Phases
    <3>2. ReadIsRecorded'
      <4>1. CASE ~Succeeding'
        BY <4>1 DEF ReadIsRecorded
      <4>2. CASE Succeeding'
        BY <2>12, <4>2, KeepsRead DEF EventInv
      <4> QED BY <4>1, <4>2
    <3> QED BY <2>12, <3>1, <3>2 DEF EventInv
  <2>13. CASE BeginMerge
    <3>1. Kept'
      BY <2>3, <2>13 DEF BeginMerge
    <3>2. ASSUME NEW p \in Files PROVE InBooks(p) \subseteq InBooks(p)'
      <4>1. plan[p] # <<>> => p \in left'
        BY <2>13 DEF BeginMerge, ToMerge
      <4>2. plan[p] = <<>> => ToSet(plan[p]) = {}
        BY DEF ToSet
      <4> QED BY <2>13, <4>1, <4>2 DEF BeginMerge, InBooks
    <3>3. Succeeding
      BY <2>13 DEF BeginMerge, Succeeding
    <3> QED BY <2>12, <2>13, <3>1, <3>2, <3>3 DEF BeginMerge
  <2>14. CASE Preview
    <3>1. Kept'
      BY <2>3, <2>14 DEF Preview
    <3>2. ~Succeeding'
      BY <2>14 DEF Preview, Succeeding
    <3>3. todo = <<>>
      BY <2>14 DEF Preview, EventInv, Phases
    <3> QED BY <2>12, <2>14, <3>1, <3>2, <3>3 DEF Preview
  <2>15. CASE WriteTemp
    <3>1. Kept'
      BY <2>3, <2>15 DEF WriteTemp
    <3>2. \A p \in Files : InBooks(p) \subseteq InBooks(p)'
      BY <2>15 DEF WriteTemp, InBooks
    <3>3. IndexInBooks'
      BY <2>15 DEF WriteTemp, IndexInBooks
    <3>4. Phases'
      BY <2>15 DEF WriteTemp, EventInv, Phases
    <3>5. ReadIsRecorded'
      <4>1. CASE ~Succeeding'
        BY <4>1 DEF ReadIsRecorded
      <4>2. CASE Succeeding'
        <5>1. Succeeding /\ input' = input /\ todo' = todo
          BY <2>15, <4>2 DEF WriteTemp, Succeeding
        <5> QED BY <3>2, <5>1, KeepsRead DEF EventInv
      <4> QED BY <4>1, <4>2
    <3> QED BY <3>1, <3>3, <3>4, <3>5 DEF EventInv
  <2>16. CASE Rename
    <3>1. /\ \A p \in Files : InBooks(p) \subseteq InBooks(p)'
          /\ \A p \in Files : ToSet(disk[p]) \subseteq ToSet(disk'[p])
      BY <2>16, RenameKeepsBooks DEF EventInv
    <3>2. Kept'
      BY <2>16, <3>1, KeepsRecorded DEF Rename, EventInv
    <3>3. Succeeding' => Succeeding
      BY <2>16 DEF Rename, Succeeding
    <3>4. todo = <<>>
      BY <2>16 DEF Rename, EventInv, Phases
    <3> QED BY <2>12, <2>16, <3>1, <3>2, <3>3, <3>4 DEF Rename
  <2>17. CASE FailMerge
    <3>1. Kept'
      BY <2>3, <2>17 DEF FailMerge
    <3>2. ~Succeeding'
      BY <2>17 DEF FailMerge, Succeeding
    <3>3. todo = <<>>
      BY <2>17 DEF FailMerge, EventInv, Phases
    <3> QED BY <2>12, <2>17, <3>1, <3>2, <3>3 DEF FailMerge
  <2>18. CASE Finish
    <3>1. pc = "merge" /\ left = {} /\ todo = <<>> /\ Exit /\ disk' = disk
      BY <2>18 DEF Finish, Exit, EventInv, Phases
    <3>2. CASE failed \/ flags.dryRun
      BY <2>2, <2>3, <2>18, <3>1, <3>2 DEF Finish
    <3>3. CASE ~failed /\ ~flags.dryRun
      <4>1. completed' = completed \cup {input}
        BY <2>18, <3>3 DEF Finish
      <4>2. ASSUME NEW d \in DirectivesOf(input)
            PROVE  Recorded(d, ToSet(disk[Dest(d)]))
        <5>1. d \notin DirectivesOf(todo)
          BY <3>1, DirectivesOfRead
        <5>2. Recorded(d, InBooks(Dest(d)))
          BY <3>1, <3>3, <5>1 DEF EventInv, ReadIsRecorded, Succeeding
        <5>3. InBooks(Dest(d)) = ToSet(disk[Dest(d)])
          BY <3>1 DEF InBooks
        <5> QED BY <5>2, <5>3 DEF Recorded
      <4>3. Kept'
        BY <3>1, <4>1, <4>2 DEF EventInv, Kept
      <4> QED BY <2>2, <3>1, <4>3
    <3> QED BY <3>2, <3>3
  <2>19. CASE Crash
    BY <2>2, <2>3, <2>19 DEF Crash, Exit
  <2> QED BY <2>1, <2>4, <2>5, <2>7, <2>8, <2>9, <2>10, <2>11, <2>13, <2>14, <2>15, <2>16,
             <2>17, <2>18, <2>19 DEF Next
<1> QED BY <1>1, <1>2, Typing, PTL DEF Spec

\* No event is lost, whatever the ledger held before: a directive of a completed
\* input is in its file, or is recorded there by an entry it was skipped for, as far
\* as a match with an elided posting can be relied on.
THEOREM Complete == Spec => []NoEventLost
<1>1. TypeOK /\ EventInv => NoEventLost
  <2> SUFFICES ASSUME TypeOK, Kept, NEW in \in completed, NEW d \in DirectivesOf(in)
               PROVE  \E e \in ToSet(disk[Dest(d)]) : Records(Facts[e.d], Facts[d])
    BY DEF EventInv, NoEventLost
  <2>1. d \in Directives
    BY InputsAssumption, DirectivesOfType DEF TypeOK
  <2>2. PICK e \in ToSet(disk[Dest(d)]) : e.d \in Directives /\ SkipCapable(Match[e.d][d])
    BY DEF Kept, Recorded
  <2> QED BY <2>1, <2>2, SkipIsRecord
<1> QED BY <1>1, Typing, Reading, PTL

-----------------------------------------------------------------------------
\* Why no event counts twice. The books as sequences; no two active entries of
\* them may be taken for each other.
Books == [p \in Files |-> disk[p] \o (IF pc = "route" \/ p \in left THEN plan[p] ELSE <<>>)]

OnlyOnce(f) ==
    \A p, q \in Files : \A i \in DOMAIN f[p], j \in DOMAIN f[q] :
        (<<p, i>> # <<q, j>> /\ ~f[p][i].commented /\ ~f[q][j].commented)
            => ~SkipCapable(Match[f[p][i].d][f[q][j].d])

\* Routing compares with every active entry of the books.
ActiveIsIndexed ==
    pc = "route" => \A p \in Files : \A e \in ToSet(Books[p]) :
                       ~e.commented => e \in ToSet(index[p])

\* A run begins with no plan.
IdleIsClean == pc = "idle" => plan = Nothing /\ left = {}

OnceInv == OnlyOnce(Books) /\ ActiveIsIndexed /\ IdleIsClean

\* The items of t are items of s, no two of them the same one.
Within(t, s) == \E at : /\ \A k \in 1 .. Len(t) : at[k] \in 1 .. Len(s) /\ t[k] = s[at[k]]
                        /\ \A k, l \in 1 .. Len(t) : at[k] = at[l] => k = l

LEMMA PickedIsWithin ==
    ASSUME NEW s \in Seq(EntryType), NEW t \in Seq(EntryType), NEW at, Picks(s, DOMAIN s, t, at)
    PROVE  Within(t, s)
<1>1. DOMAIN s = 1 .. Len(s)
  OBVIOUS
<1>2. /\ \A k \in 1 .. Len(t) : at[k] \in 1 .. Len(s) /\ t[k] = s[at[k]]
      /\ \A k, l \in 1 .. Len(t) : at[k] = at[l] => k = l
  BY <1>1 DEF Picks
<1> QED BY <1>2 DEF Within

LEMMA PrefixIsWithin ==
    ASSUME NEW s \in Seq(EntryType), NEW t \in Seq(EntryType)
    PROVE  Within(s, s \o t)
<1> DEFINE at == [k \in 1 .. Len(s) |-> k]
<1>1. \A k \in 1 .. Len(s) : at[k] \in 1 .. Len(s \o t) /\ s[k] = (s \o t)[at[k]]
  OBVIOUS
<1>2. \A k, l \in 1 .. Len(s) : at[k] = at[l] => k = l
  OBVIOUS
<1> HIDE DEF at
<1> QED BY <1>1, <1>2 DEF Within

LEMMA WithinItself ==
    ASSUME NEW s \in Seq(EntryType)
    PROVE  Within(s, s)
<1>1. s \o <<>> = s /\ <<>> \in Seq(EntryType)
  OBVIOUS
<1> QED BY <1>1, PrefixIsWithin

\* What is taken from books without doubles has none.
LEMMA OnlyOnceWithin ==
    ASSUME NEW f \in [Files -> Seq(EntryType)], NEW g \in [Files -> Seq(EntryType)],
           \A p \in Files : Within(g[p], f[p]), OnlyOnce(f)
    PROVE  OnlyOnce(g)
<1> DEFINE Into(p, at) ==
               /\ \A k \in 1 .. Len(g[p]) : at[k] \in 1 .. Len(f[p]) /\ g[p][k] = f[p][at[k]]
               /\ \A k, l \in 1 .. Len(g[p]) : at[k] = at[l] => k = l
           into(p) == CHOOSE at : Into(p, at)
<1>1. \A p \in Files : Into(p, into(p))
  BY DEF Within
<1>2. \A p \in Files : /\ DOMAIN f[p] = 1 .. Len(f[p])
                       /\ DOMAIN g[p] = 1 .. Len(g[p])
  OBVIOUS
<1>3. ASSUME NEW p \in Files, NEW q \in Files, NEW i \in DOMAIN g[p], NEW j \in DOMAIN g[q],
             <<p, i>> # <<q, j>>, ~g[p][i].commented, ~g[q][j].commented
      PROVE  ~SkipCapable(Match[g[p][i].d][g[q][j].d])
  <2> DEFINE a == into(p)[i]
             b == into(q)[j]
  <2>1. a \in DOMAIN f[p] /\ g[p][i] = f[p][a]
    <3> HIDE DEF into
    <3> QED BY <1>1, <1>2
  <2>2. b \in DOMAIN f[q] /\ g[q][j] = f[q][b]
    <3> HIDE DEF into
    <3> QED BY <1>1, <1>2
  <2>3. p = q => a # b
    <3> HIDE DEF into
    <3> QED BY <1>1, <1>2, <1>3
  <2> HIDE DEF a, b
  <2> QED BY <1>3, <2>1, <2>2, <2>3 DEF OnlyOnce
<1> QED BY <1>3 DEF OnlyOnce

LEMMA BooksType ==
    ASSUME TypeOK
    PROVE  /\ Books \in [Files -> Seq(EntryType)]
           /\ \A p \in Files : /\ disk[p] \in Seq(EntryType) /\ plan[p] \in Seq(EntryType)
                               /\ Within(disk[p], Books[p])
                               /\ (pc = "route" \/ p \in left) => Books[p] = disk[p] \o plan[p]
                               /\ ~(pc = "route" \/ p \in left) => Books[p] = disk[p]
<1> SUFFICES ASSUME NEW p \in Files
             PROVE  /\ disk[p] \in Seq(EntryType) /\ plan[p] \in Seq(EntryType)
                    /\ Books[p] \in Seq(EntryType)
                    /\ Within(disk[p], Books[p])
                    /\ (pc = "route" \/ p \in left) => Books[p] = disk[p] \o plan[p]
                    /\ ~(pc = "route" \/ p \in left) => Books[p] = disk[p]
  BY DEF Books
<1>1. disk[p] \in Seq(EntryType) /\ plan[p] \in Seq(EntryType)
  BY DEF TypeOK
<1>2. (pc = "route" \/ p \in left) => Books[p] = disk[p] \o plan[p]
  BY DEF Books
<1>3. ~(pc = "route" \/ p \in left) => Books[p] = disk[p]
  BY <1>1 DEF Books
<1>4. disk[p] \o plan[p] \in Seq(EntryType)
  BY <1>1
<1>5. Within(disk[p], disk[p] \o plan[p]) /\ Within(disk[p], disk[p])
  BY <1>1, PrefixIsWithin, WithinItself
<1>6. Books[p] \in Seq(EntryType) /\ Within(disk[p], Books[p])
  BY <1>1, <1>2, <1>3, <1>4, <1>5
<1> QED BY <1>1, <1>2, <1>3, <1>6

\* One more entry, that is commented out or matches nothing active.
LEMMA OnlyOnceOneMore ==
    ASSUME NEW f \in [Files -> Seq(EntryType)], NEW g \in [Files -> Seq(EntryType)],
           NEW r \in Files, NEW e \in EntryType,
           g[r] = f[r] \o <<e>>, \A q \in Files : q # r => g[q] = f[q],
           OnlyOnce(f),
           ~e.commented => \A p \in Files : \A x \in ToSet(f[p]) :
                              ~x.commented => ~SkipCapable(Match[x.d][e.d])
    PROVE  OnlyOnce(g)
<1> DEFINE n == Len(f[r])
<1>1. /\ n \in Nat /\ DOMAIN f[r] = 1 .. n /\ DOMAIN g[r] = 1 .. n + 1
      /\ g[r][n + 1] = e /\ \A i \in 1 .. n : g[r][i] = f[r][i]
  OBVIOUS
<1> HIDE DEF n
<1>2. \A p \in Files : \A i \in DOMAIN g[p] :
         \/ i \in DOMAIN f[p] /\ g[p][i] = f[p][i]
         \/ p = r /\ i = n + 1 /\ g[p][i] = e
  <2> SUFFICES ASSUME NEW p \in Files, NEW i \in DOMAIN g[p]
               PROVE  \/ i \in DOMAIN f[p] /\ g[p][i] = f[p][i]
                      \/ p = r /\ i = n + 1 /\ g[p][i] = e
    OBVIOUS
  <2>1. CASE p = r
    BY <1>1, <2>1
  <2>2. CASE p # r
    BY <2>2
  <2> QED BY <2>1, <2>2
<1>3. \A p \in Files : \A i \in DOMAIN f[p] : f[p][i].d \in Directives /\ f[p][i] \in ToSet(f[p])
  <2> SUFFICES ASSUME NEW p \in Files, NEW i \in DOMAIN f[p]
               PROVE  f[p][i].d \in Directives /\ f[p][i] \in ToSet(f[p])
    OBVIOUS
  <2>1. f[p] \in Seq(EntryType)
    OBVIOUS
  <2>2. f[p][i] \in EntryType
    BY <2>1
  <2> QED BY <2>2 DEF EntryType, ToSet
<1>4. e.d \in Directives
  BY DEF EntryType
<1>5. ASSUME NEW p \in Files, NEW i \in DOMAIN f[p], ~f[p][i].commented, ~e.commented
      PROVE  ~SkipCapable(Match[f[p][i].d][e.d]) /\ ~SkipCapable(Match[e.d][f[p][i].d])
  <2>1. f[p][i].d \in Directives /\ f[p][i] \in ToSet(f[p])
    BY <1>3
  <2>2. ~SkipCapable(Match[f[p][i].d][e.d])
    BY <1>5, <2>1
  <2>3. SkipCapable(Match[e.d][f[p][i].d]) => SkipCapable(Match[f[p][i].d][e.d])
    BY <1>4, <2>1, SkipIsSymmetric
  <2> QED BY <2>2, <2>3
<1>6. ASSUME NEW p \in Files, NEW q \in Files, NEW i \in DOMAIN g[p], NEW j \in DOMAIN g[q],
             <<p, i>> # <<q, j>>, ~g[p][i].commented, ~g[q][j].commented
      PROVE  ~SkipCapable(Match[g[p][i].d][g[q][j].d])
  <2>1. CASE /\ i \in DOMAIN f[p] /\ g[p][i] = f[p][i]
             /\ j \in DOMAIN f[q] /\ g[q][j] = f[q][j]
    BY <1>6, <2>1 DEF OnlyOnce
  <2>2. CASE i \in DOMAIN f[p] /\ g[p][i] = f[p][i] /\ g[q][j] = e
    BY <1>5, <1>6, <2>2
  <2>3. CASE j \in DOMAIN f[q] /\ g[q][j] = f[q][j] /\ g[p][i] = e
    BY <1>5, <1>6, <2>3
  <2>4. ~(p = r /\ i = n + 1 /\ q = r /\ j = n + 1)
    BY <1>6
  <2> QED BY <1>2, <2>1, <2>2, <2>3, <2>4
<1> QED BY <1>6 DEF OnlyOnce

\* A directive planned as active matches nothing active in the books.
LEMMA ActiveIsNew ==
    ASSUME TypeOK, ActiveIsIndexed, Accept, NEW d \in Directives, d = NextDirective,
           ~ToComment(index, d)
    PROVE  \A p \in Files : \A x \in ToSet(Books[p]) :
              ~x.commented => ~SkipCapable(Match[x.d][d])
<1> DEFINE entries == index[Dest(d)]
           hits == {i \in DOMAIN entries : Matches(entries[i].d, d)}
<1>1. Dest(d) \in Files /\ pc = "route"
  BY FactsType DEF Accept, AtDirective
<1>2. entries \in Seq(EntryType) /\ DOMAIN entries = 1 .. Len(entries)
  BY <1>1 DEF TypeOK
<1>3. hits # {} => InDestination(index, d) = Match[entries[Min(hits)].d][d]
  BY DEF InDestination
<1>4. InDestination(index, d) = "none" /\ ~InOtherActive(index, d)
  BY DEF ToComment
<1>5. hits \in SUBSET Nat /\ \A i \in hits : Match[entries[i].d][d] # "none"
  BY <1>2 DEF Matches
<1>6. \A i \in DOMAIN entries : Matches(entries[i].d, d) => i \in hits
  OBVIOUS
<1> HIDE DEF hits, entries
<1>7. hits = {}
  BY <1>3, <1>4, <1>5, MinOf
<1>8. ASSUME NEW p \in Files, NEW x \in ToSet(Books[p]), ~x.commented
      PROVE  ~Matches(x.d, d)
  <2>1. x \in ToSet(index[p])
    BY <1>1, <1>8 DEF ActiveIsIndexed
  <2>2. CASE p = Dest(d)
    <3>1. PICK i \in DOMAIN entries : x = entries[i]
      BY <2>1, <2>2 DEF ToSet, entries
    <3> QED BY <1>6, <1>7, <3>1
  <2>3. CASE p # Dest(d)
    BY <1>4, <1>8, <2>1, <2>3 DEF InOtherActive
  <2> QED BY <2>2, <2>3
<1> QED BY <1>8 DEF Matches, SkipCapable

LEMMA OneMoreBehind ==
    ASSUME NEW s \in Seq(EntryType), NEW t \in Seq(EntryType), NEW e \in EntryType
    PROVE  s \o (t \o <<e>>) = (s \o t) \o <<e>>
BY SMTT(30)

LEMMA AcceptKeepsOnce ==
    ASSUME TypeOK, TypeOK', OnceInv, Accept
    PROVE  OnceInv'
<1>1. PICK d \in Directives : d = NextDirective
  BY ConsumeReads DEF Accept
<1> DEFINE c == ToComment(index, d)
           e == Entry(d, c)
<1>2. Dest(d) \in Files /\ pc = "route" /\ pc' = "route" /\ disk' = disk
  BY FactsType DEF Accept, AtDirective
<1>3. e \in EntryType /\ e.d = d /\ (~e.commented => ~c)
  <2>1. c \in BOOLEAN
    BY DEF ToComment, InOtherActive
  <2> HIDE DEF c
  <2> QED BY <1>1, <2>1 DEF Entry, EntryType
<1>4. /\ plan' = [plan EXCEPT ![Dest(d)] = Append(@, e)]
      /\ index' = [index EXCEPT ![Dest(d)] = Append(@, e)]
  BY <1>1 DEF Accept, Indexed
<1>5. plan \in [Files -> Seq(EntryType)] /\ index \in [Files -> Seq(EntryType)]
  BY DEF TypeOK
<1>6. ~c => \A p \in Files : \A x \in ToSet(Books[p]) :
                ~x.commented => ~SkipCapable(Match[x.d][d])
  BY <1>1, ActiveIsNew DEF OnceInv
<1> HIDE DEF e, c
<1>7. /\ plan'[Dest(d)] = plan[Dest(d)] \o <<e>>
      /\ \A q \in Files : q # Dest(d) => plan'[q] = plan[q]
  BY <1>2, <1>3, <1>4, <1>5, AppendEntry
<1>8. /\ index'[Dest(d)] = index[Dest(d)] \o <<e>>
      /\ \A q \in Files : q # Dest(d) => index'[q] = index[q]
  BY <1>2, <1>3, <1>4, <1>5, AppendEntry
<1>9. /\ Books \in [Files -> Seq(EntryType)] /\ Books' \in [Files -> Seq(EntryType)]
      /\ \A p \in Files : Books[p] = disk[p] \o plan[p] /\ Books'[p] = disk[p] \o plan'[p]
      /\ \A p \in Files : disk[p] \in Seq(EntryType) /\ plan[p] \in Seq(EntryType)
  <2>1. /\ Books \in [Files -> Seq(EntryType)]
        /\ \A p \in Files : Books[p] = disk[p] \o plan[p]
        /\ \A p \in Files : disk[p] \in Seq(EntryType) /\ plan[p] \in Seq(EntryType)
    BY <1>2, BooksType
  <2>2. \A p \in Files : plan'[p] \in Seq(EntryType)
    BY DEF TypeOK
  <2>3. \A p \in Files : disk[p] \o plan'[p] \in Seq(EntryType)
    BY <2>1, <2>2
  <2>4. Books' = [p \in Files |-> disk[p] \o plan'[p]]
    BY <1>2 DEF Books
  <2> QED BY <2>1, <2>3, <2>4
<1>10. /\ Books'[Dest(d)] = Books[Dest(d)] \o <<e>>
       /\ \A q \in Files : q # Dest(d) => Books'[q] = Books[q]
  <2>1. disk[Dest(d)] \in Seq(EntryType) /\ plan[Dest(d)] \in Seq(EntryType)
    BY <1>2, <1>9
  <2>2. disk[Dest(d)] \o (plan[Dest(d)] \o <<e>>) = (disk[Dest(d)] \o plan[Dest(d)]) \o <<e>>
    BY <1>3, <2>1, OneMoreBehind
  <2>3. \A q \in Files : q # Dest(d) => Books'[q] = Books[q]
    BY <1>7, <1>9
  <2> QED BY <1>2, <1>7, <1>9, <2>2, <2>3
<1>11. OnlyOnce(Books')
  <2>1. OnlyOnce(Books)
    BY DEF OnceInv
  <2>2. ~e.commented => \A p \in Files : \A x \in ToSet(Books[p]) :
                ~x.commented => ~SkipCapable(Match[x.d][e.d])
    BY <1>3, <1>6
  <2> QED BY <1>2, <1>3, <1>9, <1>10, <2>1, <2>2, OnlyOnceOneMore
<1>12. \A s \in Seq(EntryType) : ToSet(s \o <<e>>) = ToSet(s) \cup {e}
  <2>1. <<e>> \in Seq(EntryType) /\ ToSet(<<e>>) = {e}
    BY <1>3 DEF ToSet
  <2>2. \A s \in Seq(EntryType) : ToSet(s \o <<e>>) = ToSet(s) \cup ToSet(<<e>>)
    BY <2>1, ToSetConcat
  <2> QED BY <2>1, <2>2
<1>13. ActiveIsIndexed'
  <2>1. ASSUME NEW p \in Files, NEW x \in ToSet(Books'[p]), ~x.commented
        PROVE  x \in ToSet(index'[p])
    <3>1. \A y \in ToSet(Books[p]) : ~y.commented => y \in ToSet(index[p])
      BY <1>2 DEF OnceInv, ActiveIsIndexed
    <3>2. CASE p = Dest(d)
      <4>1. ToSet(Books'[p]) = ToSet(Books[p]) \cup {e} /\ ToSet(index'[p]) = ToSet(index[p]) \cup {e}
        <5>1. Books[p] \in Seq(EntryType) /\ index[p] \in Seq(EntryType)
          BY <1>5, <1>9
        <5> QED BY <1>8, <1>10, <1>12, <3>2, <5>1
      <4> QED BY <2>1, <3>1, <4>1
    <3>3. CASE p # Dest(d)
      BY <1>8, <1>10, <2>1, <3>1, <3>3
    <3> QED BY <3>2, <3>3
  <2> QED BY <2>1 DEF ActiveIsIndexed
<1>14. IdleIsClean'
  BY <1>2 DEF IdleIsClean
<1> QED BY <1>11, <1>13, <1>14 DEF OnceInv

\* A step that takes nothing into the books.
LEMMA TakesNothing ==
    ASSUME TypeOK, TypeOK', OnlyOnce(Books), \A p \in Files : Within(Books'[p], Books[p])
    PROVE  OnlyOnce(Books')
<1>1. Books \in [Files -> Seq(EntryType)]
  BY BooksType
<1>2. Books' \in [Files -> Seq(EntryType)]
  <2>1. \A p \in Files : disk'[p] \in Seq(EntryType) /\ plan'[p] \in Seq(EntryType)
    BY DEF TypeOK
  <2>2. \A p \in Files : disk'[p] \o plan'[p] \in Seq(EntryType) /\ disk'[p] \o <<>> \in Seq(EntryType)
    BY <2>1
  <2>3. Books' = [p \in Files |-> IF pc' = "route" \/ p \in left' THEN disk'[p] \o plan'[p]
                                  ELSE disk'[p] \o <<>>]
    BY DEF Books
  <2> QED BY <2>2, <2>3
<1> QED BY <1>1, <1>2, OnlyOnceWithin

\* The books of the next state.
LEMMA NextBooks ==
    ASSUME TypeOK'
    PROVE  \A p \in Files : Books'[p] = IF pc' = "route" \/ p \in left' THEN disk'[p] \o plan'[p]
                                        ELSE disk'[p]
<1>1. \A p \in Files : disk'[p] \in Seq(EntryType)
  BY DEF TypeOK
<1>2. \A p \in Files : disk'[p] \o <<>> = disk'[p]
  BY <1>1
<1>3. \A p \in Files : Books'[p] = disk'[p] \o (IF pc' = "route" \/ p \in left' THEN plan'[p] ELSE <<>>)
  BY DEF Books
<1> QED BY <1>2, <1>3

\* No event counts twice: in a ledger without doubles, no history of runs, of
\* failed merges and of kills makes two active entries that match by id or exactly.
THEOREM Once ==
    ASSUME OnlyOnce(InitialDisk)
    PROVE  Spec => []ActiveOnce
<1>1. Init /\ TypeOK => OnceInv
  <2> SUFFICES ASSUME Init, TypeOK PROVE OnceInv
    OBVIOUS
  <2>1. disk = InitialDisk /\ pc = "idle" /\ left = {} /\ plan = Nothing
    BY DEF Init
  <2>2. \A p \in Files : Books[p] = InitialDisk[p]
    BY <2>1, BooksType
  <2>3. Books \in [Files -> Seq(EntryType)]
    BY BooksType
  <2>4. Books = InitialDisk
    BY <2>2, <2>3, DiskAssumption
  <2>5. OnlyOnce(Books)
    BY <2>4
  <2> QED BY <2>1, <2>5 DEF OnceInv, ActiveIsIndexed, IdleIsClean
<1>2. TypeOK /\ TypeOK' /\ EventInv /\ OnceInv /\ [Next]_vars => OnceInv'
  <2> SUFFICES ASSUME TypeOK, TypeOK', EventInv, OnceInv, [Next]_vars PROVE OnceInv'
    OBVIOUS
  <2>1. \A p \in Files : /\ disk[p] \in Seq(EntryType) /\ plan[p] \in Seq(EntryType)
                         /\ Books[p] \in Seq(EntryType)
                         /\ Within(disk[p], Books[p])
                         /\ (pc = "route" \/ p \in left) => Books[p] = disk[p] \o plan[p]
                         /\ ~(pc = "route" \/ p \in left) => Books[p] = disk[p]
    BY BooksType
  <2>2. \A p \in Files : Books'[p] = IF pc' = "route" \/ p \in left' THEN disk'[p] \o plan'[p]
                                     ELSE disk'[p]
    BY NextBooks
  <2>3. OnlyOnce(Books)
    BY DEF OnceInv
  <2>4. \A p \in Files : Within(Books[p], Books[p])
    BY <2>1, WithinItself
  <2>5. ASSUME UNCHANGED <<disk, pc, index, plan, left>> PROVE OnceInv'
    <3>1. Books' = Books
      BY <2>5 DEF Books
    <3> QED BY <2>5, <3>1 DEF OnceInv, ActiveIsIndexed, IdleIsClean
  <2>6. CASE UNCHANGED vars
    BY <2>5, <2>6 DEF vars, process
  <2>7. CASE Exit
    <3>1. pc' = "idle" /\ left' = {} /\ plan' = Nothing /\ disk' = disk
      BY <2>7 DEF Exit
    <3>2. \A p \in Files : Within(Books'[p], Books[p])
      BY <2>1, <2>2, <3>1
    <3>3. OnlyOnce(Books')
      BY <2>3, <3>2, TakesNothing
    <3> QED BY <3>1, <3>3 DEF OnceInv, ActiveIsIndexed, IdleIsClean
  <2>8. ASSUME NEW in \in Inputs, NEW fl \in Flags, Begin(in, fl) PROVE OnceInv'
    <3>1. /\ pc = "idle" /\ pc' = "route" /\ plan = Nothing /\ left = {}
          /\ UNCHANGED <<disk, plan, left>> /\ index' = BuildIndex
      BY <2>8 DEF Begin, OnceInv, IdleIsClean
    <3>2. ASSUME NEW p \in Files PROVE Books'[p] = disk[p] /\ Books[p] = disk[p]
      <4>1. plan[p] = <<>> /\ disk[p] \o <<>> = disk[p]
        BY <2>1, <3>1 DEF Nothing
      <4> QED BY <2>1, <2>2, <3>1, <4>1
    <3>3. OnlyOnce(Books')
      BY <2>3, <2>4, <3>2, TakesNothing
    <3>4. ASSUME NEW p \in Files, NEW x \in ToSet(Books'[p]), ~x.commented
          PROVE  x \in ToSet(index'[p])
      <4>1. index'[p] = ReadBack(p, disk[p]) /\ x \in ToSet(disk[p])
        BY <3>1, <3>2, <3>4 DEF BuildIndex
      <4> QED BY <2>1, <3>4, <4>1, ReadBackHolds
    <3> QED BY <3>1, <3>3, <3>4 DEF OnceInv, ActiveIsIndexed, IdleIsClean
  <2>9. CASE NextSource \/ PassThrough \/ Skip
    BY <2>5, <2>9 DEF NextSource, PassThrough, Skip
  <2>10. CASE Accept
    BY <2>10, AcceptKeepsOnce
  <2>11. ASSUME pc' = "merge" \/ pc' = "write", \A p \in Files : Within(Books'[p], Books[p])
         PROVE  OnceInv'
    <3>1. OnlyOnce(Books')
      BY <2>3, <2>11, TakesNothing
    <3> QED BY <2>11, <3>1 DEF OnceInv, ActiveIsIndexed, IdleIsClean
  <2>12. CASE BeginMerge
    <3>1. pc = "route" /\ pc' = "merge" /\ left' = ToMerge /\ UNCHANGED <<disk, plan>>
      BY <2>12 DEF BeginMerge
    <3>2. ASSUME NEW p \in Files PROVE Within(Books'[p], Books[p])
      BY <2>1, <2>2, <2>4, <3>1
    <3> QED BY <2>11, <3>1, <3>2
  <2>13. ASSUME pc \in {"merge", "write"}, pc' = "merge", left' \subseteq left, UNCHANGED <<disk, plan>>
         PROVE  OnceInv'
    <3>1. ASSUME NEW p \in Files PROVE Within(Books'[p], Books[p])
      BY <2>1, <2>2, <2>4, <2>13
    <3> QED BY <2>11, <2>13, <3>1
  <2>14. CASE Preview
    BY <2>13, <2>14 DEF Preview
  <2>15. CASE WriteTemp
    <3>1. Books' = Books /\ pc' = "write"
      BY <2>15 DEF WriteTemp, Books
    <3> QED BY <2>4, <2>11, <3>1
  <2>16. CASE Rename
    <3> DEFINE m == Min(left)
    <3>1. pc = "write" /\ left # {} /\ draft = Merged(m, disk[m], plan[m])
      BY <2>16 DEF Rename, EventInv, Phases
    <3>2. m \in left /\ m \in Files
      BY <3>1, NextFile
    <3>3. /\ pc' = "merge" /\ disk' = [disk EXCEPT ![m] = draft] /\ left' = left \ {m}
          /\ plan' = plan /\ disk \in [Files -> Seq(EntryType)]
      BY <2>16 DEF Rename, TypeOK
    <3> HIDE DEF m
    <3>4. disk'[m] = draft /\ \A p \in Files : p # m => disk'[p] = disk[p]
      BY <3>2, <3>3
    <3>5. Within(Books'[m], Books[m])
      <4>1. Books'[m] = Merged(m, disk[m], plan[m]) /\ Books[m] = disk[m] \o plan[m]
        BY <2>1, <2>2, <3>1, <3>2, <3>3, <3>4
      <4>2. disk[m] \in Seq(EntryType) /\ plan[m] \in Seq(EntryType) /\ Books[m] \in Seq(EntryType)
        BY <2>1, <3>2
      <4>3. Merged(m, disk[m], plan[m]) \in Seq(EntryType)
        BY <3>2, <4>2, MergedPicks
      <4>4. PICK at : Picks(disk[m] \o plan[m], DOMAIN (disk[m] \o plan[m]),
                            Merged(m, disk[m], plan[m]), at)
        BY <3>2, <4>2, MergedPicks
      <4> QED BY <4>1, <4>2, <4>3, <4>4, PickedIsWithin
    <3>6. ASSUME NEW p \in Files PROVE Within(Books'[p], Books[p])
      <4>1. CASE p = m
        BY <3>5, <4>1
      <4>2. CASE p # m
        BY <2>1, <2>2, <2>4, <3>1, <3>3, <3>4, <4>2
      <4> QED BY <4>1, <4>2
    <3> QED BY <2>11, <3>3, <3>6
  <2>17. CASE FailMerge
    BY <2>13, <2>17 DEF FailMerge
  <2> QED BY <2>6, <2>7, <2>8, <2>9, <2>10, <2>12, <2>14, <2>15, <2>16, <2>17
          DEF Next, RefuseSource, RefuseDirective, Finish, Crash
<1>3. TypeOK /\ OnceInv => ActiveOnce
  <2> SUFFICES ASSUME TypeOK, OnceInv PROVE ActiveOnce
    OBVIOUS
  <2>1. /\ Books \in [Files -> Seq(EntryType)] /\ disk \in [Files -> Seq(EntryType)]
        /\ \A p \in Files : Within(disk[p], Books[p])
    BY BooksType DEF TypeOK
  <2>2. OnlyOnce(disk)
    BY <2>1, OnlyOnceWithin DEF OnceInv
  <2> QED BY <2>2 DEF OnlyOnce, ActiveOnce
<1> QED BY <1>1, <1>2, <1>3, Typing, Reading, PTL DEF Spec

-----------------------------------------------------------------------------
\* Filing again. Where blank lines separate the insertions, a file is read back
\* as a whole: no marker is hidden behind another one.
LEMMA SpacedReadsAll ==
    ASSUME NEW p \in Files, NEW file \in Seq(EntryType), Spaced[p]
    PROVE  ToSet(file) \subseteq ToSet(ReadBack(p, file))
<1> DEFINE n == Len(file)
           ss == [i \in DOMAIN file |->
                     IF RunStart(p, file, i) THEN <<FirstOfRun(p, file, i)>> ELSE <<>>]
<1>1. n \in Nat /\ DOMAIN file = 1 .. n /\ \A i \in 1 .. n : file[i] \in EntryType
  OBVIOUS
<1>2. \A i, j \in 1 .. n : InRun(p, file, i, j) => i = j
  BY DEF InRun
<1>3. \A i \in 1 .. n : file[i].commented => InRun(p, file, i, i)
  BY <1>1 DEF InRun
<1>4. ASSUME NEW i \in 1 .. n, file[i].commented
      PROVE  RunStart(p, file, i) /\ FirstOfRun(p, file, i) = file[i]
  <2>1. i > 1 => ~InRun(p, file, i - 1, i)
    BY <1>1, <1>2
  <2> DEFINE run == {j \in DOMAIN file : InRun(p, file, i, j)}
             first == {j \in run : \A k \in run : NotAfter(file[j].d, file[k].d)}
  <2>2. run = {i}
    BY <1>1, <1>2, <1>3, <1>4
  <2>3. FirstOfRun(p, file, i) = file[Min(first)]
    BY DEF FirstOfRun
  <2>4. NotAfter(file[i].d, file[i].d)
    <3>1. file[i] \in EntryType
      BY <1>1
    <3>2. Facts[file[i].d].rank \in Int
      BY <3>1, DirectivesAssumption DEF EntryType
    <3> QED BY <3>2 DEF NotAfter
  <2>5. first = {i}
    <3> HIDE DEF run
    <3> QED BY <2>2, <2>4
  <2> HIDE DEF run, first
  <2>6. Min(first) = i
    <3>1. first \in SUBSET Nat /\ first # {}
      BY <1>1, <2>5
    <3> QED BY <2>5, <3>1, MinOf
  <2> QED BY <1>4, <2>1, <2>3, <2>6 DEF RunStart
<1>5. ASSUME NEW i \in 1 .. n PROVE ss[i] \in Seq(EntryType)
  <2>1. CASE RunStart(p, file, i)
    <3>1. ss[i] = <<file[i]>>
      BY <1>1, <1>4, <2>1 DEF RunStart
    <3> HIDE DEF ss
    <3> QED BY <1>1, <3>1
  <2>2. CASE ~RunStart(p, file, i)
    <3>1. ss[i] = <<>>
      BY <1>1, <2>2
    <3> HIDE DEF ss
    <3> QED BY <3>1
  <2> QED BY <2>1, <2>2
<1>6. \A i \in 1 .. n : file[i].commented => ss[i] = <<file[i]>>
  BY <1>1, <1>4
<1>7. Extract(p, file) = FlattenSeq(ss)
  BY DEF Extract
<1>8. DOMAIN ss = 1 .. n /\ ss = [i \in 1 .. n |-> ss[i]]
  BY <1>1
<1> HIDE DEF ss
<1>9. ss \in Seq(Seq(EntryType)) /\ Len(ss) = n
  <2>1. ss \in [1 .. n -> Seq(EntryType)]
    BY <1>5, <1>8
  <2> QED BY <1>1, <2>1
<1>10. PICK row, col : Lays(ss, Len(ss), FlattenSeq(ss), row, col)
  BY <1>9, FlattenLays
<1>11. ASSUME NEW i \in 1 .. n, file[i].commented
       PROVE  file[i] \in ToSet(Extract(p, file))
  <2> DEFINE one == <<file[i]>>
  <2>one. Len(one) = 1 /\ one[1] = file[i]
    OBVIOUS
  <2> HIDE DEF one
  <2>1. ss[i] = one
    BY <1>6, <1>11 DEF one
  <2>2. PICK k \in 1 .. Len(FlattenSeq(ss)) : row[k] = i /\ col[k] = 1
    <3>1. Len(ss[i]) = 1
      BY <2>one, <2>1
    <3>2. i \in 1 .. Len(ss) /\ 1 \in 1 .. Len(ss[i])
      BY <1>9, <3>1
    <3> QED BY <1>10, <3>2 DEF Lays
  <2>3. FlattenSeq(ss)[k] = file[i]
    BY <1>10, <2>one, <2>1, <2>2 DEF Lays
  <2>4. Extract(p, file) \in Seq(EntryType)
    BY ExtractHolds
  <2> QED BY <1>7, <2>2, <2>3, <2>4 DEF ToSet
<1>12. ASSUME NEW e \in ToSet(file) PROVE e \in ToSet(ReadBack(p, file))
  <2>1. PICK i \in 1 .. n : e = file[i]
    BY <1>1 DEF ToSet
  <2>2. CASE ~e.commented
    BY <2>2, ReadBackHolds
  <2>3. CASE e.commented
    <3>1. e \in ToSet(Extract(p, file))
      BY <1>11, <2>1, <2>3
    <3> DEFINE u == Those(file, ActivePlaces(file))
    <3>2. u \in Seq(EntryType)
      BY ThosePicks DEF ActivePlaces
    <3>3. Extract(p, file) \in Seq(EntryType) /\ ReadBack(p, file) = u \o Extract(p, file)
      BY ExtractHolds DEF ReadBack
    <3> HIDE DEF u
    <3> QED BY <3>1, <3>2, <3>3, ToSetConcat
  <2>4. e \in EntryType /\ e.commented \in BOOLEAN
    BY <1>1, <2>1 DEF EntryType
  <2> QED BY <2>2, <2>3
<1> QED BY <1>12

\* The destination of a directive has a match exactly if one of its entries that
\* were read back, or planned since, matches.
LEMMA InDestinationHits ==
    ASSUME TypeOK, NEW d \in Directives
    PROVE  /\ InDestination(index, d) # "none"
                  <=> \E x \in ToSet(index[Dest(d)]) : Matches(x.d, d)
           /\ InDestination(index, d) # "none"
                  => \E x \in ToSet(index[Dest(d)]) : InDestination(index, d) = Match[x.d][d]
<1> DEFINE entries == index[Dest(d)]
           hits == {i \in DOMAIN entries : Matches(entries[i].d, d)}
<1>1. entries \in Seq(EntryType) /\ DOMAIN entries = 1 .. Len(entries)
  BY FactsType DEF TypeOK
<1>2. /\ hits # {} => InDestination(index, d) = Match[entries[Min(hits)].d][d]
      /\ hits = {} => InDestination(index, d) = "none"
  BY DEF InDestination
<1>3. hits \in SUBSET Nat /\ hits \subseteq DOMAIN entries
  BY <1>1
<1>4. \A i \in hits : Matches(entries[i].d, d)
  BY DEF Matches
<1>5. \A i \in DOMAIN entries : Matches(entries[i].d, d) => i \in hits
  BY DEF Matches
<1> HIDE DEF hits
<1>6. hits # {} => Min(hits) \in hits
  BY <1>3, MinOf
<1>7. ToSet(entries) = {entries[i] : i \in DOMAIN entries}
  BY DEF ToSet
<1>8. ASSUME NEW x \in ToSet(entries), Matches(x.d, d) PROVE hits # {}
  BY <1>5, <1>7, <1>8
<1> HIDE DEF entries
<1>9. CASE hits = {}
  BY <1>2, <1>8, <1>9 DEF entries
<1>10. CASE hits # {}
  <2>1. entries[Min(hits)] \in ToSet(entries) /\ Matches(entries[Min(hits)].d, d)
    BY <1>3, <1>4, <1>6, <1>7, <1>10
  <2>2. InDestination(index, d) = Match[entries[Min(hits)].d][d]
    BY <1>2, <1>10
  <2> QED BY <2>1, <2>2 DEF Matches, entries
<1> QED BY <1>9, <1>10

\* Without a window every match is good for a skip.
LEMMA NoWindowNoReview ==
    ASSUME NEW x, x \in Directives, NEW d \in Directives, Window[Dest(d)] = 0
    PROVE  Matches(x, d) <=> SkipCapable(Match[x][d])
<1> DEFINE a == Facts[x]
           b == Facts[d]
<1>1. Match[x][d] = MatchKind(a, b, 0)
  BY DEF Match
<1> HIDE DEF a, b
<1>2. ~Structural(a, b, 0)
  BY DEF Structural
<1>3. MatchKind(a, b, 0) \in {"none", "id", "exact"}
  <2>1. CASE IdConflict(a, b) \/ IdEqual(a, b)
    BY <2>1 DEF MatchKind, IdEqual
  <2>2. CASE ~(IdConflict(a, b) \/ IdEqual(a, b))
    BY <1>2, <2>2 DEF MatchKind
  <2> QED BY <2>1, <2>2
<1> QED BY <1>1, <1>3 DEF Matches, SkipCapable

\* The next directive is one of the input that is still to be read, and reading
\* on adds nothing to it.
LEMMA NextIsRead ==
    ASSUME TypeOK, AtDirective, Routed(NextDirective)
    PROVE  NextDirective \in DirectivesOf(todo)
<1>1. todo \in Seq(SourceType) /\ todo # <<>> /\ Head(todo).directives # <<>>
  BY DEF TypeOK, AtDirective
<1>2. DOMAIN todo = 1 .. Len(todo) /\ 1 \in 1 .. Len(todo) /\ Head(todo) = todo[1]
      /\ todo[1] \in SourceType
  BY <1>1
<1> DEFINE ds == todo[1].directives
<1>3. ds \in Seq(Directives) /\ ds # <<>>
  BY <1>1, <1>2 DEF SourceType
<1>4. NextDirective = ds[1] /\ 1 \in DOMAIN ds
  BY <1>2, <1>3 DEF NextDirective
<1> QED BY <1>2, <1>4, DirectivesOfRead

LEMMA ReadingOn ==
    ASSUME TypeOK, (AtDirective /\ Consume) \/ NextSource
    PROVE  DirectivesOf(todo') \subseteq DirectivesOf(todo)
<1>1. todo \in Seq(SourceType) /\ todo # <<>>
  BY DEF TypeOK, AtDirective, NextSource
<1>2. Len(todo) \in Nat /\ DOMAIN todo = 1 .. Len(todo) /\ 1 \in 1 .. Len(todo) /\
      Head(todo) = todo[1]
  BY <1>1
<1> SUFFICES ASSUME NEW d \in DirectivesOf(todo') PROVE d \in DirectivesOf(todo)
  OBVIOUS
<1>3. PICK i \in DOMAIN todo' : \E j \in DOMAIN todo'[i].directives : d = todo'[i].directives[j]
  BY DirectivesOfRead
<1>4. PICK j \in DOMAIN todo'[i].directives : d = todo'[i].directives[j]
  BY <1>3
<1>5. Routed(d)
  BY DirectivesOfRead
<1>6. CASE NextSource
  <2>1. i \in 1 .. Len(todo) - 1 /\ todo'[i] = todo[i + 1] /\ i + 1 \in DOMAIN todo
    BY <1>1, <1>2, <1>3, <1>6 DEF NextSource
  <2> QED BY <1>4, <1>5, <2>1, DirectivesOfRead
<1>7. CASE AtDirective /\ Consume
  <2> DEFINE ds == todo[1].directives
  <2>1. todo[1] \in SourceType
    BY <1>1, <1>2
  <2>2. ds \in Seq(Directives) /\ ds # <<>>
    BY <1>2, <1>7, <2>1 DEF SourceType, AtDirective
  <2>3. Tail(ds) \in Seq(Directives) /\ Len(ds) \in Nat /\ DOMAIN ds = 1 .. Len(ds)
        /\ DOMAIN Tail(ds) = 1 .. Len(ds) - 1
        /\ \A k \in 1 .. Len(ds) - 1 : Tail(ds)[k] = ds[k + 1]
    BY <2>2
  <2>4. todo' = [todo EXCEPT ![1] = [todo[1] EXCEPT !.directives = Tail(ds)]]
    BY <1>2, <1>7 DEF Consume
  <2>5. DOMAIN todo' = DOMAIN todo /\ todo'[1].directives = Tail(ds)
        /\ \A k \in DOMAIN todo : k # 1 => todo'[k] = todo[k]
    BY <1>1, <1>2, <2>1, <2>4 DEF SourceType
  <2>6. CASE i # 1
    BY <1>3, <1>4, <1>5, <2>5, <2>6, DirectivesOfRead
  <2>7. CASE i = 1
    <3>1. j \in 1 .. Len(ds) - 1 /\ d = Tail(ds)[j]
      BY <1>4, <2>3, <2>5, <2>7
    <3>2. d = ds[j + 1] /\ j + 1 \in DOMAIN ds
      BY <2>3, <3>1
    <3> QED BY <1>2, <1>5, <3>2, DirectivesOfRead
  <2> QED BY <2>6, <2>7
<1> QED BY <1>6, <1>7

-----------------------------------------------------------------------------
\* Why filing an input again activates nothing in a file that is spaced: what it
\* recorded there the first time is read back, so each of its directives for that
\* file has a match in it.
DiskIsIndexed ==
    pc = "route" => \A p \in Files : Spaced[p] => ToSet(disk[p]) \subseteq ToSet(index[p])
TodoIsInput   == pc = "route" => DirectivesOf(todo) \subseteq DirectivesOf(input)

\* What is planned as active for such a file has no match in it, and was not filed
\* before.
PlannedIsNew ==
    \A p \in Files : \A e \in ToSet(plan[p]) :
        /\ e.d \in DirectivesOf(input)
        /\ Spaced[p] /\ ~e.commented =>
              /\ input \notin completed
              /\ (pc = "route" \/ p \in left) => \A x \in ToSet(disk[p]) : ~Matches(x.d, e.d)

\* If, besides, no window asks for a review, an input filed before adds nothing at all.
NothingAgain ==
    \A p \in Files : Spaced[p] /\ Window[p] = 0 /\ input \in completed => plan[p] = <<>>

AgainInv == DiskIsIndexed /\ TodoIsInput /\ PlannedIsNew /\ NothingAgain /\ IdleIsClean

LEMMA AcceptedIsNew ==
    ASSUME TypeOK, EventInv, AgainInv, Accept, NEW d \in Directives, d = NextDirective
    PROVE  /\ d \in DirectivesOf(input)
           /\ Spaced[Dest(d)] =>
                 /\ ~ToComment(index, d) =>
                       input \notin completed /\ \A x \in ToSet(disk[Dest(d)]) : ~Matches(x.d, d)
                 /\ input \in completed => Window[Dest(d)] # 0
<1>1. pc = "route" /\ AtDirective /\ Routed(d) /\ ~Skipped(index, d) /\ Dest(d) \in Files
  BY FactsType DEF Accept, AtDirective
<1>2. d \in DirectivesOf(input)
  BY <1>1, NextIsRead DEF AgainInv, TodoIsInput
<1> SUFFICES ASSUME Spaced[Dest(d)]
             PROVE  /\ ~ToComment(index, d) =>
                          input \notin completed /\ \A x \in ToSet(disk[Dest(d)]) : ~Matches(x.d, d)
                    /\ input \in completed => Window[Dest(d)] # 0
  BY <1>2
<1>3. ToSet(disk[Dest(d)]) \subseteq ToSet(index[Dest(d)])
  BY <1>1 DEF AgainInv, DiskIsIndexed
<1>4. InDestination(index, d) # "none" <=> \E x \in ToSet(index[Dest(d)]) : Matches(x.d, d)
  BY InDestinationHits
<1>5. ASSUME input \in completed
      PROVE  \E x \in ToSet(disk[Dest(d)]) : x.d \in Directives /\ SkipCapable(Match[x.d][d])
  BY <1>2, <1>5 DEF EventInv, Kept, Recorded
<1>6. ASSUME input \in completed PROVE InDestination(index, d) # "none"
  BY <1>3, <1>4, <1>5, <1>6 DEF Matches, SkipCapable
<1>7. ASSUME input \in completed, Window[Dest(d)] = 0 PROVE FALSE
  <2>1. PICK x \in ToSet(index[Dest(d)]) : InDestination(index, d) = Match[x.d][d]
    BY <1>6, <1>7, InDestinationHits
  <2>2. x.d \in Directives
    <3>1. index[Dest(d)] \in Seq(EntryType)
      BY <1>1 DEF TypeOK
    <3>2. x \in EntryType
      BY <3>1 DEF ToSet
    <3> QED BY <3>2 DEF EntryType
  <2>3. SkipCapable(Match[x.d][d])
    BY <1>6, <1>7, <2>1, <2>2, NoWindowNoReview DEF Matches
  <2> QED BY <1>1, <2>1, <2>3 DEF Skipped
<1>8. ~ToComment(index, d) => InDestination(index, d) = "none"
  BY DEF ToComment
<1> QED BY <1>3, <1>4, <1>6, <1>7, <1>8

LEMMA AcceptKeepsAgain ==
    ASSUME TypeOK, EventInv, AgainInv, Accept
    PROVE  AgainInv'
<1>1. PICK d \in Directives : d = NextDirective
  BY ConsumeReads DEF Accept
<1> DEFINE c == ToComment(index, d)
           e == Entry(d, c)
<1>2. /\ Dest(d) \in Files /\ pc = "route" /\ pc' = "route"
      /\ UNCHANGED <<disk, input, completed, left>> /\ AtDirective /\ Consume
  BY FactsType DEF Accept, AtDirective
<1>3. e \in EntryType /\ e.d = d /\ (~e.commented => ~c)
  <2>1. c \in BOOLEAN
    BY DEF ToComment, InOtherActive
  <2> HIDE DEF c
  <2> QED BY <1>1, <2>1 DEF Entry, EntryType
<1>4. /\ plan' = [plan EXCEPT ![Dest(d)] = Append(@, e)]
      /\ index' = [index EXCEPT ![Dest(d)] = Append(@, e)]
  BY <1>1 DEF Accept, Indexed
<1>5. plan \in [Files -> Seq(EntryType)] /\ index \in [Files -> Seq(EntryType)]
  BY DEF TypeOK
<1>6. /\ d \in DirectivesOf(input)
      /\ Spaced[Dest(d)] =>
            /\ ~c => input \notin completed /\ \A x \in ToSet(disk[Dest(d)]) : ~Matches(x.d, d)
            /\ input \in completed => Window[Dest(d)] # 0
  BY <1>1, AcceptedIsNew
<1> HIDE DEF e, c
<1>7. /\ plan'[Dest(d)] = plan[Dest(d)] \o <<e>>
      /\ \A q \in Files : q # Dest(d) => plan'[q] = plan[q]
  BY <1>2, <1>3, <1>4, <1>5, AppendEntry
<1>8. /\ index'[Dest(d)] = index[Dest(d)] \o <<e>>
      /\ \A q \in Files : q # Dest(d) => index'[q] = index[q]
  BY <1>2, <1>3, <1>4, <1>5, AppendEntry
<1>9. \A s \in Seq(EntryType) : ToSet(s \o <<e>>) = ToSet(s) \cup {e}
  <2>1. <<e>> \in Seq(EntryType) /\ ToSet(<<e>>) = {e}
    BY <1>3 DEF ToSet
  <2>2. \A s \in Seq(EntryType) : ToSet(s \o <<e>>) = ToSet(s) \cup ToSet(<<e>>)
    BY <2>1, ToSetConcat
  <2> QED BY <2>1, <2>2
<1>10. /\ ToSet(plan'[Dest(d)]) = ToSet(plan[Dest(d)]) \cup {e}
       /\ ToSet(index'[Dest(d)]) = ToSet(index[Dest(d)]) \cup {e}
  BY <1>2, <1>5, <1>7, <1>8, <1>9
<1>11. DiskIsIndexed'
  <2>1. ASSUME NEW p \in Files, Spaced[p] PROVE ToSet(disk[p]) \subseteq ToSet(index'[p])
    BY <1>2, <1>8, <1>10, <2>1 DEF AgainInv, DiskIsIndexed
  <2> QED BY <1>2, <2>1 DEF DiskIsIndexed
<1>12. TodoIsInput'
  <2>1. DirectivesOf(todo') \subseteq DirectivesOf(todo)
    BY <1>2, ReadingOn
  <2> QED BY <1>2, <2>1 DEF AgainInv, TodoIsInput
<1>13. PlannedIsNew'
  <2>1. ASSUME NEW p \in Files, NEW x \in ToSet(plan'[p])
        PROVE  /\ x.d \in DirectivesOf(input)
               /\ Spaced[p] /\ ~x.commented =>
                     input \notin completed /\ \A y \in ToSet(disk[p]) : ~Matches(y.d, x.d)
    <3>1. CASE x \in ToSet(plan[p])
      BY <1>2, <3>1 DEF AgainInv, PlannedIsNew
    <3>2. CASE x \notin ToSet(plan[p])
      <4>1. p = Dest(d) /\ x = e
        BY <1>7, <1>10, <2>1, <3>2
      <4> QED BY <1>3, <1>6, <4>1
    <3> QED BY <3>1, <3>2
  <2> QED BY <1>2, <2>1 DEF PlannedIsNew
<1>14. NothingAgain'
  <2>1. ASSUME NEW p \in Files, Spaced[p], Window[p] = 0, input \in completed
        PROVE  plan'[p] = <<>>
    <3>1. p # Dest(d)
      BY <1>6, <2>1
    <3>2. plan[p] = <<>>
      BY <2>1 DEF AgainInv, NothingAgain
    <3> QED BY <1>7, <3>1, <3>2
  <2> QED BY <1>2, <2>1 DEF NothingAgain
<1>15. IdleIsClean'
  BY <1>2 DEF IdleIsClean
<1> QED BY <1>11, <1>12, <1>13, <1>14, <1>15 DEF AgainInv

LEMMA Again == Spec => []AgainInv
<1>1. Init => AgainInv
  <2> SUFFICES ASSUME Init PROVE AgainInv
    OBVIOUS
  <2>1. pc = "idle" /\ plan = Nothing /\ left = {} /\ completed = {}
    BY DEF Init
  <2>2. \A p \in Files : ToSet(plan[p]) = {} /\ plan[p] = <<>>
    BY <2>1, NothingType DEF Nothing
  <2> QED BY <2>1, <2>2
             DEF AgainInv, DiskIsIndexed, TodoIsInput, PlannedIsNew, NothingAgain, IdleIsClean
<1>2. TypeOK /\ EventInv /\ AgainInv /\ [Next]_vars => AgainInv'
  <2> SUFFICES ASSUME TypeOK, EventInv, AgainInv, [Next]_vars PROVE AgainInv'
    OBVIOUS
  <2> USE DEF AgainInv
  <2>1. ASSUME Exit PROVE AgainInv'
    <3>1. pc' = "idle" /\ plan' = Nothing /\ left' = {}
      BY <2>1 DEF Exit
    <3>2. \A p \in Files : ToSet(plan'[p]) = {} /\ plan'[p] = <<>>
      BY <3>1, NothingType DEF Nothing
    <3> QED BY <3>1, <3>2 DEF DiskIsIndexed, TodoIsInput, PlannedIsNew, NothingAgain, IdleIsClean
  <2>2. ASSUME UNCHANGED <<disk, pc, input, index, plan, left, completed>>,
               DirectivesOf(todo') \subseteq DirectivesOf(todo)
        PROVE  AgainInv'
    BY <2>2 DEF DiskIsIndexed, TodoIsInput, PlannedIsNew, NothingAgain, IdleIsClean
  <2>3. CASE UNCHANGED vars
    BY <2>2, <2>3 DEF vars, process
  <2>4. ASSUME NEW in \in Inputs, NEW fl \in Flags, Begin(in, fl) PROVE AgainInv'
    <3>1. /\ pc' = "route" /\ plan' = Nothing /\ left' = {} /\ disk' = disk
          /\ index' = BuildIndex /\ todo' = in /\ input' = in
      BY <2>4 DEF Begin, IdleIsClean
    <3>2. \A p \in Files : ToSet(plan'[p]) = {} /\ plan'[p] = <<>>
      BY <3>1, NothingType DEF Nothing
    <3>3. ASSUME NEW p \in Files, Spaced[p] PROVE ToSet(disk[p]) \subseteq ToSet(index'[p])
      <4>1. index'[p] = ReadBack(p, disk[p]) /\ disk[p] \in Seq(EntryType)
        BY <3>1 DEF BuildIndex, TypeOK
      <4> QED BY <3>3, <4>1, SpacedReadsAll
    <3> QED BY <3>1, <3>2, <3>3
               DEF DiskIsIndexed, TodoIsInput, PlannedIsNew, NothingAgain, IdleIsClean
  <2>5. CASE NextSource
    BY <2>2, <2>5, ReadingOn DEF NextSource
  <2>6. CASE PassThrough \/ Skip
    <3>1. DirectivesOf(todo') \subseteq DirectivesOf(todo)
      BY <2>6, ReadingOn DEF PassThrough, Skip
    <3> QED BY <2>2, <2>6, <3>1 DEF PassThrough, Skip
  <2>7. CASE Accept
    BY <2>7, AcceptKeepsAgain
  <2>8. ASSUME pc # "idle", pc' \in {"merge", "write"}, UNCHANGED <<input, plan, completed>>,
               \A p \in left' : p \in Files /\ (pc = "route" \/ p \in left) /\ disk'[p] = disk[p]
        PROVE  AgainInv'
    <3>1. PlannedIsNew'
      BY <2>8 DEF PlannedIsNew
    <3> QED BY <2>8, <3>1 DEF DiskIsIndexed, TodoIsInput, NothingAgain, IdleIsClean
  <2>9. CASE BeginMerge
    BY <2>8, <2>9 DEF BeginMerge, ToMerge
  <2>10. CASE Preview \/ WriteTemp \/ FailMerge
    BY <2>8, <2>10 DEF Preview, WriteTemp, FailMerge, TypeOK
  <2>11. CASE Rename
    BY <2>8, <2>11 DEF Rename, TypeOK
  <2> QED BY <2>1, <2>3, <2>4, <2>5, <2>6, <2>7, <2>9, <2>10, <2>11
          DEF Next, RefuseSource, RefuseDirective, Finish, Crash
<1> QED BY <1>1, <1>2, Typing, Reading, PTL DEF Spec

\* An input that was filed completely plans nothing active when it is filed again,
\* for any file whose insertions are spaced (InsertBlankLinesBetweenDirectives).
THEOREM Quiet == Spec => []ReRunsActivateNothing
<1>1. AgainInv => ReRunsActivateNothing
  BY DEF AgainInv, PlannedIsNew, ReRunsActivateNothing
<1> QED BY <1>1, Again, PTL

\* Where all files are spaced and no account has a window, the claim of
\* cmd/beanfile/main.go:4 holds: an input that was filed completely plans nothing at
\* all when it is filed again.
AllSpaced == \A p \in Files : Spaced[p]

THEOREM Idempotent ==
    ASSUME AllSpaced, \A p \in Files : Window[p] = 0
    PROVE  Spec => []ReRunsAreIdempotent
<1>1. TypeOK /\ AgainInv => ReRunsAreIdempotent
  <2> SUFFICES ASSUME TypeOK, AgainInv, input \in completed PROVE plan = Nothing
    BY DEF ReRunsAreIdempotent
  <2>1. \A p \in Files : plan[p] = <<>>
    BY DEF AgainInv, NothingAgain, AllSpaced
  <2>2. plan \in [Files -> Seq(EntryType)]
    BY DEF TypeOK
  <2> QED BY <2>1, <2>2 DEF Nothing
<1> QED BY <1>1, Typing, Again, PTL

-----------------------------------------------------------------------------
\* Why clear events stay active. Where d is clear, what matches d matches the same
\* directives as d does, and is filed where all markers are read back.
Cleared == {d \in Directives : Clear(d)}

LEMMA ClearMatches ==
    ASSUME NEW d \in Cleared
    PROVE  /\ d \in Directives /\ Matches(d, d)
           /\ \A x, y \in Directives : Matches(x, d) =>
                 (Matches(x, y) <=> Matches(y, d)) /\ (Matches(y, x) <=> Matches(y, d))
           /\ \A x \in Directives : Matches(x, d) => Spaced[Dest(x)]
<1>1. d \in Directives /\ Matches(d, d)
  BY SkipReflexive DEF Cleared, Matches, SkipCapable
<1> QED BY <1>1 DEF Cleared, Clear, Like

\* The directives that match d: one is in the books or in an input that was begun;
\* one is active on disk; one of an input to be completed finds no match in its
\* file; one is about to be written as active.
Met(d) == \/ \E p \in Files : \E e \in InBooks(p) : Matches(e.d, d)
          \/ \E in \in begun : \E a \in DirectivesOf(in) : Matches(a, d)
OnDiskActive(d) == \E p \in Files : \E e \in ToSet(disk[p]) : ~e.commented /\ Matches(e.d, d)
OwedBy(in, d) ==
    \E a \in DirectivesOf(in) : Matches(a, d) /\ \A e \in InBooks(Dest(a)) : ~Matches(e.d, d)
Owed(d) == \E in \in begun \ completed : OwedBy(in, d)
Coming(d) ==
    \E p \in Files : /\ pc = "route" \/ p \in left
                     /\ \E e \in ToSet(plan[p]) : ~e.commented /\ Matches(e.d, d)

\* The invariant: a marker whose record a crash has lost is no harm, as long as the
\* input of that record has to be filed again and finds nothing where it belongs.
ActiveInv == \A d \in Cleared : Met(d) => OnDiskActive(d) \/ Owed(d) \/ Coming(d)

LEMMA BooksHoldDirectives ==
    ASSUME TypeOK, NEW p \in Files
    PROVE  /\ \A e \in ToSet(disk[p]) : e.d \in Directives
           /\ \A e \in ToSet(plan[p]) : e.d \in Directives
           /\ \A e \in ToSet(index[p]) : e.d \in Directives
           /\ \A e \in InBooks(p) : e.d \in Directives
<1>1. disk[p] \in Seq(EntryType) /\ plan[p] \in Seq(EntryType) /\ index[p] \in Seq(EntryType)
  BY DEF TypeOK
<1>2. \A s \in Seq(EntryType) : \A e \in ToSet(s) : e.d \in Directives
  <2> SUFFICES ASSUME NEW s \in Seq(EntryType), NEW i \in DOMAIN s PROVE s[i].d \in Directives
    BY DEF ToSet
  <2>1. s[i] \in EntryType
    OBVIOUS
  <2> QED BY <2>1 DEF EntryType
<1> QED BY <1>1, <1>2 DEF InBooks

\* Steps under which the books only lose what is no longer to be written, and what
\* was about to be written as active is active, still to come, or owed.
LEMMA KeepsActive ==
    ASSUME TypeOK, ActiveInv, begun' = begun,
           \A p \in Files : InBooks(p)' \subseteq InBooks(p),
           \A d \in Cleared : OnDiskActive(d) => OnDiskActive(d)',
           \A d \in Cleared : \A in \in begun \ completed :
               OwedBy(in, d) /\ ~OnDiskActive(d)' => in \notin completed',
           \A d \in Cleared : Coming(d) => OnDiskActive(d)' \/ Owed(d)' \/ Coming(d)'
    PROVE  ActiveInv'
<1> SUFFICES ASSUME NEW d \in Cleared, Met(d)'
             PROVE  OnDiskActive(d)' \/ Owed(d)' \/ Coming(d)'
  BY DEF ActiveInv
<1>1. Met(d)
  BY DEF Met
<1>2. CASE Owed(d) /\ ~OnDiskActive(d)'
  <2>1. PICK in \in begun \ completed : OwedBy(in, d)
    BY <1>2 DEF Owed
  <2>2. in \in begun' \ completed'
    BY <1>2, <2>1
  <2>3. PICK a \in DirectivesOf(in) : Matches(a, d) /\ \A e \in InBooks(Dest(a)) : ~Matches(e.d, d)
    BY <2>1 DEF OwedBy
  <2>4. Dest(a) \in Files
    BY InputsAssumption, DirectivesOfType DEF TypeOK
  <2>5. \A e \in InBooks(Dest(a))' : ~Matches(e.d, d)
    BY <2>3, <2>4
  <2>6. OwedBy(in, d)'
    BY <2>3, <2>5 DEF OwedBy
  <2> QED BY <2>2, <2>6 DEF Owed
<1> QED BY <1>1, <1>2 DEF ActiveInv

\* What a file fails to get is owed by the input of the run.
LEMMA DroppedIsOwed ==
    ASSUME TypeOK, PlannedIsNew, pc # "idle", begun' = begun,
           completed' = completed,
           NEW p \in Files, pc = "route" \/ p \in left, InBooks(p)' = ToSet(disk[p]),
           NEW e \in ToSet(plan[p]), ~e.commented,
           NEW d \in Cleared, Matches(e.d, d)
    PROVE  Owed(d)'
<1>1. input \in begun /\ e.d \in Directives /\ Dest(e.d) = p
  BY BooksHoldDirectives DEF TypeOK
<1>2. /\ e.d \in DirectivesOf(input) /\ input \notin completed
      /\ \A x \in ToSet(disk[p]) : ~Matches(x.d, e.d)
  <2>1. Spaced[p]
    BY <1>1, ClearMatches
  <2> QED BY <2>1 DEF PlannedIsNew
<1>3. ASSUME NEW x \in ToSet(disk[p]), Matches(x.d, d) PROVE FALSE
  <2>1. x.d \in Directives
    BY BooksHoldDirectives
  <2>2. Matches(x.d, e.d)
    BY <1>1, <1>3, <2>1, ClearMatches
  <2> QED BY <1>2, <2>2
<1>4. \A x \in InBooks(Dest(e.d))' : ~Matches(x.d, d)
  BY <1>1, <1>3
<1>5. PICK in : in = input
  OBVIOUS
<1>6. OwedBy(in, d)'
  BY <1>2, <1>4, <1>5 DEF OwedBy
<1>7. in \in begun' \ completed'
  BY <1>1, <1>2, <1>5
<1> QED BY <1>6, <1>7 DEF Owed

\* What is planned as active is to come; a marker is planned for something active,
\* in the books already.
LEMMA AcceptKeepsActive ==
    ASSUME TypeOK, EventInv, AgainInv, ActiveInv, Accept
    PROVE  ActiveInv'
<1>1. PICK n \in Directives : n = NextDirective
  BY ConsumeReads DEF Accept
<1> DEFINE c == ToComment(index, n)
           e == Entry(n, c)
<1>2. /\ Dest(n) \in Files /\ pc = "route" /\ pc' = "route"
      /\ UNCHANGED <<disk, input, completed, begun, left>>
  BY FactsType DEF Accept, AtDirective
<1>3. e \in EntryType /\ e.d = n /\ (~c => ~e.commented)
  <2>1. c \in BOOLEAN
    BY DEF ToComment, InOtherActive
  <2> HIDE DEF c
  <2> QED BY <1>1, <2>1 DEF Entry, EntryType
<1>4. plan' = [plan EXCEPT ![Dest(n)] = Append(@, e)]
  BY <1>1 DEF Accept
<1>5. plan \in [Files -> Seq(EntryType)]
  BY DEF TypeOK
<1>6. n \in DirectivesOf(input) /\ input \in begun
  BY <1>1, <1>2, AcceptedIsNew DEF TypeOK
<1>7. c => \/ \E x \in ToSet(index[Dest(n)]) : Matches(x.d, n)
           \/ \E p \in Files : \E x \in ToSet(index[p]) : ~x.commented /\ Matches(x.d, n)
  BY InDestinationHits DEF ToComment, InOtherActive, Matches
<1> HIDE DEF e, c
<1>8. /\ plan'[Dest(n)] = plan[Dest(n)] \o <<e>>
      /\ \A q \in Files : q # Dest(n) => plan'[q] = plan[q]
  BY <1>2, <1>3, <1>4, <1>5, AppendEntry
<1>9. ToSet(plan'[Dest(n)]) = ToSet(plan[Dest(n)]) \cup {e}
  <2>1. <<e>> \in Seq(EntryType) /\ ToSet(<<e>>) = {e} /\ plan[Dest(n)] \in Seq(EntryType)
    BY <1>2, <1>3, <1>5 DEF ToSet
  <2>2. ToSet(plan[Dest(n)] \o <<e>>) = ToSet(plan[Dest(n)]) \cup ToSet(<<e>>)
    BY <2>1, ToSetConcat
  <2> QED BY <1>8, <2>1, <2>2
<1>10. \A p \in Files : /\ InBooks(p) = ToSet(disk[p]) \cup ToSet(plan[p])
                        /\ InBooks(p)' = ToSet(disk[p]) \cup ToSet(plan'[p])
  BY <1>2 DEF InBooks
<1>11. /\ InBooks(Dest(n))' = InBooks(Dest(n)) \cup {e}
       /\ \A q \in Files : q # Dest(n) => InBooks(q)' = InBooks(q)
  BY <1>2, <1>8, <1>9, <1>10
<1> SUFFICES ASSUME NEW d \in Cleared, Met(d)'
             PROVE  OnDiskActive(d)' \/ Owed(d)' \/ Coming(d)'
  BY DEF ActiveInv
<1>12. Met(d)
  <2>1. CASE \E p \in Files : \E x \in InBooks(p)' : Matches(x.d, d)
    <3>1. PICK p \in Files : \E x \in InBooks(p)' : Matches(x.d, d)
      BY <2>1
    <3>2. PICK x \in InBooks(p)' : Matches(x.d, d)
      BY <3>1
    <3>3. CASE x \in InBooks(p)
      BY <3>2, <3>3 DEF Met
    <3>4. CASE x \notin InBooks(p)
      <4>1. x = e
        BY <1>2, <1>11, <3>4
      <4> QED BY <1>3, <1>6, <3>2, <4>1 DEF Met
    <3> QED BY <3>3, <3>4
  <2>2. CASE \E in \in begun : \E a \in DirectivesOf(in) : Matches(a, d)
    BY <2>2 DEF Met
  <2> QED BY <1>2, <2>1, <2>2 DEF Met
<1>13. OnDiskActive(d) => OnDiskActive(d)'
  BY <1>2 DEF OnDiskActive
<1>14. Coming(d) => Coming(d)'
  <2> SUFFICES ASSUME NEW p \in Files, NEW x \in ToSet(plan[p]), ~x.commented, Matches(x.d, d)
               PROVE  Coming(d)'
    BY DEF Coming
  <2>1. x \in ToSet(plan'[p])
    BY <1>8, <1>9
  <2> QED BY <1>2, <2>1 DEF Coming
<1>15. CASE Owed(d)
  <2>1. PICK in \in begun \ completed : OwedBy(in, d)
    BY <1>15 DEF Owed
  <2>2. PICK a \in DirectivesOf(in) : Matches(a, d) /\ \A x \in InBooks(Dest(a)) : ~Matches(x.d, d)
    BY <2>1 DEF OwedBy
  <2>3. Dest(a) \in Files
    BY InputsAssumption, DirectivesOfType DEF TypeOK
  <2>4. CASE Dest(a) # Dest(n) \/ ~Matches(n, d)
    <3>1. \A x \in InBooks(Dest(a))' : ~Matches(x.d, d)
      BY <1>3, <1>11, <2>2, <2>3, <2>4
    <3>2. OwedBy(in, d)'
      BY <2>2, <3>1 DEF OwedBy
    <3> QED BY <1>2, <2>1, <3>2 DEF Owed
  <2>5. CASE Dest(a) = Dest(n) /\ Matches(n, d) /\ ~c
    <3>1. e \in ToSet(plan'[Dest(n)]) /\ ~e.commented /\ Matches(e.d, d)
      BY <1>3, <1>9, <2>5
    <3> QED BY <1>2, <3>1 DEF Coming
  <2>6. CASE Dest(a) = Dest(n) /\ Matches(n, d) /\ c
    <3>1. \A p \in Files : \A x \in ToSet(index[p]) : x \in InBooks(p)
      BY <1>2 DEF EventInv, IndexInBooks
    <3>2. \A p \in Files : \A x \in ToSet(index[p]) : Matches(x.d, n) => Matches(x.d, d)
      BY <1>1, <2>6, BooksHoldDirectives, ClearMatches
    <3>3. PICK p \in Files : \E x \in ToSet(index[p]) : ~x.commented /\ Matches(x.d, n)
      BY <1>2, <1>7, <2>2, <2>6, <3>1, <3>2
    <3>4. PICK x \in ToSet(index[p]) : ~x.commented /\ Matches(x.d, n)
      BY <3>3
    <3>5. x \in InBooks(p) /\ Matches(x.d, d)
      BY <3>1, <3>2, <3>4
    <3>6. CASE x \in ToSet(disk[p])
      BY <1>13, <3>4, <3>5, <3>6 DEF OnDiskActive
    <3>7. CASE x \in ToSet(plan[p])
      BY <1>2, <1>14, <3>4, <3>5, <3>7 DEF Coming
    <3> QED BY <1>10, <3>5, <3>6, <3>7
  <2> QED BY <2>4, <2>5, <2>6
<1> QED BY <1>12, <1>13, <1>14, <1>15 DEF ActiveInv

\* An input that is begun for the first time finds its directives recorded, or
\* owes them.
LEMMA BeginKeepsActive ==
    ASSUME TypeOK, AgainInv, ActiveInv, NEW in \in Inputs, NEW fl \in Flags, Begin(in, fl)
    PROVE  ActiveInv'
<1>1. /\ pc = "idle" /\ pc' = "route" /\ plan = Nothing /\ left = {}
      /\ UNCHANGED <<disk, plan, left, completed>> /\ begun' = begun \cup {in}
  BY DEF Begin, AgainInv, IdleIsClean
<1>2. \A p \in Files : ToSet(plan[p]) = {}
  BY <1>1, NothingType
<1>3. \A p \in Files : InBooks(p)' = InBooks(p)
  BY <1>1, <1>2 DEF InBooks
<1> SUFFICES ASSUME NEW d \in Cleared, Met(d)'
             PROVE  OnDiskActive(d)' \/ Owed(d)' \/ Coming(d)'
  BY DEF ActiveInv
<1>4. OnDiskActive(d) => OnDiskActive(d)'
  BY <1>1 DEF OnDiskActive
<1>5. ~Coming(d)
  BY <1>1 DEF Coming
<1>6. ASSUME NEW on \in begun' \ completed, NEW a \in DirectivesOf(on), Matches(a, d),
             \A e \in InBooks(Dest(a)) : ~Matches(e.d, d)
      PROVE  Owed(d)'
  <2>1. Dest(a) \in Files
    BY <1>1, InputsAssumption, DirectivesOfType DEF TypeOK
  <2>2. OwedBy(on, d)'
    BY <1>3, <1>6, <2>1 DEF OwedBy
  <2> QED BY <1>1, <2>2 DEF Owed
<1>7. Owed(d) => Owed(d)'
  BY <1>1, <1>6 DEF Owed, OwedBy
<1>8. CASE Met(d)
  BY <1>4, <1>5, <1>7, <1>8 DEF ActiveInv
<1>9. CASE ~Met(d)
  <2>1. \A p \in Files : \A e \in InBooks(p) : ~Matches(e.d, d)
    BY <1>9 DEF Met
  <2>2. PICK a \in DirectivesOf(in) : Matches(a, d)
    BY <1>1, <1>3, <1>9 DEF Met
  <2>3. in \notin begun
    BY <1>9, <2>2 DEF Met
  <2>4. in \in begun' \ completed
    BY <1>1, <2>3 DEF TypeOK
  <2>5. Dest(a) \in Files
    BY InputsAssumption, DirectivesOfType
  <2> QED BY <1>6, <2>1, <2>2, <2>4, <2>5
<1> QED BY <1>8, <1>9

\* An input that a run completes owes nothing: what it has read is recorded.
LEMMA CompletedOwesNothing ==
    ASSUME TypeOK, EventInv, Finish, ~failed, ~flags.dryRun,
           NEW d \in Cleared, OwedBy(input, d)
    PROVE  FALSE
<1>1. PICK a \in DirectivesOf(input) :
         Matches(a, d) /\ \A e \in InBooks(Dest(a)) : ~Matches(e.d, d)
  BY DEF OwedBy
<1>2. a \in Directives
  BY DirectivesOfType DEF TypeOK
<1>3. todo = <<>> /\ Succeeding
  BY DEF Finish, EventInv, Phases, Succeeding
<1>4. a \notin DirectivesOf(todo)
  BY <1>3, DirectivesOfRead
<1>5. Recorded(a, InBooks(Dest(a)))
  BY <1>3, <1>4 DEF EventInv, ReadIsRecorded
<1>6. PICK e \in InBooks(Dest(a)) : e.d \in Directives /\ SkipCapable(Match[e.d][a])
  BY <1>5 DEF Recorded
<1>7. Matches(e.d, a)
  BY <1>6 DEF Matches, SkipCapable
<1> QED BY <1>1, <1>2, <1>6, <1>7, ClearMatches

LEMMA Activity == Spec => []ActiveInv
<1>1. TypeOK /\ Init => ActiveInv
  <2> SUFFICES ASSUME TypeOK, Init, NEW d \in Cleared, Met(d) PROVE OnDiskActive(d)
    BY DEF ActiveInv
  <2>1. begun = {} /\ pc = "idle" /\ left = {} /\ disk = InitialDisk
    BY DEF Init
  <2>2. \A p \in Files : InBooks(p) = ToSet(disk[p])
    BY <2>1 DEF InBooks
  <2>3. PICK p \in Files : \E e \in ToSet(disk[p]) : Matches(e.d, d)
    BY <2>1, <2>2 DEF Met
  <2>4. PICK e \in ToSet(disk[p]) : Matches(e.d, d)
    BY <2>3
  <2>5. e.d \in Like(d) /\ Clear(d)
    BY <2>3, <2>4, BooksHoldDirectives DEF Like, Cleared
  <2>6. \E q \in Files : \E r \in ToSet(InitialDisk[q]) : ~r.commented /\ r.d \in Like(d)
    BY <2>1, <2>4, <2>5 DEF Clear
  <2> QED BY <2>1, <2>6 DEF OnDiskActive, Like
<1>2. TypeOK /\ EventInv /\ AgainInv /\ ActiveInv /\ [Next]_vars => ActiveInv'
  <2> SUFFICES ASSUME TypeOK, EventInv, AgainInv, ActiveInv, [Next]_vars PROVE ActiveInv'
    OBVIOUS
  <2>1. PlannedIsNew
    BY DEF AgainInv
  <2>2. ASSUME UNCHANGED <<disk, pc, plan, left, begun, completed>> PROVE ActiveInv'
    BY <2>2 DEF ActiveInv, Met, OnDiskActive, Owed, OwedBy, Coming, InBooks
  <2>3. CASE UNCHANGED vars
    BY <2>2, <2>3 DEF vars, process
  <2>4. ASSUME disk' = disk PROVE \A d \in Cleared : OnDiskActive(d) => OnDiskActive(d)'
    BY <2>4 DEF OnDiskActive
  <2>5. ASSUME Exit, \/ pc # "idle" /\ completed' = completed
                     \/ Finish /\ ~failed /\ ~flags.dryRun
        PROVE  ActiveInv'
    <3>1. pc' = "idle" /\ left' = {} /\ UNCHANGED <<disk, begun>>
      BY <2>5 DEF Exit
    <3>2. \A p \in Files : InBooks(p)' = ToSet(disk[p]) /\ InBooks(p)' \subseteq InBooks(p)
      BY <3>1 DEF InBooks
    <3>3. ASSUME NEW d \in Cleared, NEW in \in begun \ completed, OwedBy(in, d)
          PROVE  in \notin completed'
      <4>1. CASE completed' = completed
        BY <4>1
      <4>2. CASE Finish /\ ~failed /\ ~flags.dryRun
        <5>1. completed' = completed \cup {input}
          BY <4>2 DEF Finish
        <5>2. in # input
          BY <3>3, <4>2, CompletedOwesNothing
        <5> QED BY <5>1, <5>2
      <4> QED BY <2>5, <4>1, <4>2
    <3>4. ASSUME NEW d \in Cleared, Coming(d) PROVE Owed(d)'
      <4>1. PICK p \in Files : /\ pc = "route" \/ p \in left
                               /\ \E e \in ToSet(plan[p]) : ~e.commented /\ Matches(e.d, d)
        BY <3>4 DEF Coming
      <4>2. PICK e \in ToSet(plan[p]) : ~e.commented /\ Matches(e.d, d)
        BY <4>1
      <4>3. pc # "idle" /\ completed' = completed
        BY <2>5, <4>1 DEF Finish
      <4> QED BY <2>1, <3>1, <3>2, <4>1, <4>2, <4>3, DroppedIsOwed
    <3> QED BY <2>4, <3>1, <3>2, <3>3, <3>4, KeepsActive
  <2>6. CASE RefuseSource \/ RefuseDirective \/ Crash
    BY <2>5, <2>6 DEF RefuseSource, RefuseDirective, Crash, AtDirective
  <2>7. CASE Finish
    BY <2>5, <2>7 DEF Finish
  <2>8. ASSUME NEW in \in Inputs, NEW fl \in Flags, Begin(in, fl) PROVE ActiveInv'
    BY <2>8, BeginKeepsActive
  <2>9. CASE NextSource \/ PassThrough \/ Skip
    BY <2>2, <2>9 DEF NextSource, PassThrough, Skip
  <2>10. CASE Accept
    BY <2>10, AcceptKeepsActive
  <2>11. CASE BeginMerge
    <3>1. /\ pc = "route" /\ pc' = "merge" /\ left' = ToMerge
          /\ UNCHANGED <<disk, plan, begun, completed>>
      BY <2>11 DEF BeginMerge
    <3>2. \A p \in Files : InBooks(p)' \subseteq InBooks(p)
      BY <3>1 DEF InBooks
    <3>3. ASSUME NEW d \in Cleared, Coming(d) PROVE Coming(d)'
      <4>1. PICK p \in Files : \E e \in ToSet(plan[p]) : ~e.commented /\ Matches(e.d, d)
        BY <3>3 DEF Coming
      <4>2. plan[p] # <<>>
        BY <4>1 DEF ToSet
      <4>3. p \in left'
        BY <3>1, <4>2 DEF ToMerge
      <4> QED BY <3>1, <4>1, <4>3 DEF Coming
    <3> QED BY <2>4, <3>1, <3>2, <3>3, KeepsActive
  <2>12. CASE Preview \/ FailMerge
    <3> DEFINE m == Min(left)
    <3>1. /\ pc \in {"merge", "write"} /\ pc' \in {"merge", "write"} /\ left' = left \ {m}
          /\ UNCHANGED <<disk, plan, begun, completed>>
      BY <2>12 DEF Preview, FailMerge
    <3> HIDE DEF m
    <3>2. \A p \in Files : InBooks(p)' \subseteq InBooks(p)
      BY <3>1 DEF InBooks
    <3>3. ASSUME NEW d \in Cleared, Coming(d) PROVE Owed(d)' \/ Coming(d)'
      <4>1. PICK p \in Files : /\ p \in left
                               /\ \E e \in ToSet(plan[p]) : ~e.commented /\ Matches(e.d, d)
        BY <3>1, <3>3 DEF Coming
      <4>2. CASE p \in left'
        BY <3>1, <4>1, <4>2 DEF Coming
      <4>3. CASE p \notin left'
        <5>1. PICK e \in ToSet(plan[p]) : ~e.commented /\ Matches(e.d, d)
          BY <4>1
        <5>2. InBooks(p)' = ToSet(disk[p])
          BY <3>1, <4>3 DEF InBooks
        <5> QED BY <2>1, <3>1, <4>1, <5>1, <5>2, DroppedIsOwed
      <4> QED BY <4>2, <4>3
    <3> QED BY <2>4, <3>1, <3>2, <3>3, KeepsActive
  <2>13. CASE WriteTemp
    BY <2>13 DEF WriteTemp, ActiveInv, Met, OnDiskActive, Owed, OwedBy, Coming, InBooks
  <2>14. CASE Rename
    <3> DEFINE m == Min(left)
    <3>1. /\ pc = "write" /\ pc' = "merge" /\ left' = left \ {m}
          /\ UNCHANGED <<plan, begun, completed>>
      BY <2>14 DEF Rename
    <3>2. \A p \in Files : InBooks(p) = InBooks(p)' /\ ToSet(disk[p]) \subseteq ToSet(disk'[p])
      BY <2>14, RenameKeepsBooks DEF EventInv
    <3> HIDE DEF m
    <3>3. ASSUME NEW d \in Cleared, OnDiskActive(d) PROVE OnDiskActive(d)'
      BY <3>2, <3>3 DEF OnDiskActive
    <3>4. ASSUME NEW d \in Cleared, Coming(d) PROVE OnDiskActive(d)' \/ Coming(d)'
      <4>1. PICK p \in Files : /\ p \in left
                               /\ \E e \in ToSet(plan[p]) : ~e.commented /\ Matches(e.d, d)
        BY <3>1, <3>4 DEF Coming
      <4>2. CASE p \in left'
        BY <3>1, <4>1, <4>2 DEF Coming
      <4>3. CASE p \notin left'
        <5>1. InBooks(p)' = ToSet(disk'[p]) /\ ToSet(plan[p]) \subseteq InBooks(p)
          BY <3>1, <4>1, <4>3 DEF InBooks
        <5> QED BY <3>2, <4>1, <5>1 DEF OnDiskActive
      <4> QED BY <4>2, <4>3
    <3> QED BY <3>1, <3>2, <3>3, <3>4, KeepsActive
  <2> QED BY <2>3, <2>6, <2>7, <2>8, <2>9, <2>10, <2>11, <2>12, <2>13, <2>14 DEF Next
<1> QED BY <1>1, <1>2, Typing, Reading, Again, PTL DEF Spec

\* Every clear event stays in the books: a crash or a failed merge between two files
\* takes none away for good, whatever runs come in between.
THEOREM StaysActive == Spec => []EventsStayActive
<1>1. TypeOK /\ EventInv /\ AgainInv /\ ActiveInv => EventsStayActive
  <2> SUFFICES ASSUME TypeOK, EventInv, AgainInv, ActiveInv, begun \subseteq completed,
                      NEW in \in completed, NEW d \in DirectivesOf(in), Clear(d)
               PROVE  OnDiskActive(d)
    BY DEF EventsStayActive, OnDiskActive
  <2>1. d \in Cleared /\ Dest(d) \in Files
    BY InputsAssumption, DirectivesOfType DEF TypeOK, Cleared
  <2>2. Met(d)
    <3>1. in \in begun /\ Matches(d, d)
      BY <2>1, ClearMatches DEF TypeOK
    <3> QED BY <3>1 DEF Met
  <2>3. ~Owed(d)
    BY DEF Owed
  <2>4. ~Coming(d)
    <3> SUFFICES ASSUME NEW p \in Files, NEW e \in ToSet(plan[p]), ~e.commented, Matches(e.d, d),
                        pc = "route" \/ p \in left
                 PROVE  FALSE
      BY DEF Coming
    <3>1. Spaced[p]
      BY <2>1, BooksHoldDirectives, ClearMatches DEF TypeOK
    <3>2. input \notin completed
      BY <3>1 DEF AgainInv, PlannedIsNew
    <3>3. pc # "idle"
      BY DEF AgainInv, IdleIsClean
    <3> QED BY <3>2, <3>3 DEF TypeOK
  <2> QED BY <2>1, <2>2, <2>3, <2>4 DEF ActiveInv
<1> QED BY <1>1, Typing, Reading, Again, Activity, PTL

-----------------------------------------------------------------------------
\* When events are clear.
LEMMA SameLegsTransitive ==
    ASSUME NEW V, NEW s \in Seq(V), NEW t \in Seq(V), NEW u \in Seq(V),
           SameLegs(s, t), SameLegs(t, u)
    PROVE  SameLegs(s, u)
<1>1. PICK f : Pairs(s, t, f) /\ Covers(s, t, f)
  BY DEF SameLegs
<1>2. PICK g : Pairs(t, u, g) /\ Covers(t, u, g)
  BY DEF SameLegs
<1> DEFINE h == [i \in 1 .. Len(s) |-> g[f[i]]]
<1>3. \A i \in 1 .. Len(s) : f[i] \in 1 .. Len(t) /\ s[i] = t[f[i]] /\ h[i] = g[f[i]]
  BY <1>1 DEF Pairs
<1>4. \A j \in 1 .. Len(t) : g[j] \in 1 .. Len(u) /\ t[j] = u[g[j]]
  BY <1>2 DEF Pairs
<1>5. h \in [1 .. Len(s) -> 1 .. Len(u)]
  BY <1>3, <1>4
<1> HIDE DEF h
<1>6. \A i, j \in 1 .. Len(s) : h[i] = h[j] => i = j
  <2>1. \A i, j \in 1 .. Len(s) : f[i] = f[j] => i = j
    BY <1>1 DEF Pairs
  <2>2. \A i, j \in 1 .. Len(t) : g[i] = g[j] => i = j
    BY <1>2 DEF Pairs
  <2>3. ASSUME NEW i \in 1 .. Len(s), NEW j \in 1 .. Len(s), h[i] = h[j] PROVE i = j
    <3>1. f[i] \in 1 .. Len(t) /\ f[j] \in 1 .. Len(t) /\ g[f[i]] = g[f[j]]
      BY <1>3, <2>3
    <3>2. f[i] = f[j]
      BY <2>2, <3>1
    <3> QED BY <2>1, <3>2
  <2> QED BY <2>3
<1>7. \A i \in 1 .. Len(s) : s[i] = u[h[i]]
  BY <1>3, <1>4
<1>8. ASSUME NEW k \in 1 .. Len(u) PROVE \E i \in 1 .. Len(s) : h[i] = k
  <2>1. PICK j \in 1 .. Len(t) : g[j] = k
    BY <1>2 DEF Covers
  <2>2. PICK i \in 1 .. Len(s) : f[i] = j
    BY <1>1 DEF Covers
  <2> QED BY <1>3, <2>1, <2>2
<1>9. Pairs(s, u, h)
  BY <1>5, <1>6, <1>7 DEF Pairs
<1>10. Covers(s, u, h)
  BY <1>8 DEF Covers
<1> QED BY <1>9, <1>10 DEF SameLegs

\* Transactions written in full, under the same id keys and without a window, match
\* as equivalence relations do: no third directive comes between two.
LEMMA PlainMatching ==
    ASSUME \A p \in Files : Window[p] = 0,
           \A d \in Directives : Facts[d].elided = None,
           \A x, y \in Directives : DOMAIN Facts[x].ids = DOMAIN Facts[y].ids,
           NEW x \in Directives, NEW y \in Directives, NEW z \in Directives
    PROVE  /\ Matches(x, y) => Matches(y, x)
           /\ Matches(x, y) /\ Matches(y, z) => Matches(x, z)
<1>1. \A a, b \in Directives : Matches(a, b) <=> SkipCapable(Match[a][b])
  BY FactsType, NoWindowNoReview
<1>2. Matches(x, y) => Matches(y, x)
  BY <1>1, SkipIsSymmetric
<1> DEFINE keys == DOMAIN Facts[x].ids
           a == Facts[x]
           b == Facts[y]
           c == Facts[z]
<1>3. /\ DOMAIN a.ids = keys /\ DOMAIN b.ids = keys /\ DOMAIN c.ids = keys
      /\ a.elided = None /\ b.elided = None /\ c.elided = None
      /\ a.keyed \in Seq(PostingType) /\ b.keyed \in Seq(PostingType)
      /\ c.keyed \in Seq(PostingType)
  BY FactsType
<1>4. /\ SkipCapable(Match[x][y]) <=> ~IdConflict(a, b) /\ (IdEqual(a, b) \/ Exact(a, b))
      /\ SkipCapable(Match[y][z]) <=> ~IdConflict(b, c) /\ (IdEqual(b, c) \/ Exact(b, c))
      /\ SkipCapable(Match[x][z]) <=> ~IdConflict(a, c) /\ (IdEqual(a, c) \/ Exact(a, c))
  BY SkipMeaning DEF Match
<1> HIDE DEF a, b, c, keys
<1>5. ASSUME ~IdConflict(a, b), ~IdConflict(b, c) PROVE ~IdConflict(a, c)
  BY <1>3, <1>5 DEF IdConflict, SharedKeys
<1>6. keys # {} => (~IdConflict(a, c) => IdEqual(a, c))
  BY <1>3 DEF IdEqual, SharedKeys
<1>7. keys = {} => ~IdEqual(a, b) /\ ~IdEqual(b, c)
  BY <1>3 DEF IdEqual, SharedKeys
<1>8. ASSUME Exact(a, b), Exact(b, c) PROVE Exact(a, c)
  <2>1. MultisetEqual("exact", a.keyed, b.keyed) /\ MultisetEqual("exact", b.keyed, c.keyed)
    BY <1>3, <1>8 DEF Exact, MatchPostings
  <2>2. /\ Len(a.keyed) = Len(b.keyed) /\ SameLegs(a.keyed, b.keyed)
        /\ Len(b.keyed) = Len(c.keyed) /\ SameLegs(b.keyed, c.keyed)
    BY <1>3, <2>1, ExactLegs
  <2>3. SameLegs(a.keyed, c.keyed)
    BY <1>3, <2>2, SameLegsTransitive
  <2>4. MultisetEqual("exact", a.keyed, c.keyed)
    BY <1>3, <2>2, <2>3, ExactLegs
  <2> QED BY <1>3, <1>8, <2>4 DEF Exact, MatchPostings
<1> QED BY <1>1, <1>2, <1>4, <1>5, <1>6, <1>7, <1>8

\* So with such transactions, where files are spaced and the ledger began without
\* markers of nothing, all events are clear, and stay in the books (StaysActive).
THEOREM PlainEventsAreClear ==
    ASSUME AllSpaced,
           \A p \in Files : Window[p] = 0,
           \A d \in Directives : Facts[d].elided = None,
           \A x, y \in Directives : DOMAIN Facts[x].ids = DOMAIN Facts[y].ids,
           \A p \in Files : \A e \in ToSet(InitialDisk[p]) :
              e.commented => \E q \in Files : \E r \in ToSet(InitialDisk[q]) :
                                ~r.commented /\ Matches(r.d, e.d)
    PROVE  \A d \in Directives : Clear(d)
<1> SUFFICES ASSUME NEW d \in Directives PROVE Clear(d)
  OBVIOUS
<1>1. \A x, y, z \in Directives :
         /\ Matches(x, y) => Matches(y, x)
         /\ Matches(x, y) /\ Matches(y, z) => Matches(x, z)
  BY PlainMatching
<1>2. \A p \in Files : \A e \in ToSet(InitialDisk[p]) : e.d \in Directives
  <2> SUFFICES ASSUME NEW p \in Files, NEW i \in DOMAIN InitialDisk[p]
               PROVE  InitialDisk[p][i].d \in Directives
    BY DEF ToSet
  <2>1. InitialDisk[p] \in Seq(EntryType)
    BY DiskAssumption
  <2>2. InitialDisk[p][i] \in EntryType
    BY <2>1
  <2> QED BY <2>2 DEF EntryType
<1>3. ASSUME NEW x \in Like(d), NEW y \in Directives
      PROVE  (Matches(x, y) <=> y \in Like(d)) /\ (Matches(y, x) <=> y \in Like(d))
  <2>1. x \in Directives /\ Matches(x, d)
    BY DEF Like
  <2>2. Matches(d, x)
    BY <1>1, <2>1
  <2>3. Matches(x, y) <=> Matches(y, x)
    BY <1>1, <2>1
  <2>4. Matches(y, x) => Matches(y, d)
    BY <1>1, <2>1
  <2>5. Matches(y, d) => Matches(y, x)
    BY <1>1, <2>1, <2>2
  <2>6. y \in Like(d) <=> Matches(y, d)
    BY DEF Like
  <2> QED BY <2>3, <2>4, <2>5, <2>6
<1>4. \A x \in Like(d) : Spaced[Dest(x)]
  BY DirectivesAssumption DEF Like, AllSpaced, Dest
<1>5. ASSUME NEW p \in Files, NEW e \in ToSet(InitialDisk[p]), e.d \in Like(d)
      PROVE  \E q \in Files : \E r \in ToSet(InitialDisk[q]) : ~r.commented /\ r.d \in Like(d)
  <2>1. CASE ~e.commented
    BY <1>5, <2>1
  <2>2. CASE e.commented
    <3>1. PICK q \in Files : \E r \in ToSet(InitialDisk[q]) : ~r.commented /\ Matches(r.d, e.d)
      BY <2>2
    <3>2. PICK r \in ToSet(InitialDisk[q]) : ~r.commented /\ Matches(r.d, e.d)
      BY <3>1
    <3>3. r.d \in Directives /\ e.d \in Directives
      BY <1>2
    <3>4. Matches(e.d, d)
      BY <1>5 DEF Like
    <3>5. Matches(r.d, d)
      BY <1>1, <3>2, <3>3, <3>4
    <3>6. r.d \in Like(d)
      BY <3>3, <3>5 DEF Like
    <3> QED BY <3>2, <3>6
  <2> QED BY <2>1, <2>2
<1> QED BY <1>3, <1>4, <1>5 DEF Clear
=============================================================================
