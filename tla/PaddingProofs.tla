--------------------------- MODULE PaddingProofs ---------------------------
(***************************************************************************)
(* That a pad supplies the first assertion behind it, in the ledger the    *)
(* passes of Loader leave.                                                 *)
(*                                                                         *)
(* The pad pass sums what it has passed and the paddings it has put in,    *)
(* wherever they will be sorted to; an assertion it has answered is met by *)
(* those sums.  A padding is dated as its pad, so the sort puts it before  *)
(* every assertion of a later day, and an assertion is short of what the   *)
(* sums had only if a later one pads out of its account earlier.           *)
(***************************************************************************)
EXTENDS LoaderProofs

-----------------------------------------------------------------------------
(* What the commit of the pad pass makes of the ledger: the entries in the *)
(* order they had, and each padding where its pad's day puts it.           *)

\* A bijection that keeps the values keeps the sum.
Matched(f, g, S, R, to) ==
    /\ \A x \in S : to[x] \in R /\ g[to[x]] = f[x]
    /\ \A x, y \in S : to[x] = to[y] => x = y
    /\ \A z \in R : \E x \in S : to[x] = z

LEMMA SumMatched ==
    ASSUME NEW f, NEW g, NEW S, NEW R, NEW to, IsFiniteSet(S), IsFiniteSet(R),
           \A x \in S : f[x] \in Int, Matched(f, g, S, R, to)
    PROVE  Sum(f, S) = Sum(g, R)
<1> DEFINE T == {n \in Nat : \A Q, P : Q \subseteq S /\ P \subseteq R /\ OfSize(Q, n)
                                 /\ Matched(f, g, Q, P, to) => Sum(f, Q) = Sum(g, P)}
<1>1. 0 \in T
  <2>1. ASSUME NEW Q, NEW P, OfSize(Q, 0), Matched(f, g, Q, P, to)
        PROVE  Sum(f, Q) = Sum(g, P)
    <3>1. Q = {} /\ P = {}
      BY <2>1, SizeZero DEF Matched
    <3> QED BY <3>1, SumEmpty
  <2> QED BY <2>1
<1>2. ASSUME NEW n \in Nat, n \in T PROVE n + 1 \in T
  <2>1. ASSUME NEW Q, NEW P, Q \subseteq S, P \subseteq R, OfSize(Q, n + 1),
               Matched(f, g, Q, P, to)
        PROVE  Sum(f, Q) = Sum(g, P)
    <3> DEFINE x == Picked(Q)
    <3>1. x \in Q /\ IsFiniteSet(Q)
      BY <2>1, NotEmpty
    <3> HIDE DEF x
    <3>2. OfSize(Less(Q, x), n) /\ Less(Q, x) \subseteq S
      BY <2>1, <3>1, OneLess DEF Less
    <3>3. to[x] \in P /\ g[to[x]] = f[x]
      BY <2>1, <3>1 DEF Matched
    <3>4. IsFiniteSet(P) /\ Less(P, to[x]) \subseteq R
      BY <2>1, FS_Subset DEF Less
    <3>5. Matched(f, g, Less(Q, x), Less(P, to[x]), to)
      BY <2>1, <3>1, <3>3 DEF Matched, Less
    <3>6. Sum(f, Less(Q, x)) = Sum(g, Less(P, to[x]))
      BY <1>2, <3>2, <3>4, <3>5
    <3>7. Sum(f, Q) = f[x] + Sum(f, Less(Q, x))
      BY <2>1, <3>1, SumLess
    <3>8. \A z \in P : g[z] \in Int
      BY <2>1 DEF Matched
    <3>9. Sum(g, P) = g[to[x]] + Sum(g, Less(P, to[x]))
      BY <3>3, <3>4, <3>8, SumLess
    <3> QED BY <3>3, <3>6, <3>7, <3>9
  <2> QED BY <2>1
<1>3. \A n \in Nat : n \in T => n + 1 \in T
  BY <1>2
<1> HIDE DEF T
<1>4. Cardinality(S) \in T
  BY <1>1, <1>3, HasSize, SetInduction
<1> QED BY <1>4, HasSize DEF T

\* The places of paddings, each behind its pad: its number and that among them.
Paddings(pad) == UNION {{k} \X DOMAIN pad[k] : k \in DOMAIN pad}
\* fs has the entries of es and the paddings of pad, each once, the former in
\* the order of es: its item n is entry row[n], or behind that padding col[n].
Spreads(es, pad, fs, row, col) ==
    /\ \A n \in DOMAIN fs :
          \/ col[n] = 0 /\ row[n] \in DOMAIN es /\ fs[n].dir = es[row[n]].dir
          \/ /\ <<row[n], col[n]>> \in Paddings(pad) /\ col[n] # 0
             /\ fs[n].dir = pad[row[n]][col[n]]
    /\ \A n, m \in DOMAIN fs : row[n] = row[m] /\ col[n] = col[m] => n = m
    /\ \A k \in DOMAIN es : \E n \in DOMAIN fs : row[n] = k /\ col[n] = 0
    /\ \A x \in Paddings(pad) : \E n \in DOMAIN fs : row[n] = x[1] /\ col[n] = x[2]
    /\ \A n, m \in DOMAIN fs : col[n] = 0 /\ col[m] = 0 => (n < m <=> row[n] < row[m])

LEMMA PaddingPlaces ==
    ASSUME NEW pad, NEW x
    PROVE  x \in Paddings(pad) <=> \E k \in DOMAIN pad : \E m \in DOMAIN pad[k] : x = <<k, m>>
  BY DEF Paddings

LEMMA MergedSpreads ==
    ASSUME NEW es \in Seq(Entry), InOrder(es), NEW pad \in Seq(Seq(TransactionType)),
           DOMAIN pad = DOMAIN es,
           NEW ss \in Seq(Seq(Directive)), DOMAIN ss = DOMAIN es,
           \A k \in DOMAIN es : ss[k] = <<es[k].dir>> \o pad[k],
           NEW ns \in Seq(Entry), Len(ns) = Len(FlattenSeq(ss)), NEW first \in Nat,
           \A k \in DOMAIN ns : ns[k].dir = FlattenSeq(ss)[k] /\ ns[k].seq = first + k - 1,
           NEW fs \in Seq(Entry), InOrder(fs), NEW sel, Permutes(ns, fs, sel)
    PROVE  \E row, col : Spreads(es, pad, fs, row, col)
<1> DEFINE ds == FlattenSeq(ss)
<1>1. ds \in Seq(Directive) /\ \E r, c : Lays(ss, Len(ss), ds, r, c)
  BY FlattenLays
<1>2. PICK r, c : Lays(ss, Len(ss), ds, r, c)
  BY <1>1
<1> DEFINE row == [n \in DOMAIN fs |-> r[sel[n]]]
           col == [n \in DOMAIN fs |-> c[sel[n]] - 1]
<1>3. /\ DOMAIN ns = 1 .. Len(ds) /\ Len(ds) \in Nat /\ DOMAIN ss = 1 .. Len(ss)
      /\ \A k \in DOMAIN ns : ns[k].dir = ds[k] /\ ns[k].seq = first + k - 1
  BY <1>1
<1>4. ASSUME NEW k \in DOMAIN es
      PROVE  /\ Len(ss[k]) = Len(pad[k]) + 1 /\ Len(pad[k]) \in Nat /\ DOMAIN pad[k] = 1 .. Len(pad[k])
             /\ ss[k][1] = es[k].dir
             /\ \A m \in DOMAIN pad[k] : ss[k][m + 1] = pad[k][m]
  <2>1. pad[k] \in Seq(TransactionType) /\ ss[k] = <<es[k].dir>> \o pad[k]
    OBVIOUS
  <2>2. /\ Len(ss[k]) = Len(pad[k]) + 1 /\ Len(pad[k]) \in Nat
        /\ DOMAIN pad[k] = 1 .. Len(pad[k]) /\ ss[k][1] = es[k].dir
    BY <2>1
  <2>3. ASSUME NEW m \in DOMAIN pad[k] PROVE ss[k][m + 1] = pad[k][m]
    <3>1. m \in Nat /\ 1 <= m /\ m <= Len(pad[k])
      BY <2>2
    <3>2. pad[k] \in Seq(TransactionType)
      BY <2>1
    <3>3. (<<es[k].dir>> \o pad[k])[m + 1] = pad[k][m]
      BY ONLY <3>1, <3>2
    <3> QED BY <2>1, <3>3
  <2> QED BY <2>2, <2>3
<1>5. \A n \in DOMAIN fs : /\ row[n] = r[sel[n]] /\ col[n] = c[sel[n]] - 1
                           /\ sel[n] \in 1 .. Len(ds) /\ fs[n] = ns[sel[n]]
                           /\ r[sel[n]] \in DOMAIN ss /\ c[sel[n]] \in 1 .. Len(ss[r[sel[n]]])
                           /\ ds[sel[n]] = ss[r[sel[n]]][c[sel[n]]]
  BY <1>2, <1>3 DEF Permutes, Lays
<1>6. /\ \A k \in 1 .. Len(ds) : \E n \in DOMAIN fs : sel[n] = k
      /\ \A n, m \in DOMAIN fs : n # m => sel[n] # sel[m]
      /\ DOMAIN fs \subseteq Nat
  <2>1. /\ \A k \in DOMAIN ns : \E n \in DOMAIN fs : sel[n] = k
        /\ \A n, m \in DOMAIN fs : n # m => sel[n] # sel[m]
    BY DEF Permutes
  <2>2. DOMAIN fs \subseteq Nat
    OBVIOUS
  <2> QED BY <1>3, <2>1, <2>2
<1>7. /\ \A k, l \in 1 .. Len(ds) : r[k] = r[l] /\ c[k] = c[l] => k = l
      /\ \A k, l \in 1 .. Len(ds) : r[k] < r[l] => k < l
      /\ \A i \in DOMAIN ss : \A j \in 1 .. Len(ss[i]) :
            \E k \in 1 .. Len(ds) : r[k] = i /\ c[k] = j
  BY <1>2, <1>3 DEF Lays
<1> HIDE DEF row, col, ds
<1>8. ASSUME NEW n \in DOMAIN fs
      PROVE  \/ col[n] = 0 /\ row[n] \in DOMAIN es /\ fs[n].dir = es[row[n]].dir
             \/ /\ <<row[n], col[n]>> \in Paddings(pad) /\ col[n] # 0
                /\ fs[n].dir = pad[row[n]][col[n]]
  <2> DEFINE k == r[sel[n]]
             j == c[sel[n]]
  <2>1. k \in DOMAIN es /\ j \in 1 .. Len(pad[k]) + 1 /\ row[n] = k /\ col[n] = j - 1
        /\ fs[n].dir = ss[k][j]
    BY <1>3, <1>4, <1>5
  <2>2. /\ Len(pad[k]) \in Nat /\ DOMAIN pad[k] = 1 .. Len(pad[k]) /\ ss[k][1] = es[k].dir
        /\ \A m \in DOMAIN pad[k] : ss[k][m + 1] = pad[k][m]
    BY <1>4, <2>1
  <2> HIDE DEF k, j
  <2>3. CASE j = 1
    BY <2>1, <2>2, <2>3
  <2>4. CASE j # 1
    <3>1. j - 1 \in DOMAIN pad[k] /\ (j - 1) + 1 = j /\ j - 1 # 0
      BY <2>1, <2>2, <2>4
    <3>2. fs[n].dir = pad[k][j - 1]
      BY <2>1, <2>2, <3>1
    <3>3. <<k, j - 1>> \in Paddings(pad)
      BY <2>1, <3>1, PaddingPlaces
    <3> QED BY <2>1, <3>1, <3>2, <3>3
  <2> QED BY <2>3, <2>4
<1>9. ASSUME NEW n \in DOMAIN fs, NEW m \in DOMAIN fs, row[n] = row[m], col[n] = col[m]
      PROVE  n = m
  <2>1. c[sel[n]] \in Nat /\ c[sel[m]] \in Nat
    <3>1. \A x \in DOMAIN fs : c[sel[x]] \in 1 .. Len(ss[r[sel[x]]])
      BY <1>5
    <3> QED BY <3>1
  <2>2. /\ row[n] = r[sel[n]] /\ row[m] = r[sel[m]]
        /\ col[n] = c[sel[n]] - 1 /\ col[m] = c[sel[m]] - 1
        /\ sel[n] \in 1 .. Len(ds) /\ sel[m] \in 1 .. Len(ds)
    BY <1>5
  <2>3. c[sel[n]] = c[sel[m]]
    <3> DEFINE x == c[sel[n]]
               y == c[sel[m]]
    <3>1. x \in Nat /\ y \in Nat /\ x - 1 = y - 1
      BY <1>9, <2>1, <2>2
    <3> HIDE DEF x, y
    <3>2. x = y
      BY <3>1
    <3> QED BY <3>2 DEF x, y
  <2>4. r[sel[n]] = r[sel[m]]
    BY <1>9, <2>2
  <2>5. sel[n] = sel[m]
    BY <1>7, <2>2, <2>3, <2>4
  <2> QED BY <1>6, <2>5
<1>10. ASSUME NEW k \in DOMAIN es, NEW j \in 1 .. Len(ss[k])
       PROVE  \E n \in DOMAIN fs : row[n] = k /\ col[n] = j - 1
  <2>1. PICK i \in 1 .. Len(ds) : r[i] = k /\ c[i] = j
    BY <1>7
  <2>2. PICK n \in DOMAIN fs : sel[n] = i
    BY <1>6
  <2>3. row[n] = k /\ col[n] = j - 1
    BY <1>5, <2>1, <2>2
  <2> QED BY <2>3
<1>11. ASSUME NEW k \in DOMAIN es PROVE \E n \in DOMAIN fs : row[n] = k /\ col[n] = 0
  <2>1. 1 \in 1 .. Len(ss[k]) /\ 1 - 1 = 0
    BY <1>4
  <2>2. PICK n \in DOMAIN fs : row[n] = k /\ col[n] = 1 - 1
    BY <1>10, <2>1
  <2> QED BY <2>1, <2>2
<1>12. ASSUME NEW x \in Paddings(pad)
       PROVE  \E n \in DOMAIN fs : row[n] = x[1] /\ col[n] = x[2]
  <2>1. PICK k \in DOMAIN es : \E m \in DOMAIN pad[k] : x = <<k, m>>
    BY PaddingPlaces
  <2>2. PICK m \in DOMAIN pad[k] : x = <<k, m>>
    BY <2>1
  <2>3. m + 1 \in 1 .. Len(ss[k]) /\ (m + 1) - 1 = m
    <3>1. Len(ss[k]) = Len(pad[k]) + 1 /\ Len(pad[k]) \in Nat /\ m \in 1 .. Len(pad[k])
      BY <1>4, <2>2
    <3> QED BY <3>1
  <2>4. x[1] = k /\ x[2] = m
    BY <2>2
  <2>5. PICK n \in DOMAIN fs : row[n] = k /\ col[n] = (m + 1) - 1
    BY <1>10, <2>3
  <2> QED BY <2>3, <2>4, <2>5
<1>13. ASSUME NEW n \in DOMAIN fs, NEW m \in DOMAIN fs, col[n] = 0, col[m] = 0, n < m
       PROVE  row[n] < row[m]
  <2> DEFINE i == row[n]
             j == row[m]
  <2>1. i \in DOMAIN es /\ j \in DOMAIN es /\ fs[n].dir = es[i].dir /\ fs[m].dir = es[j].dir
    BY <1>8, <1>13
  <2>2. i \in Nat /\ j \in Nat /\ es[i] \in Entry /\ es[j] \in Entry
        /\ fs[n] \in Entry /\ fs[m] \in Entry
    BY <2>1
  <2>3. Before(fs[n], fs[m])
    BY <1>13 DEF InOrder
  <2>4. i # j
    BY <1>6, <1>9, <1>13
  <2>5. ASSUME j < i PROVE FALSE
    <3>1. Before(es[j], es[i])
      BY <2>1, <2>5 DEF InOrder
    <3>2. r[sel[m]] < r[sel[n]]
      BY <1>5, <2>5
    <3>3. sel[m] < sel[n] /\ sel[m] \in 1 .. Len(ds) /\ sel[n] \in 1 .. Len(ds)
      BY <1>5, <1>7, <3>2
    <3>4. fs[m].seq = first + sel[m] - 1 /\ fs[n].seq = first + sel[n] - 1
      BY <1>3, <1>5
    <3>5. fs[m].seq < fs[n].seq
      BY <1>3, <3>3, <3>4
    <3> HIDE DEF i, j
    <3>6. Before(fs[m], fs[n])
      BY <2>1, <2>2, <3>1, <3>5, PlacesDecide
    <3> QED BY <2>2, <2>3, <3>6, BeforeIsOrder
  <2> QED BY <2>2, <2>4, <2>5
<1>14. ASSUME NEW n \in DOMAIN fs, NEW m \in DOMAIN fs, col[n] = 0, col[m] = 0, row[n] < row[m]
       PROVE  n < m
  <2>1. n \in Nat /\ m \in Nat /\ row[n] \in Nat /\ row[m] \in Nat
    <3>1. row[n] \in DOMAIN es /\ row[m] \in DOMAIN es
      BY <1>8, <1>14
    <3>2. DOMAIN es \subseteq Nat
      OBVIOUS
    <3> QED BY <1>6, <3>1, <3>2
  <2>2. n # m
    BY <1>14, <2>1
  <2>3. ~(m < n)
    BY <1>13, <1>14, <2>1
  <2> QED BY <2>1, <2>2, <2>3
<1>15. Spreads(es, pad, fs, row, col)
  BY <1>8, <1>9, <1>11, <1>12, <1>13, <1>14 DEF Spreads
<1> QED BY <1>15
-----------------------------------------------------------------------------
LEMMA PaddingsAre ==
    ASSUME NEW pad \in Seq(Seq(TransactionType))
    PROVE  /\ IsFiniteSet(Paddings(pad))
           /\ \A x \in Paddings(pad) :
                 /\ x = <<x[1], x[2]>> /\ x[1] \in DOMAIN pad /\ x[2] \in DOMAIN pad[x[1]]
                 /\ pad[x[1]][x[2]] \in TransactionType
<1> DEFINE row == [k \in DOMAIN pad |-> {k} \X DOMAIN pad[k]]
           rows == {{k} \X DOMAIN pad[k] : k \in DOMAIN pad}
<1>1. \A k \in DOMAIN pad : pad[k] \in Seq(TransactionType) /\ DOMAIN pad[k] = 1 .. Len(pad[k])
                            /\ Len(pad[k]) \in Nat
  OBVIOUS
<1>2. IsFiniteSet(rows)
  <2>1. DOMAIN pad = 1 .. Len(pad) /\ Len(pad) \in Nat
    OBVIOUS
  <2>2. IsFiniteSet(DOMAIN pad)
    BY <2>1, FS_Interval
  <2>3. row \in Surjection(DOMAIN pad, rows)
    BY DEF Surjection
  <2> HIDE DEF row, rows
  <2> QED BY <2>2, <2>3, FS_Surjection
<1>3. ASSUME NEW R \in rows PROVE IsFiniteSet(R)
  <2>1. PICK k \in DOMAIN pad : R = {k} \X DOMAIN pad[k]
    OBVIOUS
  <2>2. IsFiniteSet({k})
    BY FS_Singleton
  <2>3. IsFiniteSet(DOMAIN pad[k])
    BY <1>1, FS_Interval
  <2> QED BY <2>1, <2>2, <2>3, FS_Product
<1>4. IsFiniteSet(UNION rows)
  <2> HIDE DEF rows
  <2> QED BY <1>2, <1>3, FS_UNION
<1>5. ASSUME NEW x \in Paddings(pad)
      PROVE  /\ x = <<x[1], x[2]>> /\ x[1] \in DOMAIN pad /\ x[2] \in DOMAIN pad[x[1]]
             /\ pad[x[1]][x[2]] \in TransactionType
  <2>1. PICK k \in DOMAIN pad : \E m \in DOMAIN pad[k] : x = <<k, m>>
    BY PaddingPlaces
  <2>2. PICK m \in DOMAIN pad[k] : x = <<k, m>>
    BY <2>1
  <2>3. pad[k][m] \in TransactionType
    BY <1>1
  <2>4. x[1] = k /\ x[2] = m
    BY <2>2
  <2> QED BY <2>2, <2>3, <2>4
<1> QED BY <1>4, <1>5 DEF Paddings

\* Where the order comes from the days and the kinds alone.
LEMMA DaysDecide ==
    ASSUME NEW fs \in Seq(Entry), InOrder(fs), NEW m \in DOMAIN fs, NEW n \in DOMAIN fs,
           Rank[fs[m].dir.kind] # Rank[fs[n].dir.kind]
    PROVE  m < n <=> \/ fs[m].dir.date < fs[n].dir.date
                     \/ /\ fs[m].dir.date = fs[n].dir.date
                        /\ Rank[fs[m].dir.kind] < Rank[fs[n].dir.kind]
<1>1. fs[m] \in Entry /\ fs[n] \in Entry /\ m \in Nat /\ n \in Nat /\ m # n
  OBVIOUS
<1>2. /\ m < n => Before(fs[m], fs[n])
      /\ n < m => Before(fs[n], fs[m])
  BY DEF InOrder
<1>3. /\ fs[m].dir.date \in Nat /\ fs[n].dir.date \in Nat
      /\ Rank[fs[m].dir.kind] \in Nat /\ Rank[fs[n].dir.kind] \in Nat
  BY <1>1, BeforeIsLexical
<1>4. Before(fs[m], fs[n]) => \/ fs[m].dir.date < fs[n].dir.date
                              \/ /\ fs[m].dir.date = fs[n].dir.date
                                 /\ Rank[fs[m].dir.kind] <= Rank[fs[n].dir.kind]
  BY <1>1, <1>3, BeforeIsLexical
<1>5. Before(fs[n], fs[m]) => \/ fs[n].dir.date < fs[m].dir.date
                              \/ /\ fs[n].dir.date = fs[m].dir.date
                                 /\ Rank[fs[n].dir.kind] <= Rank[fs[m].dir.kind]
  BY <1>1, <1>3, BeforeIsLexical
<1> QED BY <1>1, <1>2, <1>3, <1>4, <1>5

\* The paddings of pads before a day, which all precede the assertions of it.
EarlierPads(es, pad, date) == {x \in Paddings(pad) : es[x[1]].dir.date < date}
\* A padding is dated as its pad is.
PadsDated(es, pad) ==
    \A x \in Paddings(pad) : /\ es[x[1]].dir.kind = "pad"
                             /\ pad[x[1]][x[2]].date = es[x[1]].dir.date

\* f is g at the entries and h at the paddings.
Weighs(fs, row, col, f, g, h) ==
    \A m \in DOMAIN fs : fs[m].dir.kind = "txn" =>
        /\ f[m] \in Int
        /\ col[m] = 0 => g[row[m]] = f[m]
        /\ col[m] # 0 => h[<<row[m], col[m]>>] = f[m]

\* A sum over the transactions before an assertion is one over the entries,
\* and one over the paddings of earlier pads.
LEMMA SumMerged ==
    ASSUME NEW es \in Seq(Entry), NEW fs \in Seq(Entry), InOrder(fs),
           NEW pad \in Seq(Seq(TransactionType)), DOMAIN pad = DOMAIN es, PadsDated(es, pad),
           NEW row, NEW col, Spreads(es, pad, fs, row, col),
           NEW n \in DOMAIN fs, col[n] = 0, fs[n].dir.kind = "balance",
           NEW f, NEW g, NEW h, Weighs(fs, row, col, f, g, h)
    PROVE  /\ Sum(f, TxnsOf(fs, n)) = Sum(g, TxnsOf(es, row[n]))
                                      + Sum(h, EarlierPads(es, pad, es[row[n]].dir.date))
           /\ row[n] \in DOMAIN es /\ es[row[n]].dir = fs[n].dir
<1> DEFINE k == row[n]
           A == {m \in TxnsOf(fs, n) : col[m] = 0}
           B == {m \in TxnsOf(fs, n) : col[m] # 0}
           P == EarlierPads(es, pad, es[row[n]].dir.date)
           to == [m \in DOMAIN fs |-> <<row[m], col[m]>>]
<1>1. k \in DOMAIN es /\ es[k].dir = fs[n].dir
  BY DEF Spreads
<1>2. /\ DOMAIN fs = 1 .. Len(fs) /\ DOMAIN es = 1 .. Len(es) /\ Len(fs) \in Nat /\ Len(es) \in Nat
      /\ n \in 1 .. Len(fs) + 1 /\ k \in 1 .. Len(es) + 1
  BY <1>1
<1>3. /\ TxnsOf(fs, n) \in SUBSET DOMAIN fs /\ IsFiniteSet(TxnsOf(fs, n))
      /\ TxnsOf(es, k) \in SUBSET DOMAIN es /\ IsFiniteSet(TxnsOf(es, k))
  BY <1>2, TxnsOfTypes
<1>4. /\ \A m \in DOMAIN fs : m \in TxnsOf(fs, n) <=> m < n /\ fs[m].dir.kind = "txn"
      /\ \A j \in DOMAIN es : j \in TxnsOf(es, k) <=> j < k /\ es[j].dir.kind = "txn"
  BY <1>2 DEF TxnsOf
<1>5. A \subseteq TxnsOf(fs, n) /\ B \subseteq TxnsOf(fs, n) /\ TxnsOf(fs, n) = A \cup B
      /\ \A m \in B : m \notin A
  OBVIOUS
<1>6. IsFiniteSet(A) /\ IsFiniteSet(B)
  BY <1>3, <1>5, FS_Subset
<1>7. \A m \in TxnsOf(fs, n) : f[m] \in Int
  BY <1>3, <1>4 DEF Weighs
<1>8. Sum(f, TxnsOf(fs, n)) = Sum(f, A) + Sum(f, B)
  <2>1. Sum(f, A \cup B) = Sum(f, A) + Sum(f, B)
    <3> HIDE DEF A, B
    <3> QED BY <1>5, <1>6, <1>7, SumOfBoth
  <2> QED BY <1>5, <2>1
<1>9. Matched(f, g, A, TxnsOf(es, k), row)
  <2>1. ASSUME NEW m \in A PROVE row[m] \in TxnsOf(es, k) /\ g[row[m]] = f[m]
    <3>1. m \in DOMAIN fs /\ m < n /\ fs[m].dir.kind = "txn" /\ col[m] = 0
      BY <1>3, <1>4
    <3>2. row[m] < k /\ row[m] \in DOMAIN es /\ es[row[m]].dir = fs[m].dir
      BY <3>1 DEF Spreads
    <3> QED BY <1>4, <3>1, <3>2 DEF Weighs
  <2>2. \A x, y \in A : row[x] = row[y] => x = y
    BY <1>3 DEF Spreads
  <2>3. ASSUME NEW j \in TxnsOf(es, k) PROVE \E m \in A : row[m] = j
    <3>1. j \in DOMAIN es /\ j < k /\ es[j].dir.kind = "txn"
      BY <1>3, <1>4
    <3>2. PICK m \in DOMAIN fs : row[m] = j /\ col[m] = 0
      BY <3>1 DEF Spreads
    <3>3. m < n /\ fs[m].dir = es[j].dir
      BY <3>1, <3>2 DEF Spreads
    <3> QED BY <1>4, <3>1, <3>2, <3>3
  <2> QED BY <2>1, <2>2, <2>3 DEF Matched
<1>10. Rank["txn"] = 4 /\ Rank["balance"] = 2
  BY DEF Rank
<1>11. ASSUME NEW m \in DOMAIN fs, col[m] # 0
       PROVE  /\ to[m] \in Paddings(pad) /\ fs[m].dir.kind = "txn"
              /\ fs[m].dir.date = es[row[m]].dir.date
              /\ m < n <=> es[row[m]].dir.date < es[k].dir.date
  <2>1. <<row[m], col[m]>> \in Paddings(pad) /\ fs[m].dir = pad[row[m]][col[m]]
    BY <1>11 DEF Spreads
  <2>2. pad[row[m]][col[m]] \in TransactionType /\ fs[m].dir.date = es[row[m]].dir.date
    BY <2>1, PaddingsAre DEF PadsDated
  <2>3. fs[m].dir.kind = "txn"
    BY <2>1, <2>2 DEF TransactionType
  <2>4. m < n <=> \/ fs[m].dir.date < fs[n].dir.date
                  \/ /\ fs[m].dir.date = fs[n].dir.date
                     /\ Rank[fs[m].dir.kind] < Rank[fs[n].dir.kind]
    BY <1>10, <2>3, DaysDecide
  <2> QED BY <1>1, <1>10, <2>1, <2>2, <2>3, <2>4
<1>12. \A x : x \in P <=> x \in Paddings(pad) /\ es[x[1]].dir.date < es[k].dir.date
  BY DEF EarlierPads
<1>13. Matched(f, h, B, P, to)
  <2>1. ASSUME NEW m \in B PROVE to[m] \in P /\ h[to[m]] = f[m]
    <3>1. m \in DOMAIN fs /\ m < n /\ fs[m].dir.kind = "txn" /\ col[m] # 0
      BY <1>3, <1>4
    <3>2. to[m] = <<row[m], col[m]>> /\ to[m][1] = row[m]
      BY <3>1
    <3> QED BY <1>11, <1>12, <3>1, <3>2 DEF Weighs
  <2>2. ASSUME NEW x \in B, NEW y \in B, to[x] = to[y] PROVE x = y
    <3>1. x \in DOMAIN fs /\ y \in DOMAIN fs
      BY <1>3
    <3>2. row[x] = row[y] /\ col[x] = col[y]
      BY <2>2, <3>1
    <3> QED BY <3>1, <3>2 DEF Spreads
  <2>3. ASSUME NEW x \in P PROVE \E m \in B : to[m] = x
    <3>1. x \in Paddings(pad) /\ es[x[1]].dir.date < es[k].dir.date
      BY <1>12
    <3>2. x = <<x[1], x[2]>> /\ x[2] \in DOMAIN pad[x[1]] /\ x[1] \in DOMAIN pad
      BY <3>1, PaddingsAre
    <3>3. x[2] # 0
      <4>1. pad[x[1]] \in Seq(TransactionType)
        BY <3>2
      <4> QED BY <3>2, <4>1
    <3>4. PICK m \in DOMAIN fs : row[m] = x[1] /\ col[m] = x[2]
      BY <3>1 DEF Spreads
    <3>5. col[m] # 0 /\ to[m] = x
      BY <3>2, <3>3, <3>4
    <3>6. m < n /\ fs[m].dir.kind = "txn"
      BY <1>11, <3>1, <3>4, <3>5
    <3> QED BY <1>4, <3>5, <3>6
  <2> HIDE DEF P, B, to
  <2> QED BY <2>1, <2>2, <2>3 DEF Matched
<1>14. IsFiniteSet(P)
  <2>1. P \subseteq Paddings(pad)
    BY <1>12
  <2> QED BY <2>1, PaddingsAre, FS_Subset
<1> HIDE DEF A, B, P, to
<1>15. Sum(f, A) = Sum(g, TxnsOf(es, k))
  BY <1>3, <1>5, <1>6, <1>7, <1>9, SumMatched
<1>16. Sum(f, B) = Sum(h, P)
  BY <1>5, <1>6, <1>7, <1>13, <1>14, SumMatched
<1> QED BY <1>1, <1>8, <1>15, <1>16 DEF P
-----------------------------------------------------------------------------
(* Assertions and pads of the entries es, and what pads supply.            *)
Claims(es, k, a, c) ==
    es[k].dir.kind = "balance" /\ es[k].dir.acct = a /\ es[k].dir.cur = c
\* p is a pad, and an assertion of its account before k is of currency c.
AskedFor(es, p, c, k) ==
    \E i \in DOMAIN es : Claims(es, i, es[p].dir.acct, c) /\ p < i /\ i < k
\* The pad p is in force at assertion k, which is the first of its currency
\* behind it, and does not take from the account itself.
FirstPadded(es, k, p) ==
    LET b == es[k].dir
    IN  /\ b.kind = "balance" /\ p \in DOMAIN es /\ p < k
        /\ es[p].dir.kind = "pad" /\ es[p].dir.acct = b.acct /\ es[p].dir.from # b.acct
        /\ \A i \in DOMAIN es : es[i].dir.kind = "pad" /\ es[i].dir.acct = b.acct /\ i < k => i <= p
        /\ ~AskedFor(es, p, b.cur, k)

CostMoves(es, a, c) == [j \in DOMAIN es |-> Put(AtCost(es[j].dir.posts), {a}, c)]
CostHeld(es, k, a, c) == Sum(CostMoves(es, a, c), TxnsOf(es, k))
Supplies(pad, A, c) == [x \in Paddings(pad) |-> Put(pad[x[1]][x[2]].posts, A, c)]

\* Two legs, of one currency, held at no cost.
Pays(ps, a, c) ==
    /\ Len(ps) = 2 /\ ps[1].acct = a
    /\ \A i \in DOMAIN ps : ps[i].cur = c /\ ps[i].cost = None
\* The padding at x is of a pad, and an assertion before k asked for it.
Supplier(es, pad, x, k) ==
    LET p == es[x[1]].dir
        t == pad[x[1]][x[2]]
    IN  /\ p.kind = "pad" /\ t.date = p.date /\ t.padding
        /\ \E c \in Currencies : Pays(t.posts, p.acct, c) /\ AskedFor(es, x[1], c, k)
Suppliers(es, pad, k) == \A x \in Paddings(pad) : Supplier(es, pad, x, k)
\* The paddings that assertions of currency c up to k have asked for.
AskedBy(es, pad, c, k) == {x \in Paddings(pad) : AskedFor(es, x[1], c, k + 1)}

LEMMA PutElsewhere ==
    ASSUME NEW ps \in Seq(Posting), NEW A, NEW c, \A i \in DOMAIN ps : ps[i].cur # c
    PROVE  Put(ps, A, c) = 0
<1>1. Into(ps, A, c) = {}
  BY DEF Into
<1> QED BY <1>1, PutIsSum, SumEmpty

LEMMA CostsNothing ==
    ASSUME NEW ps \in Seq(Posting), \A i \in DOMAIN ps : ps[i].cost = None, NEW A, NEW c
    PROVE  Put(AtCost(ps), A, c) = 0
<1> DEFINE K == {k \in DOMAIN ps : ps[k].cost # None}
           qs == Those(ps, K)
<1>1. K \in SUBSET DOMAIN ps /\ K = {}
  OBVIOUS
<1>2. qs \in Seq(Posting) /\ ToSet(qs) = {ps[k] : k \in K}
  <2> HIDE DEF K
  <2> QED BY <1>1, ThoseHold
<1>3. \A i \in DOMAIN qs : FALSE
  <2>1. \A i \in DOMAIN qs : qs[i] \in ToSet(qs)
    BY DEF ToSet
  <2> QED BY <1>1, <1>2, <2>1
<1>4. AtCost(ps) = qs
  BY DEF AtCost
<1> HIDE DEF qs, K
<1>5. Put(qs, A, c) = 0
  BY <1>2, <1>3, PutElsewhere
<1> QED BY <1>4, <1>5

LEMMA SuppliesAre ==
    ASSUME NEW pad \in Seq(Seq(TransactionType)), NEW A, NEW c, NEW x \in Paddings(pad)
    PROVE  /\ pad[x[1]][x[2]].posts \in Seq(Posting) /\ pad[x[1]][x[2]].kind = "txn"
           /\ Supplies(pad, A, c)[x] = Put(pad[x[1]][x[2]].posts, A, c)
           /\ Supplies(pad, A, c)[x] \in Int
<1>1. pad[x[1]][x[2]] \in TransactionType
  BY PaddingsAre
<1>2. pad[x[1]][x[2]].posts \in Seq(Posting) /\ pad[x[1]][x[2]].kind = "txn"
  BY <1>1 DEF TransactionType
<1> QED BY <1>2, PutIsSum DEF Supplies

LEMMA CostMovesAre ==
    ASSUME NEW es \in Seq(Entry), NEW a, NEW c, NEW j \in DOMAIN es, es[j].dir.kind = "txn"
    PROVE  /\ es[j].dir.posts \in Seq(Posting) /\ AtCost(es[j].dir.posts) \in Seq(Posting)
           /\ CostMoves(es, a, c)[j] = Put(AtCost(es[j].dir.posts), {a}, c)
           /\ CostMoves(es, a, c)[j] \in Int
           /\ \A A : Moves(es, A, c)[j] = Put(es[j].dir.posts, A, c) /\ Moves(es, A, c)[j] \in Int
<1>1. es[j].dir.posts \in Seq(Posting)
  BY EntryHas
<1>2. AtCost(es[j].dir.posts) \in Seq(Posting)
  BY <1>1, AtCostTypes
<1>3. /\ Put(AtCost(es[j].dir.posts), {a}, c) \in Int
      /\ \A A : Put(es[j].dir.posts, A, c) \in Int
  BY <1>1, <1>2, PutIsSum
<1> QED BY <1>1, <1>2, <1>3 DEF CostMoves, Moves

LEMMA KindsRank == Rank["txn"] = 4 /\ Rank["balance"] = 2 /\ Rank["pad"] = 3
  BY DEF Rank
-----------------------------------------------------------------------------
\* Some padding before n moves its account, and no assertion between the two
\* has asked for it.
LaterPadding(fs, n) ==
    LET b == fs[n].dir
    IN  \E j \in 1 .. n - 1, a \in Accounts :
          /\ fs[j].dir.kind = "txn" /\ fs[j].dir.padding /\ fs[j].dir.posts[1].acct = a
          /\ Put(fs[j].dir.posts, {b.acct}, b.cur) # 0
          /\ \A i \in DOMAIN fs : Claims(fs, i, a, b.cur) => i > n \/ i < j

\* The entries keep their relations in the ledger with the paddings.
LEMMA FirstStaysFirst ==
    ASSUME NEW es \in Seq(Entry), NEW fs \in Seq(Entry), NEW pad \in Seq(Seq(TransactionType)),
           NEW row, NEW col, Spreads(es, pad, fs, row, col),
           NEW n \in DOMAIN fs, NEW q, FirstPadded(fs, n, q)
    PROVE  /\ FirstPadded(es, row[n], row[q]) /\ col[n] = 0 /\ col[q] = 0
           /\ row[n] \in DOMAIN es /\ es[row[n]].dir = fs[n].dir
<1>1. ASSUME NEW m \in DOMAIN fs, fs[m].dir.kind # "txn"
      PROVE  col[m] = 0 /\ row[m] \in DOMAIN es /\ fs[m].dir = es[row[m]].dir
  <2>1. ASSUME <<row[m], col[m]>> \in Paddings(pad), fs[m].dir = pad[row[m]][col[m]]
        PROVE  FALSE
    <3> DEFINE x == <<row[m], col[m]>>
    <3>1. x \in Paddings(pad) /\ x[1] = row[m] /\ x[2] = col[m]
      BY <2>1
    <3> HIDE DEF x
    <3>2. pad[x[1]][x[2]].kind = "txn"
      BY <3>1, SuppliesAre
    <3> QED BY <1>1, <2>1, <3>1, <3>2
  <2> QED BY <2>1 DEF Spreads
<1>2. /\ q \in DOMAIN fs /\ q < n /\ fs[n].dir.kind = "balance" /\ fs[q].dir.kind = "pad"
      /\ fs[q].dir.acct = fs[n].dir.acct /\ fs[q].dir.from # fs[n].dir.acct
  BY DEF FirstPadded
<1>3. /\ col[n] = 0 /\ row[n] \in DOMAIN es /\ es[row[n]].dir = fs[n].dir
      /\ col[q] = 0 /\ row[q] \in DOMAIN es /\ es[row[q]].dir = fs[q].dir
  BY <1>1, <1>2
<1>4. row[q] < row[n]
  BY <1>2, <1>3 DEF Spreads
<1>5. ASSUME NEW i \in DOMAIN es
      PROVE  \E m \in DOMAIN fs : /\ row[m] = i /\ fs[m].dir = es[i].dir
                                  /\ m < n <=> i < row[n]
                                  /\ m <= q <=> i <= row[q]
                                  /\ q < m <=> row[q] < i
  <2>1. PICK m \in DOMAIN fs : row[m] = i /\ col[m] = 0
    BY DEF Spreads
  <2>2. m < n <=> i < row[n]
    BY <1>3, <2>1 DEF Spreads
  <2>3. q < m <=> row[q] < i
    BY <1>2, <1>3, <2>1 DEF Spreads
  <2>4. fs[m].dir = es[i].dir
    BY <2>1 DEF Spreads
  <2>5. m \in Nat /\ q \in Nat /\ i \in Nat /\ row[q] \in Nat
    BY <1>2, <1>3
  <2> QED BY <2>1, <2>2, <2>3, <2>4, <2>5
<1>6. ASSUME NEW i \in DOMAIN es, es[i].dir.kind = "pad", es[i].dir.acct = fs[n].dir.acct,
             i < row[n]
      PROVE  i <= row[q]
  <2>1. PICK m \in DOMAIN fs : /\ row[m] = i /\ fs[m].dir = es[i].dir
                               /\ m < n <=> i < row[n]
                               /\ m <= q <=> i <= row[q]
    BY <1>5
  <2>2. m <= q
    BY <1>6, <2>1 DEF FirstPadded
  <2> QED BY <2>1, <2>2
<1>7. ASSUME AskedFor(es, row[q], fs[n].dir.cur, row[n]) PROVE FALSE
  <2>1. PICK i \in DOMAIN es : /\ Claims(es, i, es[row[q]].dir.acct, fs[n].dir.cur)
                               /\ row[q] < i /\ i < row[n]
    BY <1>7 DEF AskedFor
  <2>2. PICK m \in DOMAIN fs : /\ row[m] = i /\ fs[m].dir = es[i].dir
                               /\ m < n <=> i < row[n]
                               /\ q < m <=> row[q] < i
    BY <1>5
  <2>3. Claims(fs, m, fs[q].dir.acct, fs[n].dir.cur) /\ q < m /\ m < n
    BY <1>3, <2>1, <2>2 DEF Claims
  <2>4. AskedFor(fs, q, fs[n].dir.cur, n)
    BY <2>3 DEF AskedFor
  <2> QED BY <2>4 DEF FirstPadded
<1>8. FirstPadded(es, row[n], row[q])
  BY <1>2, <1>3, <1>4, <1>6, <1>7 DEF FirstPadded
<1> QED BY <1>3, <1>8
-----------------------------------------------------------------------------
\* Every pad asked precedes who asks by a day, as pads rank behind assertions.
LEMMA AskedIsEarlier ==
    ASSUME NEW es \in Seq(Entry), InOrder(es), NEW p \in DOMAIN es, es[p].dir.kind = "pad",
           NEW k \in DOMAIN es, NEW c, AskedFor(es, p, c, k + 1)
    PROVE  es[p].dir.date < es[k].dir.date
<1>1. PICK i \in DOMAIN es : Claims(es, i, es[p].dir.acct, c) /\ p < i /\ i < k + 1
  BY DEF AskedFor
<1>2. es[i].dir.kind = "balance" /\ i <= k /\ i \in Nat /\ k \in Nat
  BY <1>1 DEF Claims
<1>3. es[p] \in Entry /\ es[i] \in Entry /\ es[k] \in Entry
  OBVIOUS
<1>4. es[p].dir.date \in Nat /\ es[i].dir.date \in Nat /\ es[k].dir.date \in Nat
  BY <1>3, BeforeIsLexical
<1>5. es[p].dir.date < es[i].dir.date
  BY <1>1, <1>2, <1>4, KindsRank, DaysDecide
<1>6. es[i].dir.date <= es[k].dir.date
  <2>1. CASE i = k
    BY <1>4, <2>1
  <2>2. CASE i < k
    <3>1. Before(es[i], es[k])
      BY <2>2 DEF InOrder
    <3> QED BY <1>3, <3>1, BeforeIsOrder
  <2> QED BY <1>2, <2>1, <2>2
<1> QED BY <1>4, <1>5, <1>6

\* A padding before an assertion that moves its account has been asked for by
\* then, or is one that a later assertion asked for.
LEMMA AskedOrLater ==
    ASSUME NEW es \in Seq(Entry), InOrder(es), NEW fs \in Seq(Entry), InOrder(fs),
           NEW pad \in Seq(Seq(TransactionType)), DOMAIN pad = DOMAIN es,
           NEW end, Suppliers(es, pad, end),
           NEW row, NEW col, Spreads(es, pad, fs, row, col),
           NEW n \in DOMAIN fs, col[n] = 0, fs[n].dir.kind = "balance", ~LaterPadding(fs, n),
           NEW x \in Paddings(pad), es[x[1]].dir.date < fs[n].dir.date,
           Put(pad[x[1]][x[2]].posts, {fs[n].dir.acct}, fs[n].dir.cur) # 0
    PROVE  x \in AskedBy(es, pad, fs[n].dir.cur, row[n])
<1> DEFINE b == fs[n].dir
           p == es[x[1]].dir
           t == pad[x[1]][x[2]]
<1>1. /\ x = <<x[1], x[2]>> /\ x[1] \in DOMAIN es /\ x[2] \in DOMAIN pad[x[1]] /\ t \in TransactionType
      /\ t.posts \in Seq(Posting) /\ t.kind = "txn"
  BY PaddingsAre, SuppliesAre
<1>2. PICK c \in Currencies : Pays(t.posts, p.acct, c)
  BY DEF Suppliers, Supplier
<1>3. p.kind = "pad" /\ t.date = p.date /\ t.padding
  BY DEF Suppliers, Supplier
<1>4. c = b.cur
  <2>1. ASSUME c # b.cur PROVE FALSE
    <3>1. \A i \in DOMAIN t.posts : t.posts[i].cur # b.cur
      BY <1>2, <2>1 DEF Pays
    <3> HIDE DEF b, t
    <3>2. Put(t.posts, {b.acct}, b.cur) = 0
      BY <1>1, <3>1, PutElsewhere
    <3> QED BY <3>2 DEF b, t
  <2> QED BY <2>1
<1>5. PICK m \in DOMAIN fs : row[m] = x[1] /\ col[m] = x[2]
  BY DEF Spreads
<1>6. pad[x[1]] \in Seq(TransactionType) /\ x[2] # 0
  BY <1>1
<1>7. fs[m].dir = t
  <2>1. fs[m].dir = pad[row[m]][col[m]]
    BY <1>5, <1>6 DEF Spreads
  <2> QED BY <1>5, <2>1
<1>8. m < n
  <2>1. fs[m].dir.date < fs[n].dir.date
    BY <1>3, <1>7
  <2>2. Rank[fs[m].dir.kind] # Rank[fs[n].dir.kind]
    BY <1>1, <1>7, KindsRank
  <2> QED BY <2>1, <2>2, DaysDecide
<1>9. m \in 1 .. n - 1 /\ n \in Nat /\ m \in Nat
  BY <1>8
<1>10. p.acct \in Accounts /\ p.date \in Nat
  <2>1. es[x[1]] \in Entry
    BY <1>1
  <2>2. p \in Directive
    BY <2>1 DEF Entry
  <2> QED BY <1>3, <2>2, AccountOf, DirectiveHas
<1>11. PICK i \in DOMAIN fs : Claims(fs, i, p.acct, b.cur) /\ ~(i > n \/ i < m)
  <2>1. /\ fs[m].dir.kind = "txn" /\ fs[m].dir.padding /\ fs[m].dir.posts[1].acct = p.acct
        /\ Put(fs[m].dir.posts, {b.acct}, b.cur) # 0
    BY <1>1, <1>2, <1>3, <1>7 DEF Pays
  <2>2. ASSUME \A i \in DOMAIN fs : Claims(fs, i, p.acct, b.cur) => i > n \/ i < m
        PROVE  FALSE
    BY <1>9, <1>10, <2>1, <2>2 DEF LaterPadding
  <2> QED BY <2>2
<1>12. fs[i].dir.kind = "balance" /\ fs[i].dir.acct = p.acct /\ fs[i].dir.cur = b.cur
  BY <1>11 DEF Claims
<1>13. m < i /\ i <= n /\ i \in Nat
  <2>1. i # m
    BY <1>1, <1>7, <1>12
  <2> QED BY <1>9, <1>11, <2>1
<1>14. col[i] = 0 /\ row[i] \in DOMAIN es /\ fs[i].dir = es[row[i]].dir
  <2>1. ASSUME <<row[i], col[i]>> \in Paddings(pad), fs[i].dir = pad[row[i]][col[i]]
        PROVE  FALSE
    <3> DEFINE y == <<row[i], col[i]>>
    <3>1. y \in Paddings(pad) /\ y[1] = row[i] /\ y[2] = col[i]
      BY <2>1
    <3> HIDE DEF y
    <3>2. pad[y[1]][y[2]].kind = "txn"
      BY <3>1, SuppliesAre
    <3> QED BY <1>12, <2>1, <3>1, <3>2
  <2> QED BY <2>1 DEF Spreads
<1>15. row[n] \in DOMAIN es /\ row[i] <= row[n]
  <2>1. row[n] \in DOMAIN es
    <3>1. ASSUME <<row[n], col[n]>> \in Paddings(pad), col[n] # 0
          PROVE  FALSE
      BY <3>1
    <3> QED BY <3>1 DEF Spreads
  <2>2. n < i <=> row[n] < row[i]
    BY <1>14 DEF Spreads
  <2>3. row[n] \in Nat /\ row[i] \in Nat
    BY <1>14, <2>1
  <2> QED BY <1>9, <1>13, <2>1, <2>2, <2>3
<1>16. x[1] < row[i]
  <2>1. fs[m].dir.date < fs[i].dir.date
    <3>1. Rank[fs[m].dir.kind] = 4 /\ Rank[fs[i].dir.kind] = 2
      BY <1>1, <1>7, <1>12, KindsRank
    <3>2. m < i <=> \/ fs[m].dir.date < fs[i].dir.date
                    \/ /\ fs[m].dir.date = fs[i].dir.date
                       /\ Rank[fs[m].dir.kind] < Rank[fs[i].dir.kind]
      <4>1. Rank[fs[m].dir.kind] # Rank[fs[i].dir.kind]
        BY <3>1
      <4> QED BY <4>1, DaysDecide
    <3> QED BY <1>13, <3>1, <3>2
  <2>2. es[x[1]].dir.date < es[row[i]].dir.date
    BY <1>3, <1>7, <1>14, <2>1
  <2>3. Rank[es[x[1]].dir.kind] # Rank[es[row[i]].dir.kind]
    BY <1>3, <1>12, <1>14, KindsRank
  <2> QED BY <1>1, <1>14, <2>2, <2>3, DaysDecide
<1>17. Claims(es, row[i], es[x[1]].dir.acct, b.cur)
  BY <1>12, <1>14 DEF Claims
<1>18. row[i] < row[n] + 1
  BY <1>14, <1>15
<1>19. AskedFor(es, x[1], b.cur, row[n] + 1)
  BY <1>14, <1>16, <1>17, <1>18 DEF AskedFor
<1> QED BY <1>19 DEF AskedBy

\* What the pad pass has seen to at k: the account holds what is asserted, as
\* far as the paddings asked for up to k go.
Met(es, pad, k) ==
    LET b == es[k].dir
    IN  \/ CostHeld(es, k, b.acct, b.cur) # 0
        \/ Holds(es, k, {b.acct}, b.cur)
             + Sum(Supplies(pad, {b.acct}, b.cur), AskedBy(es, pad, b.cur, k)) = b.num
\* In the ledger the pass leaves.
Supplied(fs, n) ==
    LET b == fs[n].dir
    IN  \/ CostHeld(fs, n, b.acct, b.cur) # 0
        \/ LaterPadding(fs, n)
        \/ Holds(fs, n, {b.acct}, b.cur) = b.num
SuppliedAll(fs) == \A n \in DOMAIN fs, q \in DOMAIN fs : FirstPadded(fs, n, q) => Supplied(fs, n)

LEMMA SpreadIsSupplied ==
    ASSUME NEW es \in Seq(Entry), InOrder(es), NEW fs \in Seq(Entry), InOrder(fs),
           NEW pad \in Seq(Seq(TransactionType)), DOMAIN pad = DOMAIN es,
           NEW end, Suppliers(es, pad, end),
           NEW row, NEW col, Spreads(es, pad, fs, row, col),
           \A k \in DOMAIN es : \A p \in DOMAIN es : FirstPadded(es, k, p) => Met(es, pad, k),
           NEW n \in DOMAIN fs, NEW q, FirstPadded(fs, n, q)
    PROVE  Supplied(fs, n)
<1> DEFINE b == fs[n].dir
           k == row[n]
           P == EarlierPads(es, pad, es[k].dir.date)
           E == AskedBy(es, pad, b.cur, k)
           held == Supplies(pad, {b.acct}, b.cur)
           cost == [x \in Paddings(pad) |-> Put(AtCost(pad[x[1]][x[2]].posts), {b.acct}, b.cur)]
<1>1. /\ FirstPadded(es, k, row[q]) /\ col[n] = 0 /\ k \in DOMAIN es /\ es[k].dir = b
      /\ row[q] \in DOMAIN es /\ b.kind = "balance"
  <2>1. /\ FirstPadded(es, k, row[q]) /\ col[n] = 0 /\ k \in DOMAIN es /\ es[k].dir = b
    BY FirstStaysFirst
  <2> HIDE DEF b, k
  <2> QED BY <2>1 DEF FirstPadded
<1>2. Met(es, pad, k)
  BY <1>1
<1>3. PadsDated(es, pad)
  BY DEF PadsDated, Suppliers, Supplier
<1>4. /\ P \subseteq Paddings(pad) /\ E \subseteq Paddings(pad) /\ IsFiniteSet(P)
      /\ \A x \in P : es[x[1]].dir.date < b.date
  <2>1. P \subseteq Paddings(pad) /\ E \subseteq Paddings(pad)
    BY DEF EarlierPads, AskedBy
  <2>2. IsFiniteSet(P)
    BY <2>1, PaddingsAre, FS_Subset
  <2>3. \A x \in P : es[x[1]].dir.date < b.date
    BY <1>1 DEF EarlierPads
  <2> QED BY <2>1, <2>2, <2>3
<1>5. ASSUME NEW x \in E PROVE x \in P
  <2>1. x \in Paddings(pad) /\ AskedFor(es, x[1], b.cur, k + 1)
    BY DEF AskedBy
  <2>2. x[1] \in DOMAIN es /\ es[x[1]].dir.kind = "pad"
    BY <2>1, PaddingsAre DEF Suppliers, Supplier
  <2>3. es[x[1]].dir.date < es[k].dir.date
    BY <1>1, <2>1, <2>2, AskedIsEarlier
  <2> QED BY <2>1, <2>3 DEF EarlierPads
<1>6. ASSUME NEW x \in Paddings(pad)
      PROVE  /\ held[x] \in Int /\ held[x] = Put(pad[x[1]][x[2]].posts, {b.acct}, b.cur)
             /\ cost[x] = 0
  <2>1. /\ pad[x[1]][x[2]].posts \in Seq(Posting) /\ held[x] \in Int
        /\ held[x] = Put(pad[x[1]][x[2]].posts, {b.acct}, b.cur)
    BY SuppliesAre
  <2>2. PICK c \in Currencies : Pays(pad[x[1]][x[2]].posts, es[x[1]].dir.acct, c)
    BY DEF Suppliers, Supplier
  <2>3. \A i \in DOMAIN pad[x[1]][x[2]].posts : pad[x[1]][x[2]].posts[i].cost = None
    BY <2>2 DEF Pays
  <2>4. cost[x] = 0
    BY <2>1, <2>3, CostsNothing
  <2> QED BY <2>1, <2>4
<1>7. ASSUME NEW m \in DOMAIN fs, fs[m].dir.kind = "txn"
      PROVE  LET f == Moves(fs, {b.acct}, b.cur)
                 g == CostMoves(fs, b.acct, b.cur)
             IN  /\ f[m] \in Int /\ g[m] \in Int
                 /\ col[m] = 0 => /\ Moves(es, {b.acct}, b.cur)[row[m]] = f[m]
                                  /\ CostMoves(es, b.acct, b.cur)[row[m]] = g[m]
                 /\ col[m] # 0 => held[<<row[m], col[m]>>] = f[m] /\ cost[<<row[m], col[m]>>] = g[m]
  <2> DEFINE f == Moves(fs, {b.acct}, b.cur)
             g == CostMoves(fs, b.acct, b.cur)
  <2>1. /\ f[m] = Put(fs[m].dir.posts, {b.acct}, b.cur) /\ f[m] \in Int
        /\ g[m] = Put(AtCost(fs[m].dir.posts), {b.acct}, b.cur) /\ g[m] \in Int
    <3> HIDE DEF b
    <3>1. \A a, c : /\ CostMoves(fs, a, c)[m] = Put(AtCost(fs[m].dir.posts), {a}, c)
                    /\ CostMoves(fs, a, c)[m] \in Int
                    /\ \A A : Moves(fs, A, c)[m] = Put(fs[m].dir.posts, A, c)
                              /\ Moves(fs, A, c)[m] \in Int
      <4>1. fs[m].dir.kind = "txn"
        BY <1>7
      <4> QED BY ONLY fs \in Seq(Entry), m \in DOMAIN fs, <4>1, CostMovesAre
    <3> QED BY <3>1
  <2>2. ASSUME col[m] = 0
        PROVE  /\ Moves(es, {b.acct}, b.cur)[row[m]] = f[m]
               /\ CostMoves(es, b.acct, b.cur)[row[m]] = g[m]
    <3>1. row[m] \in DOMAIN es /\ es[row[m]].dir = fs[m].dir
      BY <2>2 DEF Spreads
    <3> HIDE DEF b
    <3>2. /\ Moves(es, {b.acct}, b.cur)[row[m]] = Put(es[row[m]].dir.posts, {b.acct}, b.cur)
          /\ CostMoves(es, b.acct, b.cur)[row[m]] = Put(AtCost(es[row[m]].dir.posts), {b.acct}, b.cur)
      BY <3>1 DEF Moves, CostMoves
    <3> QED BY <2>1, <3>1, <3>2
  <2>3. ASSUME col[m] # 0
        PROVE  held[<<row[m], col[m]>>] = f[m] /\ cost[<<row[m], col[m]>>] = g[m]
    <3> DEFINE x == <<row[m], col[m]>>
    <3>1. x \in Paddings(pad) /\ x[1] = row[m] /\ x[2] = col[m] /\ fs[m].dir = pad[row[m]][col[m]]
      BY <2>3 DEF Spreads
    <3> HIDE DEF x, b
    <3>2. held[x] = Put(fs[m].dir.posts, {b.acct}, b.cur)
      BY <1>6, <3>1
    <3>3. cost[x] = Put(AtCost(fs[m].dir.posts), {b.acct}, b.cur)
      BY <3>1
    <3> QED BY <2>1, <3>2, <3>3 DEF x
  <2> QED BY <2>1, <2>2, <2>3
<1>8. Holds(fs, n, {b.acct}, b.cur) = Holds(es, k, {b.acct}, b.cur) + Sum(held, P)
  <2> DEFINE f == Moves(fs, {b.acct}, b.cur)
             g == Moves(es, {b.acct}, b.cur)
  <2>1. Weighs(fs, row, col, f, g, held)
    BY <1>7 DEF Weighs
  <2>9. fs[n].dir.kind = "balance"
    BY <1>1
  <2> HIDE DEF held, f, g, b
  <2>2. Sum(f, TxnsOf(fs, n)) = Sum(g, TxnsOf(es, k)) + Sum(held, P)
    BY <1>1, <1>3, <2>1, <2>9, SumMerged
  <2> QED BY <2>2 DEF Holds, f, g
<1>9. CostHeld(fs, n, b.acct, b.cur) = CostHeld(es, k, b.acct, b.cur) + Sum(cost, P)
  <2> DEFINE f == CostMoves(fs, b.acct, b.cur)
             g == CostMoves(es, b.acct, b.cur)
  <2>1. Weighs(fs, row, col, f, g, cost)
    BY <1>7 DEF Weighs
  <2>9. fs[n].dir.kind = "balance"
    BY <1>1
  <2> HIDE DEF cost, f, g, b
  <2>2. Sum(f, TxnsOf(fs, n)) = Sum(g, TxnsOf(es, k)) + Sum(cost, P)
    BY <1>1, <1>3, <2>1, <2>9, SumMerged
  <2> QED BY <2>2 DEF CostHeld, f, g
<1>10. CostHeld(fs, n, b.acct, b.cur) = CostHeld(es, k, b.acct, b.cur)
  <2>1. \A x \in P : cost[x] = 0
    BY <1>4, <1>6
  <2>2. CostHeld(es, k, b.acct, b.cur) \in Int
    <3>1. k \in 1 .. Len(es) + 1
      BY <1>1
    <3>2. /\ TxnsOf(es, k) \in SUBSET DOMAIN es /\ IsFiniteSet(TxnsOf(es, k))
          /\ \A j \in TxnsOf(es, k) : es[j].dir.kind = "txn"
      BY <3>1, TxnsOfTypes
    <3> HIDE DEF b, k
    <3>3. \A j \in TxnsOf(es, k) : CostMoves(es, b.acct, b.cur)[j] \in Int
      BY <3>2, CostMovesAre
    <3> QED BY <3>2, <3>3, SumType DEF CostHeld
  <2> HIDE DEF cost, P
  <2>3. Sum(cost, P) = Sum(cost, {})
    <3>1. \A x \in P : cost[x] \in Int
      BY <2>1
    <3>2. {} \in SUBSET P /\ \A x \in P \ {} : cost[x] = 0
      BY <2>1
    <3> QED BY <1>4, <3>1, <3>2, SumOfZeros
  <2>4. Sum(cost, P) = 0
    BY <2>3, SumEmpty
  <2> QED BY <1>9, <2>2, <2>4
<1>11. ASSUME ~LaterPadding(fs, n) PROVE Sum(held, P) = Sum(held, E)
  <2>1. ASSUME NEW x \in P, x \notin E PROVE held[x] = 0
    <3>1. x \in Paddings(pad) /\ es[x[1]].dir.date < fs[n].dir.date
      BY <1>4
    <3>2. Put(pad[x[1]][x[2]].posts, {fs[n].dir.acct}, fs[n].dir.cur) = 0
      BY <1>1, <1>11, <2>1, <3>1, AskedOrLater
    <3> QED BY <1>6, <3>1, <3>2
  <2>2. E \in SUBSET P
    BY <1>5
  <2>3. \A x \in P : held[x] \in Int
    BY <1>4, <1>6
  <2> HIDE DEF held, P, E
  <2> QED BY <1>4, <2>1, <2>2, <2>3, SumOfZeros
<1>12. \/ CostHeld(es, k, b.acct, b.cur) # 0
       \/ Holds(es, k, {b.acct}, b.cur) + Sum(held, E) = b.num
  BY <1>1, <1>2 DEF Met
<1> HIDE DEF held, P, E, k, b
<1>13. \/ CostHeld(fs, n, b.acct, b.cur) # 0
       \/ LaterPadding(fs, n)
       \/ Holds(fs, n, {b.acct}, b.cur) = b.num
  BY <1>8, <1>10, <1>11, <1>12
<1> QED BY <1>13 DEF Supplied, b
-----------------------------------------------------------------------------
(* The pad pass has visited the entries es before k, with these paddings,  *)
(* sums, costs and pads in force.                                          *)
SumsRun(es, pad, held, k) ==
    \A a \in Accounts, c \in Currencies :
       held[a][c] = Holds(es, k, {a}, c) + Sum(Supplies(pad, {a}, c), Paddings(pad))
CostsRun(es, cost, k) ==
    \A a \in Accounts, c \in Currencies : cost[a][c] = CostHeld(es, k, a, c)
PadOf(es, i, a) == es[i].dir.kind = "pad" /\ es[i].dir.acct = a
InForceRun(es, pend, a, k) ==
    /\ pend = None => \A i \in DOMAIN es : PadOf(es, i, a) => ~(i < k)
    /\ pend # None =>
          /\ pend.at \in DOMAIN es /\ pend.at < k /\ PadOf(es, pend.at, a)
          /\ \A i \in DOMAIN es : PadOf(es, i, a) /\ i < k => i <= pend.at
          /\ \A c \in Currencies : c \in pend.padded <=> AskedFor(es, pend.at, c, k)
PendingRun(es, pends, k) == \A a \in Accounts : InForceRun(es, pends[a], a, k)
MetRun(es, pad, k) ==
    \A j \in DOMAIN es, p \in DOMAIN es : j < k /\ FirstPadded(es, j, p) => Met(es, pad, j)

LEMMA AskedNext ==
    ASSUME NEW es, DOMAIN es \subseteq Nat, NEW k \in DOMAIN es, NEW p \in DOMAIN es, NEW c
    PROVE  AskedFor(es, p, c, k + 1) <=>
             AskedFor(es, p, c, k) \/ (Claims(es, k, es[p].dir.acct, c) /\ p < k)
<1>1. ASSUME AskedFor(es, p, c, k + 1)
      PROVE  AskedFor(es, p, c, k) \/ (Claims(es, k, es[p].dir.acct, c) /\ p < k)
  <2>1. PICK i \in DOMAIN es : Claims(es, i, es[p].dir.acct, c) /\ p < i /\ i < k + 1
    BY <1>1 DEF AskedFor
  <2>2. i < k \/ i = k
    BY <2>1
  <2> QED BY <2>1, <2>2 DEF AskedFor
<1>2. ASSUME AskedFor(es, p, c, k) PROVE AskedFor(es, p, c, k + 1)
  <2>1. PICK i \in DOMAIN es : Claims(es, i, es[p].dir.acct, c) /\ p < i /\ i < k
    BY <1>2 DEF AskedFor
  <2>2. i < k + 1
    BY <2>1
  <2> QED BY <2>1, <2>2 DEF AskedFor
<1>3. ASSUME Claims(es, k, es[p].dir.acct, c), p < k PROVE AskedFor(es, p, c, k + 1)
  <2>1. k < k + 1
    OBVIOUS
  <2> QED BY <1>3, <2>1 DEF AskedFor
<1> QED BY <1>1, <1>2, <1>3

LEMMA AskedBefore ==
    ASSUME NEW es, DOMAIN es \subseteq Nat, NEW p, NEW c, NEW j \in Nat, NEW k \in Nat, j <= k,
           AskedFor(es, p, c, j)
    PROVE  AskedFor(es, p, c, k)
<1>1. PICK i \in DOMAIN es : Claims(es, i, es[p].dir.acct, c) /\ p < i /\ i < j
  BY DEF AskedFor
<1>2. i < k
  BY <1>1
<1> QED BY <1>1, <1>2 DEF AskedFor

LEMMA SuppliersNext ==
    ASSUME NEW es, DOMAIN es \subseteq Nat, NEW k \in Nat, NEW pad, Suppliers(es, pad, k)
    PROVE  Suppliers(es, pad, k + 1)
<1>1. \A p, c : AskedFor(es, p, c, k) => AskedFor(es, p, c, k + 1)
  BY AskedBefore
<1> QED BY <1>1 DEF Suppliers, Supplier

LEMMA CostHeldNext ==
    ASSUME NEW es \in Seq(Entry), NEW k \in DOMAIN es, NEW a, NEW c
    PROVE  /\ CostHeld(es, k, a, c) \in Int
           /\ CostHeld(es, k + 1, a, c) = IF es[k].dir.kind = "txn"
                  THEN CostHeld(es, k, a, c) + Put(AtCost(es[k].dir.posts), {a}, c)
                  ELSE CostHeld(es, k, a, c)
<1> DEFINE f == CostMoves(es, a, c)
           S == TxnsOf(es, k)
<1>1. k \in Nat /\ k # 0 /\ k <= Len(es) /\ k \in 1 .. Len(es) + 1 /\ k + 1 \in 1 .. Len(es) + 1
  BY EntryHas
<1>2. /\ S \in SUBSET DOMAIN es /\ IsFiniteSet(S)
      /\ \A j \in S : j < k /\ j \in Nat /\ es[j].dir.kind = "txn"
  BY <1>1, TxnsOfTypes
<1>3. \A j \in DOMAIN es : es[j].dir.kind = "txn" =>
          f[j] \in Int /\ f[j] = Put(AtCost(es[j].dir.posts), {a}, c)
  BY CostMovesAre
<1>4. TxnsOf(es, k + 1) = IF es[k].dir.kind = "txn" THEN More(S, k) ELSE S
  BY <1>1 DEF TxnsOf, More
<1>5. k \notin S
  BY <1>1, <1>2
<1> HIDE DEF f, S
<1>6. Sum(f, S) \in Int
  BY <1>2, <1>3, SumType
<1>7. CASE es[k].dir.kind = "txn"
  <2>1. \A y \in More(S, k) : f[y] \in Int
    BY <1>2, <1>3, <1>7 DEF More
  <2>2. Sum(f, More(S, k)) = f[k] + Sum(f, S)
    BY <1>2, <1>5, <2>1, SumMore
  <2>3. f[k] \in Int /\ f[k] = Put(AtCost(es[k].dir.posts), {a}, c)
    BY <1>3, <1>7
  <2>4. CostHeld(es, k + 1, a, c) = Sum(f, More(S, k)) /\ CostHeld(es, k, a, c) = Sum(f, S)
    BY <1>4, <1>7 DEF CostHeld, f, S
  <2> QED BY <1>6, <1>7, <2>2, <2>3, <2>4
<1>8. CASE es[k].dir.kind # "txn"
  BY <1>4, <1>6, <1>8 DEF CostHeld, f, S
<1> QED BY <1>7, <1>8

\* Every padding so far counts towards what an assertion is to hold.
LEMMA AllAreAsked ==
    ASSUME NEW es, DOMAIN es \subseteq Nat, NEW k \in Nat,
           NEW pad \in Seq(Seq(TransactionType)), Suppliers(es, pad, k + 1), NEW A, NEW c
    PROVE  Sum(Supplies(pad, A, c), Paddings(pad)) = Sum(Supplies(pad, A, c), AskedBy(es, pad, c, k))
<1> DEFINE f == Supplies(pad, A, c)
           S == Paddings(pad)
           R == AskedBy(es, pad, c, k)
<1>1. R \in SUBSET S
  BY DEF AskedBy
<1>2. \A x \in S : f[x] \in Int
  BY SuppliesAre
<1>3. ASSUME NEW x \in S, x \notin R PROVE f[x] = 0
  <2>1. PICK d \in Currencies : /\ Pays(pad[x[1]][x[2]].posts, es[x[1]].dir.acct, d)
                                /\ AskedFor(es, x[1], d, k + 1)
    BY DEF Suppliers, Supplier
  <2>3. d # c
    BY <1>3, <2>1 DEF AskedBy
  <2>4. pad[x[1]][x[2]].posts \in Seq(Posting) /\ f[x] = Put(pad[x[1]][x[2]].posts, A, c)
    BY SuppliesAre
  <2>5. \A i \in DOMAIN pad[x[1]][x[2]].posts : pad[x[1]][x[2]].posts[i].cur # c
    BY <2>1, <2>3 DEF Pays
  <2> HIDE DEF f, S, R
  <2> QED BY <2>4, <2>5, PutElsewhere
<1>4. IsFiniteSet(S)
  BY PaddingsAre
<1> HIDE DEF f, S, R
<1>5. Sum(f, S) = Sum(f, R)
  BY <1>1, <1>2, <1>3, <1>4, SumOfZeros
<1> QED BY <1>5 DEF f, S, R

LEMMA SuppliesSum ==
    ASSUME NEW pad \in Seq(Seq(TransactionType)), NEW A, NEW c
    PROVE  Sum(Supplies(pad, A, c), Paddings(pad)) \in Int
<1>1. IsFiniteSet(Paddings(pad)) /\ \A x \in Paddings(pad) : Supplies(pad, A, c)[x] \in Int
  BY PaddingsAre, SuppliesAre
<1> QED BY <1>1, SumType

\* One more padding, of the pad p.
Inserts(pad, new, p, t) ==
    LET x == <<p, Len(pad[p]) + 1>>
    IN  /\ new \in Seq(Seq(TransactionType)) /\ DOMAIN new = DOMAIN pad
        /\ x \notin Paddings(pad) /\ Paddings(new) = More(Paddings(pad), x)
        /\ x[1] = p /\ new[x[1]][x[2]] = t
        /\ \A y \in Paddings(pad) : new[y[1]][y[2]] = pad[y[1]][y[2]]
LEMMA PaddingAdded ==
    ASSUME NEW pad \in Seq(Seq(TransactionType)), NEW p \in DOMAIN pad, NEW t \in TransactionType,
           NEW new, new = [pad EXCEPT ![p] = Append(@, t)]
    PROVE  Inserts(pad, new, p, t)
<1> DEFINE x == <<p, Len(pad[p]) + 1>>
           q == Append(pad[p], t)
<1>1. /\ pad[p] \in Seq(TransactionType) /\ q \in Seq(TransactionType) /\ Len(pad[p]) \in Nat
      /\ DOMAIN pad[p] = 1 .. Len(pad[p]) /\ DOMAIN q = 1 .. Len(pad[p]) + 1
      /\ q[Len(pad[p]) + 1] = t /\ \A i \in DOMAIN pad[p] : q[i] = pad[p][i]
  OBVIOUS
<1>2. /\ new \in Seq(Seq(TransactionType)) /\ DOMAIN new = DOMAIN pad /\ new[p] = q
      /\ \A k \in DOMAIN pad : k # p => new[k] = pad[k]
  <2>1. DOMAIN new = DOMAIN pad /\ new[p] = q /\ \A k \in DOMAIN pad : k # p => new[k] = pad[k]
    OBVIOUS
  <2>2. new = [k \in DOMAIN pad |-> new[k]]
    OBVIOUS
  <2>3. \A k \in DOMAIN pad : new[k] \in Seq(TransactionType)
    BY <1>1, <2>1
  <2> HIDE DEF q
  <2>4. new \in Seq(Seq(TransactionType))
    BY <2>2, <2>3, MadeList
  <2> QED BY <2>1, <2>4
<1> HIDE DEF q
<1>3. ASSUME NEW y PROVE y \in Paddings(new) <=> y \in Paddings(pad) \/ y = x
  <2>1. ASSUME y \in Paddings(new) PROVE y \in Paddings(pad) \/ y = x
    <3>1. PICK k \in DOMAIN new : \E m \in DOMAIN new[k] : y = <<k, m>>
      BY ONLY <2>1, PaddingPlaces
    <3>2. PICK m \in DOMAIN new[k] : y = <<k, m>>
      BY <3>1
    <3>3. CASE k # p \/ m \in DOMAIN pad[p]
      <4>1. k \in DOMAIN pad /\ m \in DOMAIN pad[k]
        BY <1>2, <3>2, <3>3
      <4> QED BY <3>2, <4>1, PaddingPlaces
    <3>4. CASE k = p /\ m \notin DOMAIN pad[p]
      BY <1>1, <1>2, <3>2, <3>4
    <3> QED BY <3>3, <3>4
  <2>2. ASSUME y \in Paddings(pad) PROVE y \in Paddings(new)
    <3>1. PICK k \in DOMAIN pad : \E m \in DOMAIN pad[k] : y = <<k, m>>
      BY <2>2, PaddingPlaces
    <3>2. PICK m \in DOMAIN pad[k] : y = <<k, m>>
      BY <3>1
    <3>3. m \in DOMAIN new[k]
      BY <1>1, <1>2, <3>2
    <3> QED BY <1>2, <3>2, <3>3, PaddingPlaces
  <2>3. x \in Paddings(new)
    <3>1. Len(pad[p]) + 1 \in DOMAIN new[p] /\ p \in DOMAIN new
      BY <1>1, <1>2
    <3> QED BY <3>1, PaddingPlaces
  <2> QED BY <2>1, <2>2, <2>3
<1>4. x \notin Paddings(pad)
  <2>1. x[1] = p /\ x[2] = Len(pad[p]) + 1
    OBVIOUS
  <2>2. Len(pad[p]) + 1 \notin DOMAIN pad[p]
    BY <1>1
  <2> QED BY <2>1, <2>2, PaddingsAre
<1>5. Paddings(new) = More(Paddings(pad), x)
  <2>1. \A y : y \in More(Paddings(pad), x) <=> y \in Paddings(pad) \/ y = x
    BY DEF More
  <2> HIDE DEF x
  <2> QED BY <1>3, <2>1
<1>6. x[1] = p /\ new[x[1]][x[2]] = t
  BY <1>1, <1>2
<1>7. ASSUME NEW y \in Paddings(pad) PROVE new[y[1]][y[2]] = pad[y[1]][y[2]]
  <2>1. y[1] \in DOMAIN pad /\ y[2] \in DOMAIN pad[y[1]]
    BY PaddingsAre
  <2>2. CASE y[1] = p
    BY <1>1, <1>2, <2>1, <2>2
  <2>3. CASE y[1] # p
    BY <1>2, <2>1, <2>3
  <2> QED BY <2>2, <2>3
<1> QED BY <1>2, <1>4, <1>5, <1>6, <1>7 DEF Inserts
-----------------------------------------------------------------------------
(* One more entry visited.                                                 *)
PadRun(es, pad, held, cost, pends, k) ==
    /\ Suppliers(es, pad, k) /\ SumsRun(es, pad, held, k) /\ CostsRun(es, cost, k)
    /\ PendingRun(es, pends, k) /\ MetRun(es, pad, k)

LEMMA MetNext ==
    ASSUME NEW es \in Seq(Entry), NEW k \in DOMAIN es, NEW pad, MetRun(es, pad, k),
           \A p \in DOMAIN es : FirstPadded(es, k, p) => Met(es, pad, k)
    PROVE  MetRun(es, pad, k + 1)
<1> SUFFICES ASSUME NEW j \in DOMAIN es, NEW p \in DOMAIN es, j < k + 1, FirstPadded(es, j, p)
             PROVE  Met(es, pad, j)
  BY DEF MetRun
<1>1. j < k \/ j = k
  BY EntryHas
<1>2. CASE j < k
  BY <1>2 DEF MetRun
<1>3. CASE j = k
  BY <1>3
<1> QED BY <1>1, <1>2, <1>3

LEMMA InForceNext ==
    ASSUME NEW es \in Seq(Entry), NEW k \in DOMAIN es, NEW a, NEW pend, InForceRun(es, pend, a, k),
           ~PadOf(es, k, a), \A c \in Currencies : pend # None /\ Claims(es, k, a, c) => c \in pend.padded
    PROVE  InForceRun(es, pend, a, k + 1)
<1>1. DOMAIN es \subseteq Nat /\ k \in Nat
  BY EntryHas
<1>2. ASSUME NEW i \in DOMAIN es, PadOf(es, i, a), i < k + 1 PROVE i < k
  BY <1>1, <1>2
<1>3. ASSUME pend = None PROVE \A i \in DOMAIN es : PadOf(es, i, a) => ~(i < k + 1)
  BY <1>2, <1>3 DEF InForceRun
<1>4. ASSUME pend # None
      PROVE  /\ pend.at \in DOMAIN es /\ pend.at < k + 1 /\ PadOf(es, pend.at, a)
             /\ \A i \in DOMAIN es : PadOf(es, i, a) /\ i < k + 1 => i <= pend.at
             /\ \A c \in Currencies : c \in pend.padded <=> AskedFor(es, pend.at, c, k + 1)
  <2>1. /\ pend.at \in DOMAIN es /\ pend.at < k /\ PadOf(es, pend.at, a)
        /\ \A i \in DOMAIN es : PadOf(es, i, a) /\ i < k => i <= pend.at
        /\ \A c \in Currencies : c \in pend.padded <=> AskedFor(es, pend.at, c, k)
    BY <1>4 DEF InForceRun
  <2>2. es[pend.at].dir.acct = a
    BY <2>1 DEF PadOf
  <2>3. ASSUME NEW c \in Currencies PROVE c \in pend.padded <=> AskedFor(es, pend.at, c, k + 1)
    <3>1. AskedFor(es, pend.at, c, k + 1) <=> AskedFor(es, pend.at, c, k) \/ Claims(es, k, a, c)
      BY <1>1, <2>1, <2>2, AskedNext
    <3> QED BY <1>4, <2>1, <3>1
  <2>4. pend.at < k + 1
    BY <1>1, <2>1
  <2> QED BY <1>2, <2>1, <2>3, <2>4
<1> QED BY <1>3, <1>4 DEF InForceRun

LEMMA InForceAnswered ==
    ASSUME NEW es \in Seq(Entry), NEW k \in DOMAIN es, NEW a, NEW pend, InForceRun(es, pend, a, k),
           pend # None, NEW c0, Claims(es, k, a, c0),
           NEW new, new # None, new.at = pend.at, new.padded = pend.padded \cup {c0}
    PROVE  InForceRun(es, new, a, k + 1)
<1>1. DOMAIN es \subseteq Nat /\ k \in Nat
  BY EntryHas
<1>2. /\ new.at \in DOMAIN es /\ new.at < k /\ PadOf(es, new.at, a)
      /\ \A i \in DOMAIN es : PadOf(es, i, a) /\ i < k => i <= new.at
      /\ \A c \in Currencies : c \in pend.padded <=> AskedFor(es, new.at, c, k)
  BY DEF InForceRun
<1>3. ~PadOf(es, k, a)
  BY DEF PadOf, Claims
<1>4. ASSUME NEW i \in DOMAIN es, PadOf(es, i, a), i < k + 1 PROVE i <= new.at
  <2>1. i < k
    BY <1>1, <1>3, <1>4
  <2> QED BY <1>2, <1>4, <2>1
<1>5. es[new.at].dir.acct = a
  BY <1>2 DEF PadOf
<1>6. ASSUME NEW c \in Currencies PROVE c \in new.padded <=> AskedFor(es, new.at, c, k + 1)
  <2>1. AskedFor(es, new.at, c, k + 1) <=> AskedFor(es, new.at, c, k) \/ Claims(es, k, a, c)
    BY <1>1, <1>2, <1>5, AskedNext
  <2>2. Claims(es, k, a, c) <=> c = c0
    BY DEF Claims
  <2> QED BY <1>2, <2>1, <2>2
<1>7. new.at < k + 1
  BY <1>1, <1>2
<1> QED BY <1>2, <1>4, <1>6, <1>7 DEF InForceRun

LEMMA InForceRecorded ==
    ASSUME NEW es \in Seq(Entry), NEW k \in DOMAIN es, NEW a, PadOf(es, k, a),
           NEW new, new # None, new.at = k, new.padded = {}
    PROVE  InForceRun(es, new, a, k + 1)
<1>1. DOMAIN es \subseteq Nat /\ k \in Nat
  BY EntryHas
<1>2. \A c : ~AskedFor(es, k, c, k + 1)
  BY <1>1 DEF AskedFor
<1>3. k < k + 1 /\ \A i \in DOMAIN es : i < k + 1 => i <= k
  BY <1>1
<1> QED BY <1>2, <1>3 DEF InForceRun

\* An entry for which no padding is inserted.
LEMMA RunsOn ==
    ASSUME NEW es \in Seq(Entry), NEW k \in DOMAIN es, NEW pad \in Seq(Seq(TransactionType)),
           NEW held \in Balances, NEW cost \in Balances, NEW pends,
           PadRun(es, pad, held, cost, pends, k),
           NEW heldNow, NEW costNow, NEW pendsNow,
           \A a \in Accounts, c \in Currencies :
              /\ heldNow[a][c] = IF es[k].dir.kind = "txn"
                                 THEN held[a][c] + Put(es[k].dir.posts, {a}, c) ELSE held[a][c]
              /\ costNow[a][c] = IF es[k].dir.kind = "txn"
                                 THEN cost[a][c] + Put(AtCost(es[k].dir.posts), {a}, c)
                                 ELSE cost[a][c],
           PendingRun(es, pendsNow, k + 1),
           \A p \in DOMAIN es : FirstPadded(es, k, p) => Met(es, pad, k)
    PROVE  PadRun(es, pad, heldNow, costNow, pendsNow, k + 1)
<1>1. DOMAIN es \subseteq Nat /\ k \in Nat /\ k \in 1 .. Len(es) + 1
  BY EntryHas
<1>2. Suppliers(es, pad, k + 1)
  BY <1>1, SuppliersNext DEF PadRun
<1>3. SumsRun(es, pad, heldNow, k + 1)
  <2> SUFFICES ASSUME NEW a \in Accounts, NEW c \in Currencies
               PROVE  heldNow[a][c] = Holds(es, k + 1, {a}, c) + Sum(Supplies(pad, {a}, c), Paddings(pad))
    BY DEF SumsRun
  <2>1. held[a][c] = Holds(es, k, {a}, c) + Sum(Supplies(pad, {a}, c), Paddings(pad))
    BY DEF PadRun, SumsRun
  <2>2. Holds(es, k, {a}, c) \in Int /\ Sum(Supplies(pad, {a}, c), Paddings(pad)) \in Int
    BY <1>1, HoldsType, SuppliesSum
  <2>3. Holds(es, k + 1, {a}, c) = IF es[k].dir.kind = "txn"
                                   THEN Holds(es, k, {a}, c) + Put(es[k].dir.posts, {a}, c)
                                   ELSE Holds(es, k, {a}, c)
    BY HoldsNext
  <2>4. CASE es[k].dir.kind = "txn"
    <3>1. Put(es[k].dir.posts, {a}, c) \in Int
      BY <2>4, EntryHas, PutIsSum
    <3>2. heldNow[a][c] = held[a][c] + Put(es[k].dir.posts, {a}, c)
      BY <2>4
    <3>3. Holds(es, k + 1, {a}, c) = Holds(es, k, {a}, c) + Put(es[k].dir.posts, {a}, c)
      BY <2>3, <2>4
    <3> QED BY ONLY <2>1, <2>2, <3>1, <3>2, <3>3
  <2>5. CASE es[k].dir.kind # "txn"
    BY <2>1, <2>2, <2>3, <2>5
  <2> QED BY <2>4, <2>5
<1>4. CostsRun(es, costNow, k + 1)
  <2> SUFFICES ASSUME NEW a \in Accounts, NEW c \in Currencies
               PROVE  costNow[a][c] = CostHeld(es, k + 1, a, c)
    BY DEF CostsRun
  <2>1. cost[a][c] = CostHeld(es, k, a, c)
    BY DEF PadRun, CostsRun
  <2> DEFINE n == CostHeld(es, k + 1, a, c)
             m == CostHeld(es, k, a, c)
             x == Put(AtCost(es[k].dir.posts), {a}, c)
  <2>4. n = IF es[k].dir.kind = "txn" THEN m + x ELSE m
    <3>1. es \in Seq(Entry) /\ k \in DOMAIN es
      OBVIOUS
    <3> QED BY ONLY <3>1, CostHeldNext
  <2>5. costNow[a][c] = IF es[k].dir.kind = "txn" THEN cost[a][c] + x ELSE cost[a][c]
    OBVIOUS
  <2> HIDE DEF n, m, x
  <2>2. CASE es[k].dir.kind = "txn"
    <3>1. costNow[a][c] = cost[a][c] + x /\ n = m + x /\ cost[a][c] = m
      BY <2>1, <2>2, <2>4, <2>5 DEF m
    <3> QED BY <3>1 DEF n
  <2>3. CASE es[k].dir.kind # "txn"
    <3>1. costNow[a][c] = cost[a][c] /\ n = m /\ cost[a][c] = m
      BY <2>1, <2>3, <2>4, <2>5 DEF m
    <3> QED BY <3>1 DEF n
  <2> QED BY <2>2, <2>3
<1>5. MetRun(es, pad, k + 1)
  BY MetNext DEF PadRun
<1> QED BY <1>2, <1>3, <1>4, <1>5 DEF PadRun
-----------------------------------------------------------------------------
Place(pad, p) == <<p, Len(pad[p]) + 1>>

LEMMA InsertsOne ==
    ASSUME NEW pad \in Seq(Seq(TransactionType)), NEW p, NEW t \in TransactionType,
           NEW new, Inserts(pad, new, p, t)
    PROVE  LET x == Place(pad, p)
           IN  /\ new \in Seq(Seq(TransactionType)) /\ x \notin Paddings(pad) /\ x[1] = p
               /\ \A y : y \in Paddings(new) <=> y \in Paddings(pad) \/ y = x
               /\ \A A, c : Supplies(new, A, c)[x] = Put(t.posts, A, c)
               /\ \A y \in Paddings(pad) :
                     /\ new[y[1]][y[2]] = pad[y[1]][y[2]]
                     /\ \A A, c : Supplies(new, A, c)[y] = Supplies(pad, A, c)[y]
               /\ new[p][x[2]] = t
<1> DEFINE x == Place(pad, p)
<1>1. /\ new \in Seq(Seq(TransactionType)) /\ x \notin Paddings(pad) /\ x[1] = p
      /\ Paddings(new) = More(Paddings(pad), x) /\ new[x[1]][x[2]] = t
      /\ \A y \in Paddings(pad) : new[y[1]][y[2]] = pad[y[1]][y[2]]
  BY DEF Inserts, Place
<1> HIDE DEF x
<1>2. \A y : y \in Paddings(new) <=> y \in Paddings(pad) \/ y = x
  BY <1>1 DEF More
<1>3. ASSUME NEW A, NEW c PROVE Supplies(new, A, c)[x] = Put(t.posts, A, c)
  BY <1>1, <1>2 DEF Supplies
<1>4. ASSUME NEW y \in Paddings(pad), NEW A, NEW c
      PROVE  Supplies(new, A, c)[y] = Supplies(pad, A, c)[y]
  BY <1>1, <1>2 DEF Supplies
<1> QED BY <1>1, <1>2, <1>3, <1>4 DEF x

LEMMA SuppliesAdded ==
    ASSUME NEW pad \in Seq(Seq(TransactionType)), NEW p, NEW t \in TransactionType,
           NEW new, Inserts(pad, new, p, t), NEW A, NEW c
    PROVE  /\ Put(t.posts, A, c) \in Int
           /\ Sum(Supplies(new, A, c), Paddings(new))
                = Put(t.posts, A, c) + Sum(Supplies(pad, A, c), Paddings(pad))
<1> DEFINE x == Place(pad, p)
           f == Supplies(new, A, c)
           g == Supplies(pad, A, c)
           S == Paddings(pad)
<1>1. /\ new \in Seq(Seq(TransactionType)) /\ x \notin S
      /\ \A y : y \in Paddings(new) <=> y \in S \/ y = x
      /\ f[x] = Put(t.posts, A, c) /\ \A y \in S : f[y] = g[y]
  BY InsertsOne
<1>2. IsFiniteSet(S) /\ \A y \in Paddings(new) : f[y] \in Int
  BY <1>1, PaddingsAre, SuppliesAre
<1> HIDE DEF x, f, g, S
<1>3. Paddings(new) = More(S, x)
  BY <1>1 DEF More
<1>4. Sum(f, More(S, x)) = f[x] + Sum(f, S)
  BY <1>1, <1>2, <1>3, SumMore
<1>5. Sum(f, S) = Sum(g, S)
  BY <1>1, <1>2, SumSame
<1>6. f[x] \in Int
  BY <1>1, <1>2
<1> QED BY <1>1, <1>3, <1>4, <1>5, <1>6 DEF f, g, S

\* Assertions behind which the padding is asked for count it no more than before.
Brings(es, pad, new, p, t, c0, k) ==
    /\ p \in DOMAIN es /\ t \in TransactionType /\ Inserts(pad, new, p, t)
    /\ ~AskedFor(es, p, c0, k) /\ \E a0 : Pays(t.posts, a0, c0)
LEMMA AddedCountsNot ==
    ASSUME NEW es \in Seq(Entry), NEW pad \in Seq(Seq(TransactionType)), NEW p,
           NEW t, NEW new, NEW c0, NEW k \in Nat, Brings(es, pad, new, p, t, c0, k),
           NEW j \in DOMAIN es, j < k, NEW A, NEW c
    PROVE  Sum(Supplies(new, A, c), AskedBy(es, new, c, j))
             = Sum(Supplies(pad, A, c), AskedBy(es, pad, c, j))
<1> DEFINE x == Place(pad, p)
           f == Supplies(new, A, c)
           g == Supplies(pad, A, c)
           R == AskedBy(es, pad, c, j)
           T == AskedBy(es, new, c, j)
<1>0. /\ p \in DOMAIN es /\ t \in TransactionType /\ Inserts(pad, new, p, t)
      /\ ~AskedFor(es, p, c0, k) /\ \E a0 : Pays(t.posts, a0, c0)
  BY DEF Brings
<1>1. /\ new \in Seq(Seq(TransactionType)) /\ x \notin Paddings(pad) /\ x[1] = p
      /\ \A y : y \in Paddings(new) <=> y \in Paddings(pad) \/ y = x
      /\ f[x] = Put(t.posts, A, c) /\ \A y \in Paddings(pad) : f[y] = g[y]
  <2> USE <1>0
  <2>1. new \in Seq(Seq(TransactionType)) /\ x \notin Paddings(pad) /\ x[1] = p
    BY InsertsOne
  <2>2. \A y : y \in Paddings(new) <=> y \in Paddings(pad) \/ y = x
    BY InsertsOne
  <2>3. f[x] = Put(t.posts, A, c)
    BY InsertsOne
  <2>4. ASSUME NEW y \in Paddings(pad) PROVE f[y] = g[y]
    <3>1. y \in Paddings(new) /\ new[y[1]][y[2]] = pad[y[1]][y[2]]
      BY <2>2 DEF Inserts
    <3> QED BY <3>1 DEF Supplies
  <2> HIDE DEF x, f, g
  <2> QED BY <2>1, <2>2, <2>3, <2>4
<1>2. IsFiniteSet(Paddings(new)) /\ \A y \in Paddings(new) : f[y] \in Int
  BY <1>1, PaddingsAre, SuppliesAre
<1> HIDE DEF x, f, g
<1>3. T \in SUBSET Paddings(new) /\ R \in SUBSET T /\ \A y \in T : y \in R \/ y = x
  BY <1>1 DEF AskedBy
<1>4. IsFiniteSet(T) /\ \A y \in T : f[y] \in Int
  BY <1>2, <1>3, FS_Subset
<1>5. R \in SUBSET Paddings(pad)
  BY DEF AskedBy
<1>6. ASSUME x \in T PROVE f[x] = 0
  <2>1. AskedFor(es, p, c, j + 1)
    BY <1>1, <1>6 DEF AskedBy
  <2>2. DOMAIN es \subseteq Nat /\ j + 1 \in Nat /\ j + 1 <= k
    BY EntryHas
  <2>3. AskedFor(es, p, c, k)
    BY <2>1, <2>2, AskedBefore
  <2>4. c # c0
    BY <1>0, <2>3
  <2>5. t.posts \in Seq(Posting) /\ \A i \in DOMAIN t.posts : t.posts[i].cur # c
    BY <1>0, <2>4 DEF Pays, TransactionType
  <2> QED BY <1>1, <2>5, PutElsewhere
<1> HIDE DEF R, T
<1>7. \A y \in T \ R : f[y] = 0
  BY <1>3, <1>6
<1>8. Sum(f, T) = Sum(f, R)
  BY <1>3, <1>4, <1>7, SumOfZeros
<1>9. IsFiniteSet(R) /\ \A y \in R : f[y] = g[y]
  BY <1>1, <1>3, <1>4, <1>5, FS_Subset
<1>10. Sum(f, R) = Sum(g, R)
  BY <1>9, SumSame
<1> QED BY <1>8, <1>10 DEF f, g, R, T
-----------------------------------------------------------------------------
LEMMA SuppliersAdded ==
    ASSUME NEW es \in Seq(Entry), NEW k \in Nat, NEW pad \in Seq(Seq(TransactionType)),
           Suppliers(es, pad, k), NEW p \in DOMAIN es, es[p].dir.kind = "pad",
           NEW t \in TransactionType, NEW new, Inserts(pad, new, p, t),
           NEW c0 \in Currencies, Pays(t.posts, es[p].dir.acct, c0), AskedFor(es, p, c0, k + 1),
           t.date = es[p].dir.date, t.padding
    PROVE  Suppliers(es, new, k + 1)
<1> DEFINE x == Place(pad, p)
<1>1. DOMAIN es \subseteq Nat
  BY EntryHas
<1>2. Suppliers(es, pad, k + 1)
  BY <1>1, SuppliersNext
<1>3. x[1] = p /\ \A y : y \in Paddings(new) <=> y \in Paddings(pad) \/ y = x
  <2>1. x[1] = p
    BY DEF Place
  <2>2. Paddings(new) = More(Paddings(pad), x)
    BY DEF Inserts, Place
  <2> HIDE DEF x
  <2> QED BY <2>1, <2>2 DEF More
<1>4. new[x[1]][x[2]] = t /\ \A y \in Paddings(pad) : new[y[1]][y[2]] = pad[y[1]][y[2]]
  BY DEF Inserts, Place
<1> HIDE DEF x
<1>5. ASSUME NEW y \in Paddings(pad) PROVE Supplier(es, new, y, k + 1)
  <2>1. Supplier(es, pad, y, k + 1) /\ new[y[1]][y[2]] = pad[y[1]][y[2]]
    BY <1>2, <1>4 DEF Suppliers
  <2> QED BY <2>1 DEF Supplier
<1>6. Supplier(es, new, x, k + 1)
  BY <1>3, <1>4 DEF Supplier
<1> QED BY <1>3, <1>5, <1>6 DEF Suppliers

LEMMA MetAdded ==
    ASSUME NEW es \in Seq(Entry), NEW k \in Nat, NEW pad \in Seq(Seq(TransactionType)),
           MetRun(es, pad, k), NEW p \in DOMAIN es,
           NEW t \in TransactionType, NEW new, Inserts(pad, new, p, t),
           NEW a0, NEW c0, Pays(t.posts, a0, c0), ~AskedFor(es, p, c0, k)
    PROVE  MetRun(es, new, k)
<1> SUFFICES ASSUME NEW j \in DOMAIN es, NEW q \in DOMAIN es, j < k, FirstPadded(es, j, q)
             PROVE  Met(es, new, j)
  BY DEF MetRun
<1> DEFINE a == es[j].dir.acct
           c == es[j].dir.cur
<1>1. Met(es, pad, j)
  BY DEF MetRun
<1>2. Sum(Supplies(new, {a}, c), AskedBy(es, new, c, j))
        = Sum(Supplies(pad, {a}, c), AskedBy(es, pad, c, j))
  <2> HIDE DEF a, c
  <2> DEFINE B == {a}
  <2>1. /\ es \in Seq(Entry) /\ pad \in Seq(Seq(TransactionType)) /\ k \in Nat
        /\ Brings(es, pad, new, p, t, c0, k) /\ j \in DOMAIN es /\ j < k
    BY DEF Brings
  <2> HIDE DEF B
  <2>2. Sum(Supplies(new, B, c), AskedBy(es, new, c, j)) = Sum(Supplies(pad, B, c), AskedBy(es, pad, c, j))
    BY ONLY <2>1, AddedCountsNot
  <2> QED BY <2>2 DEF B
<1> QED BY <1>1, <1>2 DEF Met

\* An assertion for which a padding is inserted.
Fills(es, k, held, pends, a0, c0, p, t) ==
    /\ a0 \in Accounts /\ c0 \in Currencies /\ Claims(es, k, a0, c0)
    /\ pends[a0] # None /\ c0 \notin pends[a0].padded /\ p = pends[a0].at
    /\ t \in TransactionType /\ t.date = es[p].dir.date /\ t.padding /\ Pays(t.posts, a0, c0)
    /\ es[p].dir.from # a0 => Put(t.posts, {a0}, c0) = es[k].dir.num - held[a0][c0]
Gains(held, now, ps) ==
    \A a \in Accounts, c \in Currencies : now[a][c] = held[a][c] + Put(ps, {a}, c)
LEMMA RunsOnPadded ==
    ASSUME NEW es \in Seq(Entry), NEW k \in DOMAIN es, NEW pad \in Seq(Seq(TransactionType)),
           DOMAIN pad = DOMAIN es, NEW held \in Balances, NEW cost \in Balances, NEW pends,
           PadRun(es, pad, held, cost, pends, k),
           NEW a0, NEW c0, NEW p, NEW t, Fills(es, k, held, pends, a0, c0, p, t),
           NEW new, Inserts(pad, new, p, t), NEW heldNow, Gains(held, heldNow, t.posts),
           NEW pendsNow, PendingRun(es, pendsNow, k + 1)
    PROVE  PadRun(es, new, heldNow, cost, pendsNow, k + 1)
<1>0. /\ a0 \in Accounts /\ c0 \in Currencies /\ Claims(es, k, a0, c0)
      /\ pends[a0] # None /\ c0 \notin pends[a0].padded /\ p = pends[a0].at
      /\ t \in TransactionType /\ t.date = es[p].dir.date /\ t.padding /\ Pays(t.posts, a0, c0)
      /\ es[p].dir.from # a0 => Put(t.posts, {a0}, c0) = es[k].dir.num - held[a0][c0]
  BY DEF Fills
<1> USE <1>0
<1>1. DOMAIN es \subseteq Nat /\ k \in Nat /\ k \in 1 .. Len(es) + 1
  <2>1. es \in Seq(Entry) /\ k \in DOMAIN es
    OBVIOUS
  <2> QED BY ONLY <2>1, EntryHas
<1>2. InForceRun(es, pends[a0], a0, k)
  BY DEF PadRun, PendingRun
<1>3. /\ p \in DOMAIN es /\ p < k /\ es[p].dir.kind = "pad" /\ es[p].dir.acct = a0
      /\ \A i \in DOMAIN es : PadOf(es, i, a0) /\ i < k => i <= p
      /\ ~AskedFor(es, p, c0, k)
  BY <1>2 DEF InForceRun, PadOf
<1>4. AskedFor(es, p, c0, k + 1)
  BY <1>1, <1>3, AskedNext
<1>5. Inserts(pad, new, p, t)
  OBVIOUS
<1>6. Suppliers(es, new, k + 1)
  BY <1>1, <1>3, <1>4, <1>5, SuppliersAdded DEF PadRun
<1>7. /\ es[k].dir.kind = "balance" /\ es[k].dir.acct = a0 /\ es[k].dir.cur = c0
      /\ es[k].dir.num \in Int
  <2>1. es[k].dir.kind = "balance" /\ es[k].dir.acct = a0 /\ es[k].dir.cur = c0
    BY DEF Claims
  <2> QED BY <2>1, EntryHas
<1>8. ASSUME NEW a \in Accounts, NEW c \in Currencies
      PROVE  heldNow[a][c] = Holds(es, k, {a}, c) + Sum(Supplies(new, {a}, c), Paddings(new))
  <2>1. held[a][c] = Holds(es, k, {a}, c) + Sum(Supplies(pad, {a}, c), Paddings(pad))
    BY DEF PadRun, SumsRun
  <2>2. heldNow[a][c] = held[a][c] + Put(t.posts, {a}, c)
    BY DEF Gains
  <2>3. Holds(es, k, {a}, c) \in Int /\ Sum(Supplies(pad, {a}, c), Paddings(pad)) \in Int
    BY <1>1, HoldsType, SuppliesSum
  <2>4. /\ Put(t.posts, {a}, c) \in Int
        /\ Sum(Supplies(new, {a}, c), Paddings(new))
             = Put(t.posts, {a}, c) + Sum(Supplies(pad, {a}, c), Paddings(pad))
    <3> DEFINE B == {a}
    <3>1. pad \in Seq(Seq(TransactionType)) /\ t \in TransactionType
      OBVIOUS
    <3> HIDE DEF B
    <3>2. /\ Put(t.posts, B, c) \in Int
          /\ Sum(Supplies(new, B, c), Paddings(new))
               = Put(t.posts, B, c) + Sum(Supplies(pad, B, c), Paddings(pad))
      BY ONLY <1>5, <3>1, SuppliesAdded
    <3> QED BY <3>2 DEF B
  <2> QED BY ONLY <2>1, <2>2, <2>3, <2>4
<1>9. SumsRun(es, new, heldNow, k + 1)
  <2>1. ASSUME NEW A, NEW c PROVE Holds(es, k + 1, A, c) = Holds(es, k, A, c)
    <3>1. es \in Seq(Entry) /\ k \in DOMAIN es /\ es[k].dir.kind # "txn"
      BY <1>7
    <3> QED BY ONLY <3>1, HoldsNext
  <2>2. ASSUME NEW a \in Accounts, NEW c \in Currencies
        PROVE  heldNow[a][c] = Holds(es, k + 1, {a}, c) + Sum(Supplies(new, {a}, c), Paddings(new))
    <3> DEFINE B == {a}
    <3>1. heldNow[a][c] = Holds(es, k, B, c) + Sum(Supplies(new, B, c), Paddings(new))
      BY <1>8
    <3>2. Holds(es, k + 1, B, c) = Holds(es, k, B, c)
      BY <2>1
    <3> HIDE DEF B
    <3> QED BY ONLY <3>1, <3>2 DEF B
  <2> QED BY <2>2 DEF SumsRun
<1>10. CostsRun(es, cost, k + 1)
  <2>1. ASSUME NEW a, NEW c PROVE CostHeld(es, k + 1, a, c) = CostHeld(es, k, a, c)
    <3>1. es \in Seq(Entry) /\ k \in DOMAIN es /\ es[k].dir.kind # "txn"
      BY <1>7
    <3> QED BY ONLY <3>1, CostHeldNext
  <2> QED BY <2>1 DEF PadRun, CostsRun
<1>11. MetRun(es, new, k)
  BY <1>1, <1>3, <1>5, MetAdded DEF PadRun
<1>12. ASSUME NEW q \in DOMAIN es, FirstPadded(es, k, q) PROVE Met(es, new, k)
  <2>1. /\ q < k /\ PadOf(es, q, a0) /\ es[q].dir.from # a0
        /\ \A i \in DOMAIN es : PadOf(es, i, a0) /\ i < k => i <= q
    BY <1>7, <1>12 DEF FirstPadded, PadOf
  <2>2. q = p
    <3>1. q <= p /\ p <= q
      BY <1>3, <2>1 DEF PadOf
    <3> QED BY <1>1, <1>3, <3>1
  <2>3. Put(t.posts, {a0}, c0) = es[k].dir.num - held[a0][c0]
    BY <2>1, <2>2
  <2>4. heldNow[a0][c0] = held[a0][c0] + Put(t.posts, {a0}, c0) /\ held[a0][c0] \in Int
    BY DEF Balances, Gains
  <2>5. heldNow[a0][c0] = es[k].dir.num
    BY <1>7, <2>3, <2>4
  <2>6. /\ new \in Seq(Seq(TransactionType))
        /\ heldNow[a0][c0] = Holds(es, k, {a0}, c0) + Sum(Supplies(new, {a0}, c0), Paddings(new))
    BY <1>5, <1>8 DEF Inserts
  <2>7. Sum(Supplies(new, {a0}, c0), Paddings(new))
          = Sum(Supplies(new, {a0}, c0), AskedBy(es, new, c0, k))
    <3> DEFINE B == {a0}
    <3> HIDE DEF B
    <3>1. Sum(Supplies(new, B, c0), Paddings(new)) = Sum(Supplies(new, B, c0), AskedBy(es, new, c0, k))
      BY ONLY <1>1, <1>6, <2>6, AllAreAsked
    <3> QED BY <3>1 DEF B
  <2> QED BY <1>7, <2>5, <2>6, <2>7 DEF Met
<1>13. MetRun(es, new, k + 1)
  BY <1>11, <1>12, MetNext
<1> QED BY <1>6, <1>9, <1>10, <1>13 DEF PadRun
-----------------------------------------------------------------------------
LEMMA FirstHasPad ==
    ASSUME NEW es \in Seq(Entry), NEW k \in DOMAIN es, NEW pends, PendingRun(es, pends, k),
           NEW p, FirstPadded(es, k, p)
    PROVE  LET b == es[k].dir
           IN  /\ b.kind = "balance" /\ b.acct \in Accounts /\ b.cur \in Currencies
               /\ pends[b.acct] # None /\ pends[b.acct].at = p /\ b.cur \notin pends[b.acct].padded
<1> DEFINE b == es[k].dir
           pend == pends[b.acct]
<1>1. /\ b.kind = "balance" /\ p \in DOMAIN es /\ p < k /\ PadOf(es, p, b.acct)
      /\ \A i \in DOMAIN es : PadOf(es, i, b.acct) /\ i < k => i <= p
      /\ ~AskedFor(es, p, b.cur, k)
  BY DEF FirstPadded, PadOf
<1>2. b.acct \in Accounts /\ b.cur \in Currencies
  BY <1>1, EntryHas
<1>3. InForceRun(es, pend, b.acct, k)
  BY <1>2 DEF PendingRun
<1>4. DOMAIN es \subseteq Nat
  BY EntryHas
<1> HIDE DEF b, pend
<1>5. pend # None
  BY <1>1, <1>3 DEF InForceRun
<1>6. /\ pend.at \in DOMAIN es /\ pend.at < k /\ PadOf(es, pend.at, b.acct)
      /\ \A i \in DOMAIN es : PadOf(es, i, b.acct) /\ i < k => i <= pend.at
      /\ \A c \in Currencies : c \in pend.padded <=> AskedFor(es, pend.at, c, k)
  BY <1>3, <1>5 DEF InForceRun
<1>7. pend.at = p
  <2>1. pend.at <= p /\ p <= pend.at
    BY <1>1, <1>6
  <2> QED BY <1>1, <1>4, <1>6, <2>1
<1>8. b.cur \notin pend.padded
  BY <1>1, <1>2, <1>6, <1>7
<1> QED BY <1>1, <1>2, <1>5, <1>7, <1>8 DEF b, pend

LEMMA RunStarts ==
    ASSUME NEW es \in Seq(Entry), NEW pad, \A k \in DOMAIN pad : pad[k] = <<>>,
           NEW pends, \A a \in Accounts : pends[a] = None
    PROVE  PadRun(es, pad, Zero, Zero, pends, 1)
<1>1. Paddings(pad) = {}
  <2>1. \A k \in DOMAIN pad : DOMAIN pad[k] = {}
    OBVIOUS
  <2>2. \A x : x \notin Paddings(pad)
    BY <2>1, PaddingPlaces
  <2> QED BY <2>2
<1>2. \A i \in DOMAIN es : ~(i < 1)
  BY EntryHas
<1>3. Suppliers(es, pad, 1)
  BY <1>1 DEF Suppliers
<1>4. SumsRun(es, pad, Zero, 1)
  <2> SUFFICES ASSUME NEW a \in Accounts, NEW c \in Currencies
               PROVE  Zero[a][c] = Holds(es, 1, {a}, c) + Sum(Supplies(pad, {a}, c), Paddings(pad))
    BY DEF SumsRun
  <2>1. Zero[a][c] = 0
    BY DEF Zero
  <2>2. Holds(es, 1, {a}, c) = 0
    BY HoldsFirst
  <2>3. Sum(Supplies(pad, {a}, c), Paddings(pad)) = 0
    BY <1>1, SumEmpty
  <2> QED BY <2>1, <2>2, <2>3
<1>5. CostsRun(es, Zero, 1)
  <2> SUFFICES ASSUME NEW a \in Accounts, NEW c \in Currencies
               PROVE  Zero[a][c] = CostHeld(es, 1, a, c)
    BY DEF CostsRun
  <2>1. Zero[a][c] = 0
    BY DEF Zero
  <2>2. TxnsOf(es, 1) = {}
    BY DEF TxnsOf
  <2>3. CostHeld(es, 1, a, c) = 0
    BY <2>2, SumEmpty DEF CostHeld
  <2> QED BY <2>1, <2>3
<1>6. PendingRun(es, pends, 1)
  BY <1>2 DEF PendingRun, InForceRun
<1>7. MetRun(es, pad, 1)
  BY <1>2 DEF MetRun
<1> QED BY <1>3, <1>4, <1>5, <1>6, <1>7 DEF PadRun
-----------------------------------------------------------------------------
(* While the pad pass runs.                                                *)
PadRunInv == stage = "pad" /\ at # 0 => PadRun(entries, padding, sums, costs, pending, at)

LEMMA RunStays ==
    ASSUME PadRunInv, UNCHANGED <<stage, at, entries, padding, sums, costs, pending>>
    PROVE  PadRunInv'
<1>1. stage' = stage /\ at' = at /\ entries' = entries /\ padding' = padding /\ sums' = sums
      /\ costs' = costs /\ pending' = pending
  OBVIOUS
<1> QED BY <1>1 DEF PadRunInv

LEMMA RunBegins ==
    ASSUME Typed, BeginPad
    PROVE  PadRunInv'
<1>1. /\ pending' = [a \in Accounts |-> None] /\ padding' = [k \in DOMAIN entries |-> <<>>]
      /\ entries' = entries /\ entries \in Seq(Entry) /\ sums' = Zero /\ costs' = Zero /\ at' = 1
  BY DEF BeginPad, Begins, ledgerVars, Typed, LedgerInv
<1>2. (\A k \in DOMAIN padding' : padding'[k] = <<>>) /\ \A a \in Accounts : pending'[a] = None
  BY <1>1
<1>3. PadRun(entries, padding', Zero, Zero, pending', 1)
  BY <1>1, <1>2, RunStarts
<1> QED BY <1>1, <1>3 DEF PadRunInv

\* What the pad pass knows at an entry.
LEMMA RunsHere ==
    ASSUME Typed, PadRunInv, NEW kinds, Visits("pad", kinds)
    PROVE  /\ entries \in Seq(Entry) /\ at \in DOMAIN entries /\ at' = at + 1 /\ D = entries[at].dir
           /\ padding \in Seq(Seq(TransactionType)) /\ DOMAIN padding = DOMAIN entries
           /\ sums \in Balances /\ costs \in Balances /\ D.kind \in kinds
           /\ pending \in [Accounts -> PendingPad \cup {None}]
           /\ PadRun(entries, padding, sums, costs, pending, at)
           /\ D.kind = "txn" => D.posts \in Seq(Posting)
           /\ D.kind = "pad" => D.acct \in Accounts
           /\ D.kind = "balance" => D.acct \in Accounts /\ D.cur \in Currencies /\ D.num \in Int
<1>1. /\ D.kind \in kinds /\ stage = "pad" /\ at \in DOMAIN entries /\ at # 0 /\ at' = at + 1
      /\ D.kind = "txn" => D.posts \in Seq(Posting)
      /\ D.kind = "pad" => D.acct \in Accounts
      /\ D.kind = "balance" => D.acct \in Accounts /\ D.cur \in Currencies /\ D.num \in Int
  BY Visited DEF Typed
<1>2. PadRun(entries, padding, sums, costs, pending, at)
  BY <1>1 DEF PadRunInv
<1> QED BY <1>1, <1>2 DEF Typed, LedgerInv, PadInv, SumsInv, D
-----------------------------------------------------------------------------
LEMMA RunGoesOn ==
    ASSUME Typed, PadRunInv, NEW kinds, Visits("pad", kinds), entries' = entries, padding' = padding,
           \A a \in Accounts, c \in Currencies :
              /\ sums'[a][c] = IF D.kind = "txn" THEN sums[a][c] + Put(D.posts, {a}, c) ELSE sums[a][c]
              /\ costs'[a][c] = IF D.kind = "txn" THEN costs[a][c] + Put(AtCost(D.posts), {a}, c)
                                ELSE costs[a][c],
           PendingRun(entries, pending', at + 1),
           \A p \in DOMAIN entries : FirstPadded(entries, at, p) => Met(entries, padding, at)
    PROVE  PadRunInv'
<1>1. /\ entries \in Seq(Entry) /\ at \in DOMAIN entries /\ at' = at + 1 /\ D = entries[at].dir
      /\ padding \in Seq(Seq(TransactionType)) /\ sums \in Balances /\ costs \in Balances
      /\ PadRun(entries, padding, sums, costs, pending, at)
  BY RunsHere
<1>2. \A a \in Accounts, c \in Currencies :
         /\ sums'[a][c] = IF entries[at].dir.kind = "txn"
                          THEN sums[a][c] + Put(entries[at].dir.posts, {a}, c) ELSE sums[a][c]
         /\ costs'[a][c] = IF entries[at].dir.kind = "txn"
                           THEN costs[a][c] + Put(AtCost(entries[at].dir.posts), {a}, c)
                           ELSE costs[a][c]
  BY <1>1
<1>3. /\ PendingRun(entries, pending', at + 1)
      /\ \A p \in DOMAIN entries : FirstPadded(entries, at, p) => Met(entries, padding, at)
  OBVIOUS
<1>4. PadRun(entries, padding, sums', costs', pending', at + 1)
  BY ONLY <1>1, <1>2, <1>3, RunsOn
<1> QED BY <1>1, <1>4 DEF PadRunInv

\* Nothing is moved, no pad is met and none is answered.
LEMMA RunPasses ==
    ASSUME Typed, PadRunInv, NEW kinds, Visits("pad", kinds), "pad" \notin kinds,
           UNCHANGED <<entries, padding, pending>>,
           \A a \in Accounts, c \in Currencies :
              /\ sums'[a][c] = IF D.kind = "txn" THEN sums[a][c] + Put(D.posts, {a}, c) ELSE sums[a][c]
              /\ costs'[a][c] = IF D.kind = "txn" THEN costs[a][c] + Put(AtCost(D.posts), {a}, c)
                                ELSE costs[a][c],
           D.kind = "balance" => \/ pending[D.acct] = None
                                 \/ D.cur \in pending[D.acct].padded
    PROVE  PadRunInv'
<1>1. /\ entries \in Seq(Entry) /\ at \in DOMAIN entries /\ D = entries[at].dir /\ D.kind # "pad"
      /\ PadRun(entries, padding, sums, costs, pending, at)
  BY RunsHere
<1>2. PendingRun(entries, pending, at)
  BY <1>1 DEF PadRun
<1>3. ASSUME NEW a \in Accounts PROVE InForceRun(entries, pending[a], a, at + 1)
  <2>1. InForceRun(entries, pending[a], a, at) /\ ~PadOf(entries, at, a)
    BY <1>1, <1>2 DEF PendingRun, PadOf
  <2>2. ASSUME NEW c \in Currencies, pending[a] # None, Claims(entries, at, a, c)
        PROVE  c \in pending[a].padded
    BY <1>1, <2>2 DEF Claims
  <2> QED BY <1>1, <2>1, <2>2, InForceNext
<1>4. PendingRun(entries, pending', at + 1)
  BY <1>3 DEF PendingRun
<1>5. ASSUME NEW p \in DOMAIN entries, FirstPadded(entries, at, p) PROVE Met(entries, padding, at)
  <2>1. /\ D.kind = "balance" /\ pending[D.acct] # None /\ D.cur \notin pending[D.acct].padded
    BY <1>1, <1>2, <1>5, FirstHasPad
  <2> QED BY <2>1
<1> QED BY <1>4, <1>5, RunGoesOn

LEMMA TransactionRuns ==
    ASSUME Typed, PadRunInv, PadTransaction
    PROVE  PadRunInv'
<1>1. /\ Visits("pad", {"txn"}) /\ sums' = Added(sums, D.posts) /\ costs' = Added(costs, AtCost(D.posts))
      /\ UNCHANGED <<entries, padding, pending>>
  BY DEF PadTransaction, PadFrame, ledgerVars
<1>2. D.kind = "txn"
  BY <1>1, RunsHere
<1>3. \A a \in Accounts, c \in Currencies :
         /\ sums'[a][c] = sums[a][c] + Put(D.posts, {a}, c)
         /\ costs'[a][c] = costs[a][c] + Put(AtCost(D.posts), {a}, c)
  BY <1>1 DEF Added
<1> QED BY <1>1, <1>2, <1>3, RunPasses

LEMMA OthersRun ==
    ASSUME Typed, PadRunInv, NoPad \/ AlreadyPadded \/ PadPasses
    PROVE  PadRunInv'
<1>1. UNCHANGED <<entries, padding, pending, sums, costs>>
  BY DEF NoPad, AlreadyPadded, PadPasses, InForce, Asserts, PadFrame, padVars, ledgerVars
<1>2. CASE NoPad \/ AlreadyPadded
  <2>1. /\ Visits("pad", {"balance"})
        /\ pending[D.acct] = None \/ D.cur \in pending[D.acct].padded
    BY <1>2 DEF NoPad, AlreadyPadded, Padded, InForce, Asserts
  <2>2. D.kind = "balance"
    BY <2>1, RunsHere
  <2> QED BY <1>1, <2>1, <2>2, RunPasses
<1>3. CASE PadPasses
  <2> DEFINE kinds == DOMAIN Rank \ {"txn", "pad", "balance"}
  <2>1. Visits("pad", kinds) /\ "pad" \notin kinds
    BY <1>3 DEF PadPasses
  <2>2. D.kind # "txn" /\ D.kind # "balance"
    BY <2>1, RunsHere
  <2> HIDE DEF kinds
  <2> QED BY <1>1, <2>1, <2>2, RunPasses
<1> QED BY <1>2, <1>3

LEMMA PadRecorded ==
    ASSUME Typed, PadRunInv, RecordPad
    PROVE  PadRunInv'
<1> DEFINE v == [at |-> at, padded |-> {}, used |-> FALSE]
<1>1. /\ Visits("pad", {"pad"}) /\ UNCHANGED <<entries, padding, sums, costs>>
      /\ pending' = [pending EXCEPT ![D.acct] = v]
  BY DEF RecordPad, PadFrame, ledgerVars
<1>2. /\ entries \in Seq(Entry) /\ at \in DOMAIN entries /\ D = entries[at].dir /\ D.kind = "pad"
      /\ D.acct \in Accounts /\ pending \in [Accounts -> PendingPad \cup {None}]
      /\ PadRun(entries, padding, sums, costs, pending, at)
  BY <1>1, RunsHere
<1>3. v.at = at /\ v.padded = {} /\ v # None
  <2>1. v \in PendingPad
    BY <1>2 DEF PendingPad
  <2> QED BY <2>1, NoneIsNoPad
<1> HIDE DEF v
<1>4. PendingRun(entries, pending, at)
  BY <1>2 DEF PadRun
<1>5. ASSUME NEW a \in Accounts PROVE InForceRun(entries, pending'[a], a, at + 1)
  <2>1. CASE a = D.acct
    <3>1. PadOf(entries, at, a) /\ pending'[a] = v
      BY <1>1, <1>2, <2>1 DEF PadOf
    <3> QED BY <1>2, <1>3, <3>1, InForceRecorded
  <2>2. CASE a # D.acct
    <3>1. ~PadOf(entries, at, a) /\ pending'[a] = pending[a] /\ \A c : ~Claims(entries, at, a, c)
      BY <1>1, <1>2, <2>2 DEF PadOf, Claims
    <3>2. InForceRun(entries, pending[a], a, at)
      BY <1>4 DEF PendingRun
    <3> QED BY <1>2, <3>1, <3>2, InForceNext
  <2> QED BY <2>1, <2>2
<1>6. PendingRun(entries, pending', at + 1)
  BY <1>5 DEF PendingRun
<1>7. ASSUME NEW p \in DOMAIN entries, FirstPadded(entries, at, p) PROVE Met(entries, padding, at)
  BY <1>2, <1>7 DEF FirstPadded
<1> QED BY <1>1, <1>2, <1>6, <1>7, RunGoesOn
-----------------------------------------------------------------------------
\* The pad in force has answered for one more currency.
LEMMA AnsweredRuns ==
    ASSUME Typed, PadRunInv, InForce, Answer
    PROVE  /\ PendingRun(entries, pending', at + 1)
           /\ pending[D.acct] # None /\ D.kind = "balance" /\ Visits("pad", {"balance"})
<1>1. Visits("pad", {"balance"}) /\ pending[D.acct] # None
  BY DEF InForce, Asserts
<1>2. /\ entries \in Seq(Entry) /\ at \in DOMAIN entries /\ D = entries[at].dir /\ D.kind = "balance"
      /\ D.acct \in Accounts /\ D.cur \in Currencies
      /\ pending \in [Accounts -> PendingPad \cup {None}]
      /\ PadRun(entries, padding, sums, costs, pending, at)
  BY <1>1, RunsHere
<1>3. pending[D.acct] \in PendingPad
  BY <1>1, <1>2
<1> DEFINE w == [pending[D.acct] EXCEPT !.used = TRUE]
           v == [w EXCEPT !.padded = @ \cup {D.cur}]
<1>4. v \in PendingPad /\ v.at = pending[D.acct].at /\ v.padded = pending[D.acct].padded \cup {D.cur}
  BY <1>2, <1>3 DEF PendingPad
<1>5. pending' = [pending EXCEPT ![D.acct] = v]
  BY <1>2, <1>3 DEF Answer, PendingPad
<1>6. v # None
  BY <1>4, NoneIsNoPad
<1> HIDE DEF v
<1>7. PendingRun(entries, pending, at)
  BY <1>2 DEF PadRun
<1>8. ASSUME NEW a \in Accounts PROVE InForceRun(entries, pending'[a], a, at + 1)
  <2>1. InForceRun(entries, pending[a], a, at)
    BY <1>7 DEF PendingRun
  <2>2. CASE a = D.acct
    <3>1. Claims(entries, at, a, D.cur) /\ pending'[a] = v
      BY <1>2, <1>5, <2>2 DEF Claims
    <3> QED BY <1>1, <1>2, <1>4, <1>6, <2>1, <2>2, <3>1, InForceAnswered
  <2>3. CASE a # D.acct
    <3>1. ~PadOf(entries, at, a) /\ pending'[a] = pending[a] /\ \A c : ~Claims(entries, at, a, c)
      BY <1>2, <1>5, <2>3 DEF PadOf, Claims
    <3> QED BY <1>2, <2>1, <3>1, InForceNext
  <2> QED BY <2>2, <2>3
<1> QED BY <1>1, <1>2, <1>8 DEF PendingRun

\* Before a padding is looked for, the sum of the account is what it holds and
\* what the paddings asked for supply.
LEMMA SumsCountAsked ==
    ASSUME Typed, PadRunInv, Visits("pad", {"balance"})
    PROVE  /\ sums[D.acct][D.cur] = Holds(entries, at, {D.acct}, D.cur)
                + Sum(Supplies(padding, {D.acct}, D.cur), AskedBy(entries, padding, D.cur, at))
           /\ costs[D.acct][D.cur] = CostHeld(entries, at, D.acct, D.cur)
<1>1. /\ entries \in Seq(Entry) /\ at \in DOMAIN entries /\ D = entries[at].dir /\ D.kind = "balance"
      /\ D.acct \in Accounts /\ D.cur \in Currencies /\ padding \in Seq(Seq(TransactionType))
      /\ PadRun(entries, padding, sums, costs, pending, at)
  BY RunsHere
<1>2. DOMAIN entries \subseteq Nat /\ at \in Nat
  BY <1>1, EntryHas
<1>3. Suppliers(entries, padding, at + 1)
  BY <1>1, <1>2, SuppliersNext DEF PadRun
<1> DEFINE A == {D.acct}
           c == D.cur
<1>4. sums[D.acct][D.cur] = Holds(entries, at, A, c) + Sum(Supplies(padding, A, c), Paddings(padding))
  BY <1>1 DEF PadRun, SumsRun
<1>5. costs[D.acct][D.cur] = CostHeld(entries, at, D.acct, D.cur)
  BY <1>1 DEF PadRun, CostsRun
<1> HIDE DEF A, c
<1>6. Sum(Supplies(padding, A, c), Paddings(padding))
        = Sum(Supplies(padding, A, c), AskedBy(entries, padding, c, at))
  BY <1>1, <1>2, <1>3, AllAreAsked
<1> QED BY <1>4, <1>5, <1>6 DEF A, c

LEMMA AnswerRuns ==
    ASSUME Typed, PadRunInv, NothingMissing \/ HeldAtCost
    PROVE  PadRunInv'
<1>1. /\ InForce /\ Answer /\ UNCHANGED <<entries, padding, sums, costs>>
      /\ Delta = 0 \/ costs[D.acct][D.cur] # 0
  BY DEF NothingMissing, HeldAtCost, InForce, Asserts, PadFrame, ledgerVars
<1>2. Visits("pad", {"balance"}) /\ PendingRun(entries, pending', at + 1) /\ D.kind = "balance"
  BY <1>1, AnsweredRuns
<1>3. /\ D = entries[at].dir /\ sums \in Balances /\ D.acct \in Accounts /\ D.cur \in Currencies
      /\ D.num \in Int
  BY <1>2, RunsHere
<1>4. /\ sums[D.acct][D.cur] = Holds(entries, at, {D.acct}, D.cur)
           + Sum(Supplies(padding, {D.acct}, D.cur), AskedBy(entries, padding, D.cur, at))
      /\ costs[D.acct][D.cur] = CostHeld(entries, at, D.acct, D.cur)
  BY <1>2, SumsCountAsked
<1>5. sums[D.acct][D.cur] \in Int
  BY <1>3 DEF Balances
<1>6. sums[D.acct][D.cur] = D.num \/ costs[D.acct][D.cur] # 0
  BY <1>1, <1>3, <1>5 DEF Delta
<1>7. Met(entries, padding, at)
  BY <1>3, <1>4, <1>6 DEF Met
<1> QED BY <1>1, <1>2, <1>7, RunGoesOn

LEMMA LegsPut ==
    ASSUME NEW a \in Accounts, NEW b \in Accounts, a # b, NEW n \in Int, NEW m \in Int,
           D.cur \in Currencies
    PROVE  Put(<<Leg(a, n), Leg(b, m)>>, {a}, D.cur) = n
<1> DEFINE ps == <<Leg(a, n), Leg(b, m)>>
<1>1. Leg(a, n) \in Posting /\ Leg(b, m) \in Posting
  BY LegTypes
<1>2. /\ ps \in Seq(Posting) /\ DOMAIN ps = {1, 2} /\ ps[1] = Leg(a, n) /\ ps[2] = Leg(b, m)
      /\ DOMAIN Nums(ps) = {1, 2}
  <2>1. 1 .. 2 = {1, 2}
    OBVIOUS
  <2> QED BY <1>1, <2>1 DEF Nums
<1> HIDE DEF ps
<1>3. /\ ps[1].acct = a /\ ps[1].num = n /\ ps[1].cur = D.cur /\ ps[2].acct = b
  BY <1>2 DEF Leg
<1>4. n # None
  BY NoneIsNoNumber
<1>5. Into(ps, {a}, D.cur) = {1}
  <2>1. \A k : k \in Into(ps, {a}, D.cur) <=> k = 1
    BY <1>2, <1>3, <1>4 DEF Into, HasAmount
  <2> QED BY <2>1
<1>6. {1} = More({}, 1) /\ Nums(ps)[1] = n
  BY <1>2, <1>3 DEF More, Nums
<1>7. Sum(Nums(ps), More({}, 1)) = n + Sum(Nums(ps), {})
  <2>1. IsFiniteSet({}) /\ 1 \notin {}
    BY FS_EmptySet
  <2>2. \A y \in More({}, 1) : Nums(ps)[y] \in Int
    BY <1>6
  <2> QED BY <1>6, <2>1, <2>2, SumMore
<1>8. Put(ps, {a}, D.cur) = n
  <2> DEFINE A == {a}
             T == More({}, 1)
  <2>1. Into(ps, A, D.cur) = T /\ Sum(Nums(ps), T) = n + Sum(Nums(ps), {})
    BY <1>5, <1>6, <1>7
  <2> HIDE DEF A, T
  <2>2. Put(ps, A, D.cur) = Sum(Nums(ps), Into(ps, A, D.cur))
    BY <1>2, PutIsSum
  <2>3. Sum(Nums(ps), {}) = 0
    BY SumEmpty
  <2>4. Put(ps, A, D.cur) = n + 0
    BY <2>1, <2>2, <2>3
  <2> QED BY <2>4 DEF A
<1> QED BY <1>8 DEF ps

LEMMA InsertionRuns ==
    ASSUME Typed, PadRunInv, InsertPadding
    PROVE  PadRunInv'
<1> DEFINE j == pending[D.acct].at
           p == entries[j].dir
           legs == <<Leg(p.acct, Delta), Leg(p.from, -Delta)>>
           t == [kind |-> "txn", date |-> p.date, file |-> p.file, off |-> p.off,
                 padding |-> TRUE, tags |-> {}, posts |-> legs]
<1>1. /\ Delta \in Int /\ legs \in Seq(Posting) /\ t \in TransactionType
      /\ p \in PadType /\ p.acct = D.acct
  BY InsertedTypes
<1>2. /\ InForce /\ Answer /\ entries' = entries /\ costs' = costs /\ ~Padded
      /\ sums' = Added(sums, legs) /\ padding' = [padding EXCEPT ![j] = Append(@, t)]
  BY DEF InsertPadding, InForce, Asserts, PadFrame, ledgerVars
<1>3. /\ Visits("pad", {"balance"}) /\ PendingRun(entries, pending', at + 1)
      /\ D.kind = "balance" /\ pending[D.acct] # None
  BY <1>2, AnsweredRuns
<1>4. /\ entries \in Seq(Entry) /\ at \in DOMAIN entries /\ at' = at + 1 /\ D = entries[at].dir
      /\ padding \in Seq(Seq(TransactionType)) /\ DOMAIN padding = DOMAIN entries
      /\ sums \in Balances /\ costs \in Balances
      /\ PadRun(entries, padding, sums, costs, pending, at)
      /\ D.acct \in Accounts /\ D.cur \in Currencies /\ D.num \in Int
  BY <1>3, RunsHere
<1>5. /\ Claims(entries, at, D.acct, D.cur) /\ D.cur \notin pending[D.acct].padded
  BY <1>2, <1>3, <1>4 DEF Claims, Padded
<1>6. t.date = p.date /\ t.padding /\ t.posts = legs
  OBVIOUS
<1>7. Pays(legs, D.acct, D.cur)
  <2>1. /\ DOMAIN legs = {1, 2} /\ Len(legs) = 2
        /\ legs[1] = Leg(p.acct, Delta) /\ legs[2] = Leg(p.from, -Delta)
    OBVIOUS
  <2>2. /\ legs[1].acct = D.acct /\ legs[1].cur = D.cur /\ legs[1].cost = None
        /\ legs[2].cur = D.cur /\ legs[2].cost = None
    BY <1>1, <2>1 DEF Leg
  <2> HIDE DEF legs
  <2> QED BY <2>1, <2>2 DEF Pays
<1>8. ASSUME p.from # D.acct PROVE Put(legs, {D.acct}, D.cur) = entries[at].dir.num - sums[D.acct][D.cur]
  <2>1. p.from \in Accounts /\ -Delta \in Int
    BY <1>1 DEF PadType
  <2>2. legs = <<Leg(D.acct, Delta), Leg(p.from, -Delta)>>
    BY <1>1
  <2>3. D.acct # p.from
    BY <1>8
  <2> HIDE DEF legs, p
  <2>4. Put(legs, {D.acct}, D.cur) = Delta
    <3>1. /\ D.acct \in Accounts /\ p.from \in Accounts /\ D.acct # p.from /\ Delta \in Int
          /\ -Delta \in Int /\ D.cur \in Currencies
      BY <1>1, <1>4, <2>1, <2>3
    <3>2. Put(<<Leg(D.acct, Delta), Leg(p.from, -Delta)>>, {D.acct}, D.cur) = Delta
      BY ONLY <3>1, LegsPut
    <3> QED BY ONLY <2>2, <3>2
  <2> QED BY <1>4, <2>4 DEF Delta
<1> HIDE DEF j, p, legs, t
<1>9. \A a \in Accounts, c \in Currencies : sums'[a][c] = sums[a][c] + Put(t.posts, {a}, c)
  BY <1>2, <1>6 DEF Added
<1>10. /\ j = pending[D.acct].at /\ t.date = entries[j].dir.date /\ Pays(t.posts, D.acct, D.cur)
       /\ entries[j].dir.from # D.acct =>
             Put(t.posts, {D.acct}, D.cur) = entries[at].dir.num - sums[D.acct][D.cur]
  BY <1>6, <1>7, <1>8 DEF j, p
<1>11. Fills(entries, at, sums, pending, D.acct, D.cur, j, t)
  BY <1>1, <1>3, <1>4, <1>5, <1>6, <1>10 DEF Fills
<1>12. PadRun(entries, padding', sums', costs, pending', at + 1)
  <2>1. j \in DOMAIN padding
    BY <1>3, <1>4 DEF PadRun, PendingRun, InForceRun, j
  <2>2. Inserts(padding, padding', j, t)
    BY <1>1, <1>2, <1>4, <2>1, PaddingAdded
  <2>3. Gains(sums, sums', t.posts)
    BY <1>9 DEF Gains
  <2> QED BY ONLY <1>3, <1>4, <1>11, <2>2, <2>3, RunsOnPadded
<1> QED BY <1>2, <1>4, <1>12 DEF PadRunInv
-----------------------------------------------------------------------------
LEMMA PadRunKept ==
    ASSUME Typed, PadRunInv, [Next]_vars
    PROVE  PadRunInv'
<1>1. ASSUME stage' # "pad" \/ at' = 0 PROVE PadRunInv'
  BY <1>1 DEF PadRunInv
<1>2. CASE Loading \/ Cancel \/ UNCHANGED vars
  BY <1>2, RunStays DEF Loading, ReadDirective, IncludeFile, ExpandGlob, IncludeMatch, LoadFrame,
     Cancel, vars, padVars, ledgerVars
<1>3. CASE FinishLoading \/ Canceled \/ VerifyDocuments \/ Book \/ BookingHalts
  BY <1>1, <1>3 DEF FinishLoading, Canceled, Fail, VerifyDocuments, Book, BookingHalts, ToPlugins
<1>4. CASE RunPlugins
  <2>1. stage = "plugins" /\ at' = at
    BY <1>4 DEF RunPlugins, UnknownPlugin, RunPlugin, PluginCanceled, PluginChangesNothing,
       PluginFails, EndPlugins, PluginAdds, PluginRemoves, Host, AtPlugin, NextPlugin, Fail
  <2>2. at = 0
    BY <2>1 DEF Typed, PlaceInv, Walks
  <2> QED BY <1>1, <2>1, <2>2
<1>5. CASE Pad
  <2>1. CASE EndPad
    BY <1>1, <2>1 DEF EndPad, Ends
  <2> QED BY <1>5, <2>1, RunBegins, TransactionRuns, PadRecorded, OthersRun, AnswerRuns,
             InsertionRuns DEF Pad
<1>6. CASE Balance
  BY <1>1, <1>6 DEF Balance, BeginBalance, BalanceTransaction, CheckBalance, BalancePasses,
     EndBalance, BalanceFrame, Begins, Visits, Ends
<1>7. CASE Validations
  BY <1>1, <1>7 DEF Validations, BeginValidations, ValidateEntry, EndValidations, Begins, Visits, Ends
<1> QED BY <1>2, <1>3, <1>4, <1>5, <1>6, <1>7 DEF Next, Ended
-----------------------------------------------------------------------------
(* From the end of the pad pass on, what a pad is to supply is there.      *)
SuppliedInv == ~raw /\ stage \in {"balance", "validations", "done"} => SuppliedAll(entries)

LEMMA NothingSupplied ==
    ASSUME NEW es \in Seq(Entry), NEW pad, \A k \in DOMAIN pad : pad[k] = <<>>,
           NEW n \in DOMAIN es, es[n].dir.kind = "balance", Met(es, pad, n)
    PROVE  Supplied(es, n)
<1>1. Paddings(pad) = {}
  <2>1. \A k \in DOMAIN pad : DOMAIN pad[k] = {}
    OBVIOUS
  <2>2. \A x : x \notin Paddings(pad)
    BY <2>1, PaddingPlaces
  <2> QED BY <2>2
<1> DEFINE A == {es[n].dir.acct}
           c == es[n].dir.cur
<1>2. AskedBy(es, pad, c, n) = {}
  BY <1>1 DEF AskedBy
<1>3. Sum(Supplies(pad, A, c), AskedBy(es, pad, c, n)) = 0
  <2> HIDE DEF A, c
  <2> QED BY <1>2, SumEmpty
<1>4. Holds(es, n, A, c) \in Int
  <2>1. n \in 1 .. Len(es) + 1
    OBVIOUS
  <2> HIDE DEF A, c
  <2> QED BY <2>1, HoldsType
<1>5. \/ CostHeld(es, n, es[n].dir.acct, c) # 0
      \/ Holds(es, n, A, c) + Sum(Supplies(pad, A, c), AskedBy(es, pad, c, n)) = es[n].dir.num
  BY DEF Met
<1>6. \/ CostHeld(es, n, es[n].dir.acct, c) # 0
      \/ Holds(es, n, A, c) = es[n].dir.num
  <2> HIDE DEF A, c
  <2> QED BY <1>3, <1>4, <1>5
<1> QED BY <1>6 DEF Supplied

LEMMA PadSupplies ==
    ASSUME Typed, PadRunInv, EndPad
    PROVE  SuppliedAll(entries')
<1> DEFINE ss == [k \in DOMAIN entries |-> <<entries[k].dir>> \o padding[k]]
           ds == FlattenSeq(ss)
<1>1. /\ stage = "pad" /\ at = Len(entries) + 1
      /\ IF \E k \in DOMAIN padding : padding[k] # <<>> THEN ReplaceEntries(ds) ELSE entries' = entries
  BY DEF EndPad, Ends, ledgerVars
<1>2. /\ entries \in Seq(Entry) /\ InOrder(entries) /\ next \in Nat /\ Len(entries) \in Nat
      /\ DOMAIN entries = 1 .. Len(entries) /\ at # 0
  BY <1>1 DEF Typed, LedgerInv
<1>3. /\ padding \in Seq(Seq(TransactionType)) /\ DOMAIN padding = DOMAIN entries
      /\ PadRun(entries, padding, sums, costs, pending, at)
  BY <1>1, <1>2 DEF Typed, PadInv, PadRunInv
<1>4. /\ Suppliers(entries, padding, at)
      /\ \A k \in DOMAIN entries : \A p \in DOMAIN entries :
            FirstPadded(entries, k, p) => Met(entries, padding, k)
  BY <1>1, <1>2, <1>3 DEF PadRun, MetRun
<1>5. CASE \E k \in DOMAIN padding : padding[k] # <<>>
  <2>1. ReplaceEntries(ds)
    BY <1>1, <1>5
  <2>2. \A k \in DOMAIN entries : ss[k] = <<entries[k].dir>> \o padding[k] /\ ss[k] \in Seq(Directive)
    <3> SUFFICES ASSUME NEW k \in DOMAIN entries PROVE ss[k] \in Seq(Directive)
      OBVIOUS
    <3>1. entries[k].dir \in Directive
      BY <1>2, EntryHas
    <3>2. padding[k] \in Seq(TransactionType)
      BY <1>3
    <3>3. padding[k] \in Seq(Directive)
      BY <3>2 DEF Directive
    <3> QED BY <3>1, <3>3
  <2>3. ss = [k \in DOMAIN entries |-> ss[k]] /\ DOMAIN ss = DOMAIN entries
    OBVIOUS
  <2> HIDE DEF ss
  <2>4. ss \in Seq(Seq(Directive))
    BY <1>2, <2>2, <2>3, MadeList
  <2>5. ds \in Seq(Directive)
    BY <2>4, FlattenLays
  <2> HIDE DEF ds
  <2>6. /\ entries' \in Seq(Entry) /\ InOrder(entries')
        /\ \E sel : Permutes(Numbers(ds), entries', sel)
    BY <1>2, <2>1, <2>5, Replacing
  <2>7. PICK sel : Permutes(Numbers(ds), entries', sel)
    BY <2>6
  <2> DEFINE ns == Numbers(ds)
  <2>8. /\ ns \in Seq(Entry) /\ Len(ns) = Len(ds)
        /\ \A k \in DOMAIN ds : ns[k].dir = ds[k] /\ ns[k].seq = next + k - 1
    BY <1>2, <2>5, Numbering
  <2> HIDE DEF ns
  <2>9. /\ Len(ns) = Len(FlattenSeq(ss)) /\ Permutes(ns, entries', sel)
        /\ \A k \in DOMAIN ns : ns[k].dir = FlattenSeq(ss)[k] /\ ns[k].seq = next + k - 1
    <3>1. DOMAIN ns = DOMAIN ds
      BY <2>5, <2>8
    <3> QED BY <2>7, <2>8, <3>1 DEF ds, ns
  <2>10. PICK row, col : Spreads(entries, padding, entries', row, col)
    BY ONLY <1>2, <1>3, <2>2, <2>3, <2>4, <2>6, <2>8, <2>9, MergedSpreads
  <2>11. ASSUME NEW n \in DOMAIN entries', NEW q \in DOMAIN entries', FirstPadded(entries', n, q)
         PROVE  Supplied(entries', n)
    BY ONLY <1>2, <1>3, <1>4, <2>6, <2>10, <2>11, SpreadIsSupplied
  <2> QED BY <2>11 DEF SuppliedAll
<1>6. CASE \A k \in DOMAIN padding : padding[k] = <<>>
  <2>1. entries' = entries
    BY <1>1, <1>6
  <2>2. ASSUME NEW n \in DOMAIN entries, NEW q \in DOMAIN entries, FirstPadded(entries, n, q)
        PROVE  Supplied(entries, n)
    <3>1. Met(entries, padding, n) /\ entries[n].dir.kind = "balance"
      BY <1>4, <2>2 DEF FirstPadded
    <3> QED BY <1>2, <1>6, <3>1, NothingSupplied
  <2> QED BY <2>1, <2>2 DEF SuppliedAll
<1> QED BY <1>5, <1>6
-----------------------------------------------------------------------------
(* Recording a difference changes nothing of what a pad supplies.          *)
Alike(es, fs) ==
    \A k \in DOMAIN es :
       /\ fs[k].dir.kind = es[k].dir.kind
       /\ es[k].dir.kind # "balance" => fs[k].dir = es[k].dir
       /\ es[k].dir.kind = "balance" => /\ fs[k].dir.acct = es[k].dir.acct
                                        /\ fs[k].dir.cur = es[k].dir.cur
                                        /\ fs[k].dir.num = es[k].dir.num
LEMMA JudgedAlike ==
    ASSUME NEW es \in Seq(Entry), NEW fs, \A k \in DOMAIN es : fs[k].dir = Judged(es, k)
    PROVE  Alike(es, fs)
<1> SUFFICES ASSUME NEW k \in DOMAIN es
             PROVE  /\ fs[k].dir.kind = es[k].dir.kind
                    /\ es[k].dir.kind # "balance" => fs[k].dir = es[k].dir
                    /\ es[k].dir.kind = "balance" => /\ fs[k].dir.acct = es[k].dir.acct
                                                     /\ fs[k].dir.cur = es[k].dir.cur
                                                     /\ fs[k].dir.num = es[k].dir.num
  BY DEF Alike
<1>1. fs[k].dir = Judged(es, k)
  OBVIOUS
<1>2. CASE es[k].dir.kind = "balance" /\ ~Within(Off(es, k), es[k].dir.tol)
  <2>1. es[k].dir \in BalanceType
    BY <1>2, EntryHas
  <2>2. fs[k].dir = [es[k].dir EXCEPT !.diff = Off(es, k)]
    BY <1>1, <1>2 DEF Judged
  <2> QED BY <1>2, <2>1, <2>2 DEF BalanceType
<1>3. CASE ~(es[k].dir.kind = "balance" /\ ~Within(Off(es, k), es[k].dir.tol))
  BY <1>1, <1>3 DEF Judged
<1> QED BY <1>2, <1>3

LEMMA AlikeClaims ==
    ASSUME NEW es, NEW fs, DOMAIN es = DOMAIN fs, Alike(es, fs)
    PROVE  /\ \A k \in DOMAIN es : \A a, c : Claims(fs, k, a, c) <=> Claims(es, k, a, c)
           /\ \A k \in DOMAIN es : \A q : FirstPadded(fs, k, q) => FirstPadded(es, k, q)
<1>1. ASSUME NEW k \in DOMAIN es, NEW a, NEW c PROVE Claims(fs, k, a, c) <=> Claims(es, k, a, c)
  BY DEF Claims, Alike
<1>2. ASSUME NEW k \in DOMAIN es, NEW q, FirstPadded(fs, k, q) PROVE FirstPadded(es, k, q)
  <2> DEFINE a == fs[k].dir.acct
             c == fs[k].dir.cur
  <2>1. /\ fs[k].dir.kind = "balance" /\ q \in DOMAIN es /\ q < k
        /\ fs[q].dir.kind = "pad" /\ fs[q].dir.acct = a /\ fs[q].dir.from # a
        /\ \A i \in DOMAIN es : fs[i].dir.kind = "pad" /\ fs[i].dir.acct = a /\ i < k => i <= q
        /\ ~AskedFor(fs, q, c, k)
    BY <1>2 DEF FirstPadded
  <2>2. /\ es[k].dir.kind = "balance" /\ es[k].dir.acct = a /\ es[k].dir.cur = c
        /\ es[q].dir = fs[q].dir
    BY <2>1 DEF Alike
  <2> HIDE DEF a, c
  <2>3. ASSUME NEW i \in DOMAIN es, es[i].dir.kind = "pad", es[i].dir.acct = a, i < k
        PROVE  i <= q
    <3>1. fs[i].dir = es[i].dir
      BY <2>3 DEF Alike
    <3> QED BY <2>1, <2>3, <3>1
  <2>4. ~AskedFor(es, q, c, k)
    <3> SUFFICES ASSUME AskedFor(es, q, c, k) PROVE AskedFor(fs, q, c, k)
      BY <2>1
    <3>1. PICK i \in DOMAIN es : Claims(es, i, es[q].dir.acct, c) /\ q < i /\ i < k
      BY DEF AskedFor
    <3>2. Claims(fs, i, fs[q].dir.acct, c) /\ i \in DOMAIN fs
      BY <1>1, <2>2, <3>1
    <3> QED BY <3>1, <3>2 DEF AskedFor
  <2> QED BY <2>1, <2>2, <2>3, <2>4 DEF FirstPadded
<1> QED BY <1>1, <1>2

LEMMA AlikeSupplied ==
    ASSUME NEW es \in Seq(Entry), NEW fs \in Seq(Entry), Len(es) = Len(fs), Alike(es, fs),
           SuppliedAll(es)
    PROVE  SuppliedAll(fs)
<1>1. DOMAIN es = DOMAIN fs /\ DOMAIN es = 1 .. Len(es) /\ Len(es) \in Nat
  OBVIOUS
<1> SUFFICES ASSUME NEW n \in DOMAIN es, NEW q \in DOMAIN es, FirstPadded(fs, n, q)
             PROVE  Supplied(fs, n)
  BY <1>1 DEF SuppliedAll
<1> DEFINE a == es[n].dir.acct
           c == es[n].dir.cur
<1>2. FirstPadded(es, n, q) /\ \A k \in DOMAIN es : \A b, d : Claims(fs, k, b, d) <=> Claims(es, k, b, d)
  <2>1. \A k \in DOMAIN es : \A x : FirstPadded(fs, k, x) => FirstPadded(es, k, x)
    BY <1>1, AlikeClaims
  <2> QED BY <1>1, <2>1, AlikeClaims
<1>3. /\ es[n].dir.kind = "balance" /\ fs[n].dir.acct = a /\ fs[n].dir.cur = c
      /\ fs[n].dir.num = es[n].dir.num
  BY <1>2 DEF FirstPadded, Alike
<1>4. Supplied(es, n)
  BY <1>2 DEF SuppliedAll
<1> HIDE DEF a, c
<1>5. \A j \in DOMAIN es : /\ es[j].dir.kind = fs[j].dir.kind
                           /\ es[j].dir.kind = "txn" => /\ es[j].dir = fs[j].dir
                                                        /\ es[j].dir.posts = fs[j].dir.posts
  BY DEF Alike
<1>6. n \in 1 .. Len(es) + 1
  BY <1>1
<1>7. Holds(es, n, {a}, c) = Holds(fs, n, {a}, c)
  <2> DEFINE A == {a}
  <2> HIDE DEF A
  <2>1. Holds(es, n, A, c) = Holds(fs, n, A, c)
    BY <1>5, <1>6, HoldsSame
  <2> QED BY <2>1 DEF A
<1>8. CostHeld(es, n, a, c) = CostHeld(fs, n, a, c)
  <2>1. /\ TxnsOf(es, n) \in SUBSET DOMAIN es /\ IsFiniteSet(TxnsOf(es, n))
        /\ \A j \in TxnsOf(es, n) : es[j].dir.kind = "txn"
    BY <1>6, TxnsOfTypes
  <2>2. TxnsOf(fs, n) = TxnsOf(es, n)
    <3>1. \A j \in 1 .. n - 1 : j \in DOMAIN es
      BY <1>1
    <3> QED BY <1>5, <3>1 DEF TxnsOf
  <2>3. \A j \in TxnsOf(es, n) : CostMoves(es, a, c)[j] = CostMoves(fs, a, c)[j]
    BY <1>1, <1>5, <2>1 DEF CostMoves
  <2>4. Sum(CostMoves(es, a, c), TxnsOf(es, n)) = Sum(CostMoves(fs, a, c), TxnsOf(es, n))
    BY <2>1, <2>3, SumSame
  <2> QED BY <2>2, <2>4 DEF CostHeld
<1>9. LaterPadding(es, n) => LaterPadding(fs, n)
  <2> SUFFICES ASSUME LaterPadding(es, n) PROVE LaterPadding(fs, n)
    OBVIOUS
  <2>1. PICK j \in 1 .. n - 1, b \in Accounts :
           /\ es[j].dir.kind = "txn" /\ es[j].dir.padding /\ es[j].dir.posts[1].acct = b
           /\ Put(es[j].dir.posts, {a}, c) # 0
           /\ \A i \in DOMAIN es : Claims(es, i, b, c) => i > n \/ i < j
    BY DEF LaterPadding, a, c
  <2>2. j \in DOMAIN es
    BY <1>1
  <2>3. fs[j].dir = es[j].dir /\ \A i \in DOMAIN fs : Claims(fs, i, b, c) => i > n \/ i < j
    BY <1>1, <1>2, <1>5, <2>1, <2>2
  <2> QED BY <1>3, <2>1, <2>3 DEF LaterPadding
<1> QED BY <1>3, <1>4, <1>7, <1>8, <1>9 DEF Supplied, a, c

LEMMA SuppliedKept ==
    ASSUME Typed, PadRunInv, ExactInv, SuppliedInv, [Next]_vars
    PROVE  SuppliedInv'
<1>1. ASSUME raw' \/ stage' \notin {"balance", "validations", "done"} PROVE SuppliedInv'
  BY <1>1 DEF SuppliedInv
<1>2. ASSUME UNCHANGED <<raw, entries>>, stage \in {"balance", "validations", "done"} PROVE SuppliedInv'
  BY <1>2 DEF SuppliedInv
<1>3. CASE Loading \/ FinishLoading \/ Book \/ BookingHalts \/ VerifyDocuments
  BY <1>1, <1>3 DEF Loading, ReadDirective, IncludeFile, ExpandGlob, IncludeMatch, Visiting,
     LoadFrame, FinishLoading, Book, BookingHalts, VerifyDocuments, ToPlugins
<1>4. CASE Cancel \/ UNCHANGED vars
  <2>1. raw' = raw /\ stage' = stage /\ entries' = entries
    BY <1>4 DEF Cancel, inputs, ledgerVars, vars
  <2> QED BY <2>1 DEF SuppliedInv
<1>5. CASE Canceled
  BY <1>1, <1>5 DEF Canceled, Fail
<1>6. CASE RunPlugins
  <2>1. raw' \/ stage' \notin {"balance", "validations", "done"}
    BY <1>6 DEF RunPlugins, UnknownPlugin, RunPlugin, PluginCanceled, PluginChangesNothing,
       PluginFails, EndPlugins, PluginAdds, PluginRemoves, Host, AtPlugin, NextPlugin, Fail,
       PassFrame, inputs
  <2> QED BY <1>1, <2>1
<1>7. CASE Pad
  <2>1. CASE EndPad
    <3>1. SuppliedAll(entries')
      BY <2>1, PadSupplies
    <3> QED BY <3>1 DEF SuppliedInv
  <2>2. CASE ~EndPad
    <3>1. stage' = "pad"
      BY <1>7, <2>2 DEF Pad, BeginPad, PadTransaction, RecordPad, NoPad, AlreadyPadded, NothingMissing,
         HeldAtCost, InsertPadding, PadPasses, InForce, Asserts, PadFrame, Begins, Visits
    <3> QED BY <1>1, <3>1
  <2> QED BY <2>1, <2>2
<1>8. CASE Balance
  <2>1. CASE EndBalance
    <3>1. /\ entries \in Seq(Entry) /\ entries' \in Seq(Entry) /\ Len(entries') = Len(entries)
          /\ \A k \in DOMAIN entries : entries'[k].dir = Judged(entries, k)
          /\ stage = "balance" /\ stage' = "validations"
      BY <2>1, BalanceJudges
    <3>2. raw' = raw
      BY <2>1 DEF EndBalance, WalkFrame, inputs
    <3>3. Alike(entries, entries')
      BY <3>1, JudgedAlike
    <3>4. SuppliedAll(entries) => SuppliedAll(entries')
      BY <3>1, <3>3, AlikeSupplied
    <3> QED BY <3>1, <3>2, <3>4 DEF SuppliedInv
  <2>2. CASE ~EndBalance
    <3>1. raw' = raw /\ entries' = entries /\ stage = "balance"
      BY <1>8, <2>2 DEF Balance, BeginBalance, BalanceTransaction, CheckBalance, BalancePasses,
         BalanceFrame, Begins, Visits, WalkFrame, inputs, ledgerVars
    <3> QED BY <1>2, <3>1
  <2> QED BY <2>1, <2>2
<1>9. CASE Validations
  <2>1. raw' = raw /\ entries' = entries /\ stage = "validations"
    BY <1>9 DEF Validations, BeginValidations, ValidateEntry, EndValidations, Begins, Visits, Ends,
       ledgerVars, PassFrame, inputs
  <2> QED BY <1>2, <2>1
<1> QED BY <1>3, <1>4, <1>5, <1>6, <1>7, <1>8, <1>9 DEF Next, Ended
-----------------------------------------------------------------------------
LEMMA SumOfCosts ==
    ASSUME NEW es, NEW b, NEW c, NEW S \in SUBSET DOMAIN es, IsFiniteSet(S)
    PROVE  MapThenSumSet(LAMBDA j : Put(AtCost(es[j].dir.posts), {b}, c), S)
             = Sum(CostMoves(es, b, c), S)
<1> DEFINE Right(a) == a = [s \in SUBSET S |->
                IF s = {} THEN 0
                ELSE Put(AtCost(es[Picked(s)].dir.posts), {b}, c) + a[Less(s, Picked(s))]]
           own == CHOOSE a : Right(a)
<1>1. MapThenSumSet(LAMBDA j : Put(AtCost(es[j].dir.posts), {b}, c), S) = own[S]
  BY DEF MapThenSumSet, MapThenFoldSet, Picked, Less
<1>2. PICK sum : Adds(CostMoves(es, b, c), S, sum)
  BY FoldExists
<1>3. \A s \in SUBSET S :
         s # {} => CostMoves(es, b, c)[Picked(s)] = Put(AtCost(es[Picked(s)].dir.posts), {b}, c)
  BY PickedIsIn DEF CostMoves
<1> HIDE DEF CostMoves
<1>4. ASSUME NEW a PROVE Right(a) <=> Adds(CostMoves(es, b, c), S, a)
  BY <1>3 DEF Adds
<1>5. \E a : Right(a)
  BY <1>2, <1>4
<1>6. Right(own)
  BY <1>5
<1> HIDE DEF Right, own
<1>7. own[S] = Sum(CostMoves(es, b, c), S)
  BY <1>4, <1>6, SumIsAdded
<1> QED BY <1>1, <1>7

\* What the properties say of the ledger before an entry is what its entries
\* hold.
LEMMA HeldIsHolds ==
    ASSUME Typed, NEW k \in DOMAIN entries, NEW S, NEW c, NEW b
    PROVE  /\ HeldBefore(k, S, c) = Holds(entries, k, S, c)
           /\ AtCostBefore(k, b, c) = CostHeld(entries, k, b, c)
<1>1. entries \in Seq(Entry) /\ k \in 1 .. Len(entries) + 1
  BY DEF Typed, LedgerInv
<1>2. TxnsBefore(k) = TxnsOf(entries, k)
  BY DEF TxnsBefore, TxnsOf
<1>3. TxnsOf(entries, k) \in SUBSET DOMAIN entries /\ IsFiniteSet(TxnsOf(entries, k))
  BY <1>1, TxnsOfTypes
<1>4. HeldBefore(k, S, c) = Holds(entries, k, S, c)
  BY <1>2, <1>3, SumOfMoves DEF HeldBefore, Holds
<1>5. AtCostBefore(k, b, c) = CostHeld(entries, k, b, c)
  BY <1>2, <1>3, SumOfCosts DEF AtCostBefore, CostHeld
<1> QED BY <1>4, <1>5

\* The pad in force at the first assertion behind it.
LEMMA InForceFirst ==
    ASSUME Typed, NEW k \in DOMAIN entries, entries[k].dir.kind = "balance",
           NEW p \in InForceAt(k, entries[k].dir.acct), FirstUnder(p, k),
           entries[p].dir.from # entries[k].dir.acct
    PROVE  p \in DOMAIN entries /\ FirstPadded(entries, k, p)
<1> DEFINE a == entries[k].dir.acct
           c == entries[k].dir.cur
<1>1. /\ p \in DOMAIN entries /\ entries[p].dir.kind = "pad" /\ entries[p].dir.acct = a /\ p < k
      /\ \A i \in Pads(a) : i < k => i <= p
  BY DEF InForceAt, Pads
<1>2. \A i \in DOMAIN entries : entries[i].dir.kind = "pad" /\ entries[i].dir.acct = a /\ i < k => i <= p
  BY <1>1 DEF Pads
<1>3. ~AskedFor(entries, p, c, k)
  <2> SUFFICES ASSUME AskedFor(entries, p, c, k) PROVE FALSE
    OBVIOUS
  <2>1. PICK i \in DOMAIN entries : Claims(entries, i, a, c) /\ p < i /\ i < k
    BY <1>1 DEF AskedFor
  <2>2. i \in Assertions(a, c)
    BY <2>1 DEF Claims, Assertions
  <2> QED BY <2>1, <2>2 DEF FirstUnder
<1> QED BY <1>1, <1>2, <1>3 DEF FirstPadded

LEMMA LaterIsLater ==
    ASSUME NEW k \in DOMAIN entries, LaterPadding(entries, k)
    PROVE  PaddedLater(k)
<1> DEFINE b == entries[k].dir
<1>1. PICK j \in 1 .. k - 1, a \in Accounts :
         /\ entries[j].dir.kind = "txn" /\ entries[j].dir.padding
         /\ entries[j].dir.posts[1].acct = a
         /\ Put(entries[j].dir.posts, {b.acct}, b.cur) # 0
         /\ \A i \in DOMAIN entries : Claims(entries, i, a, b.cur) => i > k \/ i < j
  BY DEF LaterPadding
<1>2. \A i \in Assertions(a, b.cur) : i > k \/ i < j
  BY <1>1 DEF Assertions, Claims
<1> QED BY <1>1, <1>2 DEF PaddedLater

-----------------------------------------------------------------------------
\* Whatever the ledger, its plugins and its pads, the first assertion in each
\* currency behind a pad holds in the ledger the passes leave, but where the
\* currency is held at cost, a subaccount holds some, the pad takes from the
\* account it pads, or a later assertion pads out of that account at an
\* earlier date (resolveBalance, insertPadding, checkBalance).
THEOREM PaddingsHold == Spec => []PaddedBalancesHold
<1> DEFINE Inv == LoadInv /\ Typed /\ ExactInv /\ PadRunInv /\ SuppliedInv
<1>1. Init => Inv
  <2> SUFFICES ASSUME Init PROVE Inv
    OBVIOUS
  <2>1. ExactInv /\ PadRunInv /\ SuppliedInv
    BY DEF Init, ExactInv, PadRunInv, SuppliedInv, Checked
  <2> QED BY <2>1, Starting, TypesStart
<1>2. Inv /\ [Next]_vars => Inv'
  <2> SUFFICES ASSUME Inv, [Next]_vars PROVE Inv'
    OBVIOUS
  <2>1. LoadInv' /\ Typed'
    BY Stepping, TypesKept
  <2>2. ExactInv' /\ PadRunInv' /\ SuppliedInv'
    BY ExactKept, PadRunKept, SuppliedKept
  <2> QED BY <2>1, <2>2
<1>3. Inv => PaddedBalancesHold
  <2> SUFFICES ASSUME Typed, ExactInv, SuppliedInv, Checked,
                      NEW k \in DOMAIN entries, entries[k].dir.kind = "balance",
                      NEW p \in InForceAt(k, entries[k].dir.acct), FirstUnder(p, k),
                      entries[p].dir.from # entries[k].dir.acct, ~PaddedLater(k),
                      HeldBefore(k, Below[entries[k].dir.acct] \ {entries[k].dir.acct},
                                 entries[k].dir.cur) = 0,
                      AtCostBefore(k, entries[k].dir.acct, entries[k].dir.cur) = 0
               PROVE  entries[k].dir.diff = None
    BY DEF PaddedBalancesHold
  <2> DEFINE a == entries[k].dir.acct
             c == entries[k].dir.cur
             n == entries[k].dir.num
             A == {a}
             below == Below[a] \ {a}
  <2>1. /\ entries \in Seq(Entry) /\ k \in 1 .. Len(entries) + 1
        /\ entries[k].dir \in BalanceType /\ a \in Accounts /\ n \in Int
    BY EntryHas DEF Typed, LedgerInv
  <2>2. entries[k].dir.tol \in Nat
    BY <2>1 DEF BalanceType
  <2>3. p \in DOMAIN entries /\ FirstPadded(entries, k, p)
    BY InForceFirst
  <2>4. Supplied(entries, k)
    BY <2>3 DEF SuppliedInv, SuppliedAll, Checked
  <2>5. CostHeld(entries, k, a, c) = 0
    BY HeldIsHolds
  <2>6. ~LaterPadding(entries, k)
    BY LaterIsLater
  <2>7. Holds(entries, k, A, c) = n
    BY <2>4, <2>5, <2>6 DEF Supplied
  <2>8. Holds(entries, k, below, c) = 0
    BY HeldIsHolds
  <2>9. A \cap below = {} /\ A \cup below = Below[a]
    BY <2>1, BelowIsATree
  <2>10. Holds(entries, k, Below[a], c) = n
    <3> HIDE DEF A, below, c, n
    <3>1. Holds(entries, k, A \cup below, c) = Holds(entries, k, A, c) + Holds(entries, k, below, c)
      BY <2>1, <2>9, HoldsApart
    <3>2. Holds(entries, k, A \cup below, c) = n + 0 /\ n + 0 = n
      <4>1. n \in Int
        BY <2>1
      <4> QED BY <2>7, <2>8, <3>1, <4>1
    <3>3. Holds(entries, k, A \cup below, c) = Holds(entries, k, Below[a], c)
      BY <2>9
    <3> QED BY <3>2, <3>3
  <2>11. Off(entries, k) = 0
    BY <2>1, <2>10 DEF Off
  <2>12. Within(0, entries[k].dir.tol)
    BY <2>2 DEF Within
  <2> QED BY <2>11, <2>12 DEF ExactInv, Exact
<1> QED BY <1>1, <1>2, <1>3, PTL DEF Spec
=============================================================================
