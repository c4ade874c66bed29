---------------------------- MODULE LoaderProofs ----------------------------
(***************************************************************************)
(* What is proved of Loader.                                               *)
(*                                                                         *)
(* Loading: the files reached split into those met (visited) and those the *)
(* work list still asks for; when the list is empty the files met are      *)
(* closed under inclusion, so they are all that the root reaches.          *)
(*                                                                         *)
(* Types: the ledger is in canonical order at every step, since InsertAll  *)
(* sorts it, and every pass and plugin returns directives.                 *)
(*                                                                         *)
(* Lifetimes: what the findings refuse is, while the validations run, what *)
(* the directives visited so far use while it is not open; the canonical   *)
(* order makes the first open and the first close behind it the ones that  *)
(* count.                                                                  *)
(*                                                                         *)
(* Balances: while the balance pass runs its sums are what the entries     *)
(* behind it hold; what it records keeps every directive in its place.     *)
(*                                                                         *)
(* Plugins: the ledger is followed as a set of directives.  A pass or a    *)
(* plugin drops none but transactions, what is left of a transaction moves *)
(* and prices no more than before, and closes come only from close_tree;   *)
(* so what a plugin leaves behind (accounts drained, trees closed, prices  *)
(* implied or compared) is still so when the ledger is done, unless one    *)
(* that may undo it runs later.                                            *)
(*                                                                         *)
(* The first part is about the operators: Those and Sorted arrange what    *)
(* they are given, FlattenSeq joins, MapThenSumSet adds up, and no plugin  *)
(* reports an account as not open.                                         *)
(***************************************************************************)
EXTENDS Loader, TLAPS, SequenceTheorems, FiniteSetTheorems, WellFoundedInduction

\* Natural numbers: a set of them has a least element, and induction.
NatOrder == OpToRel(<, Nat)

LEMMA LeastOf ==
    ASSUME NEW T \in SUBSET Nat, T # {}
    PROVE  \E x \in T : \A y \in T : x <= y
<1>1. IsWellFoundedOn(NatOrder, Nat)
  BY NatLessThanWellFounded DEF NatOrder
<1>2. PICK x \in T : \A y \in T : <<y, x>> \notin NatOrder
  BY <1>1, WFMin
<1>3. ASSUME NEW y \in T PROVE x <= y
  <2>1. x \in Nat /\ y \in Nat /\ <<y, x>> \notin NatOrder
    BY <1>2
  <2> QED BY <2>1 DEF NatOrder, OpToRel
<1> QED BY <1>3

LEMMA SetInduction ==
    ASSUME NEW T, 0 \in T, \A n \in Nat : n \in T => n + 1 \in T
    PROVE  \A n \in Nat : n \in T
<1> SUFFICES ASSUME Nat \ T # {} PROVE FALSE
  OBVIOUS
<1>1. PICK x \in Nat \ T : \A y \in Nat \ T : x <= y
  BY LeastOf
<1>2. x - 1 \in Nat /\ x - 1 \notin Nat \ T
  BY <1>1
<1> QED BY <1>1, <1>2

-----------------------------------------------------------------------------
\* Arranging a finite set D by a strict total order R on it: each element has
\* as many ahead of it as its place says, and every place is taken.
Ahead(Dom, R, i) == {j \in Dom : <<j, i>> \in R}
Orders(R, Dom) ==
    /\ \A i \in Dom : <<i, i>> \notin R
    /\ \A i, j \in Dom : i # j => <<i, j>> \in R \/ <<j, i>> \in R
    /\ \A i, j, k \in Dom : <<i, j>> \in R /\ <<j, k>> \in R => <<i, k>> \in R

LEMMA PlacesAreTaken ==
    ASSUME NEW Dom, IsFiniteSet(Dom), NEW R, Orders(R, Dom)
    PROVE  /\ Cardinality(Dom) \in Nat
           /\ \A i \in Dom : Cardinality(Ahead(Dom, R, i)) \in 0 .. Cardinality(Dom) - 1
           /\ \A i, j \in Dom : <<i, j>> \in R =>
                 Cardinality(Ahead(Dom, R, i)) < Cardinality(Ahead(Dom, R, j))
           /\ \A n \in 0 .. Cardinality(Dom) - 1 :
                 \E i \in Dom : Cardinality(Ahead(Dom, R, i)) = n
<1> DEFINE A(i) == Ahead(Dom, R, i)
           N == Cardinality(Dom)
<1>1. N \in Nat
  BY FS_CardinalityType
<1>2. ASSUME NEW i \in Dom
      PROVE  IsFiniteSet(A(i)) /\ Cardinality(A(i)) \in 0 .. N - 1
  <2>1. A(i) \subseteq Dom \ {i}
    BY DEF Ahead, Orders
  <2>2. IsFiniteSet(Dom \ {i}) /\ Cardinality(Dom \ {i}) = N - 1
    BY FS_RemoveElement
  <2>3. IsFiniteSet(A(i)) /\ Cardinality(A(i)) <= N - 1
    <3> HIDE DEF A, N
    <3> QED BY <2>1, <2>2, FS_Subset
  <2>4. Cardinality(A(i)) \in Nat
    BY <2>3, FS_CardinalityType
  <2> QED BY <1>1, <2>3, <2>4
<1>3. ASSUME NEW i \in Dom, NEW j \in Dom, <<i, j>> \in R
      PROVE  Cardinality(A(i)) < Cardinality(A(j))
  <2>1. A(i) \subseteq A(j) /\ i \in A(j) /\ i \notin A(i)
    BY <1>3 DEF Ahead, Orders
  <2>2. IsFiniteSet(A(j)) /\ Cardinality(A(i)) \in Nat /\ Cardinality(A(j)) \in Nat
    BY <1>2
  <2>3. Cardinality(A(i)) <= Cardinality(A(j)) /\ Cardinality(A(i)) # Cardinality(A(j))
    <3> HIDE DEF A
    <3> QED BY <2>1, <2>2, FS_Subset
  <2> QED BY <2>2, <2>3
<1> DEFINE f == [i \in Dom |-> Cardinality(A(i))]
           P == 0 .. N - 1
<1>4. f \in [Dom -> P]
  BY <1>2
<1>5. \A i, j \in Dom : f[i] = f[j] => i = j
  <2> SUFFICES ASSUME NEW i \in Dom, NEW j \in Dom, f[i] = f[j], i # j PROVE FALSE
    OBVIOUS
  <2>1. <<i, j>> \in R \/ <<j, i>> \in R
    BY DEF Orders
  <2>2. Cardinality(A(i)) = Cardinality(A(j)) /\ Cardinality(A(i)) \in Nat
    BY <1>2
  <2> HIDE DEF A
  <2> QED BY <1>3, <2>1, <2>2
<1>6. IsFiniteSet(P) /\ Cardinality(P) = N
  <2> HIDE DEF N
  <2>1. 0 \in Int /\ N - 1 \in Int
    BY <1>1
  <2>2. /\ IsFiniteSet(0 .. N - 1)
        /\ Cardinality(0 .. N - 1) = IF 0 > N - 1 THEN 0 ELSE (N - 1) - 0 + 1
    BY <2>1, FS_Interval
  <2> QED BY <1>1, <2>2
<1>7. f \in Surjection(Dom, P)
  <2> HIDE DEF f, P
  <2>1. f \in Injection(Dom, P)
    BY <1>4, <1>5 DEF Injection, IsInjective
  <2> QED BY <1>6, <2>1, FS_Injection DEF N
<1>8. ASSUME NEW n \in P PROVE \E i \in Dom : Cardinality(A(i)) = n
  <2>1. PICK i \in Dom : f[i] = n
    <3> HIDE DEF f, P
    <3> QED BY <1>7 DEF Surjection
  <2> QED BY <2>1
<1> QED BY <1>1, <1>2, <1>3, <1>8

\* A choice by place gives each element once, in the order of R.
LEMMA ArrangedByPlace ==
    ASSUME NEW Dom, IsFiniteSet(Dom), NEW R, Orders(R, Dom), NEW ahead,
           \A i \in Dom : ahead[i] = Cardinality(Ahead(Dom, R, i))
    PROVE  LET sel == [k \in 1 .. Cardinality(Dom) |-> CHOOSE i \in Dom : ahead[i] = k - 1]
           IN  /\ \A k \in 1 .. Cardinality(Dom) : sel[k] \in Dom /\ ahead[sel[k]] = k - 1
               /\ \A i \in Dom : \E k \in 1 .. Cardinality(Dom) : sel[k] = i
               /\ \A k, l \in 1 .. Cardinality(Dom) : k < l => <<sel[k], sel[l]>> \in R
<1> DEFINE N == Cardinality(Dom)
           sel == [k \in 1 .. N |-> CHOOSE i \in Dom : ahead[i] = k - 1]
<1>1. N \in Nat
  BY FS_CardinalityType
<1>2. ASSUME NEW k \in 1 .. N PROVE sel[k] \in Dom /\ ahead[sel[k]] = k - 1
  <2>1. k - 1 \in 0 .. N - 1
    BY <1>1
  <2>2. \E i \in Dom : Cardinality(Ahead(Dom, R, i)) = k - 1
    BY <2>1, PlacesAreTaken
  <2>3. \E i \in Dom : ahead[i] = k - 1
    BY <2>2
  <2>4. sel[k] = CHOOSE i \in Dom : ahead[i] = k - 1
    OBVIOUS
  <2> HIDE DEF sel
  <2> QED BY <2>3, <2>4
<1> HIDE DEF sel
<1>3. ASSUME NEW i \in Dom, NEW j \in Dom, ahead[i] = ahead[j] PROVE i = j
  <2> SUFFICES ASSUME i # j PROVE FALSE
    OBVIOUS
  <2>1. <<i, j>> \in R \/ <<j, i>> \in R
    BY DEF Orders
  <2>2. ahead[i] < ahead[j] \/ ahead[j] < ahead[i]
    BY <2>1, PlacesAreTaken
  <2>3. ahead[i] \in Nat /\ ahead[j] \in Nat
    <3>1. ahead[i] \in 0 .. N - 1 /\ ahead[j] \in 0 .. N - 1
      BY PlacesAreTaken
    <3> QED BY <1>1, <3>1
  <2> QED BY <1>3, <2>2, <2>3
<1>4. ASSUME NEW i \in Dom PROVE \E k \in 1 .. N : sel[k] = i
  <2>1. ahead[i] \in 0 .. N - 1
    BY PlacesAreTaken
  <2>2. ahead[i] + 1 \in 1 .. N /\ (ahead[i] + 1) - 1 = ahead[i]
    BY <1>1, <2>1
  <2>3. sel[ahead[i] + 1] \in Dom /\ ahead[sel[ahead[i] + 1]] = ahead[i]
    BY <1>2, <2>2
  <2> QED BY <1>3, <2>2, <2>3
<1>5. ASSUME NEW k \in 1 .. N, NEW l \in 1 .. N, k < l PROVE <<sel[k], sel[l]>> \in R
  <2>1. sel[k] \in Dom /\ sel[l] \in Dom /\ ahead[sel[k]] = k - 1 /\ ahead[sel[l]] = l - 1
    BY <1>2
  <2>2. sel[k] # sel[l]
    BY <1>1, <1>5, <2>1
  <2>3. <<sel[k], sel[l]>> \in R \/ <<sel[l], sel[k]>> \in R
    BY <2>1, <2>2 DEF Orders
  <2>4. <<sel[l], sel[k]>> \in R => ahead[sel[l]] < ahead[sel[k]]
    BY <2>1, PlacesAreTaken
  <2> QED BY <1>1, <1>5, <2>1, <2>3, <2>4
<1> QED BY <1>2, <1>4, <1>5 DEF sel

-----------------------------------------------------------------------------
\* Those(s, K): the items at the places K, in order.  sel[k] is the place of
\* the one that comes k-th.
Chosen(s, K, t, sel) ==
    /\ Len(t) = Cardinality(K)
    /\ \A k \in 1 .. Len(t) : sel[k] \in K /\ t[k] = s[sel[k]]
    /\ \A i \in K : \E k \in 1 .. Len(t) : sel[k] = i
    /\ \A k, l \in 1 .. Len(t) : k < l => sel[k] < sel[l]

LEMMA ThoseAreChosen ==
    ASSUME NEW S, NEW s \in Seq(S), NEW K \in SUBSET DOMAIN s
    PROVE  Those(s, K) \in Seq(S) /\ \E sel : Chosen(s, K, Those(s, K), sel)
<1> DEFINE R == {p \in K \X K : p[1] < p[2]}
           N == Cardinality(K)
           ahead == [i \in K |-> Cardinality({j \in K : j < i})]
           sel == [k \in 1 .. N |-> CHOOSE i \in K : ahead[i] = k - 1]
           t == Those(s, K)
<1>1. DOMAIN s = 1 .. Len(s) /\ Len(s) \in Nat /\ \A i \in DOMAIN s : s[i] \in S
  OBVIOUS
<1>2. K \subseteq 1 .. Len(s)
  BY <1>1
<1>3. IsFiniteSet(K) /\ N \in Nat
  <2>1. IsFiniteSet(1 .. Len(s))
    BY <1>1, FS_Interval
  <2> QED BY <1>2, <2>1, FS_Subset, FS_CardinalityType
<1>4. Orders(R, K)
  BY <1>2 DEF Orders
<1>5. \A i \in K : ahead[i] = Cardinality(Ahead(K, R, i))
  <2> SUFFICES ASSUME NEW i \in K PROVE ahead[i] = Cardinality(Ahead(K, R, i))
    OBVIOUS
  <2>1. Ahead(K, R, i) = {j \in K : j < i}
    BY DEF Ahead
  <2> QED BY <2>1
<1>6. /\ \A k \in 1 .. N : sel[k] \in K /\ ahead[sel[k]] = k - 1
      /\ \A i \in K : \E k \in 1 .. N : sel[k] = i
      /\ \A k, l \in 1 .. N : k < l => <<sel[k], sel[l]>> \in R
  <2> HIDE DEF R, ahead
  <2> QED BY <1>3, <1>4, <1>5, ArrangedByPlace
<1>7. t = [k \in 1 .. N |-> s[sel[k]]]
  <2>1. t = [k \in 1 .. N |-> s[CHOOSE i \in K : ahead[i] = k - 1]]
    BY DEF Those
  <2> DEFINE pick(k) == CHOOSE i \in K : ahead[i] = k - 1
  <2>2. t = [k \in 1 .. N |-> s[pick(k)]]
    BY <2>1
  <2>3. \A k \in 1 .. N : sel[k] = pick(k)
    OBVIOUS
  <2> HIDE DEF t, sel, ahead, pick
  <2> QED BY <2>2, <2>3
<1>8. \A k, l \in 1 .. N : k < l => sel[k] < sel[l]
  BY <1>6
<1> HIDE DEF sel, ahead, R, t
<1>9. t \in [1 .. N -> S]
  BY <1>1, <1>6, <1>7
<1>10. t \in Seq(S) /\ Len(t) = N
  BY <1>3, <1>9, SeqDef
<1>11. Chosen(s, K, t, sel)
  <2> HIDE DEF N
  <2> QED BY <1>6, <1>7, <1>8, <1>10 DEF Chosen, N
<1> QED BY <1>10, <1>11 DEF t

\* What a filter keeps.
LEMMA ThoseHold ==
    ASSUME NEW S, NEW s \in Seq(S), NEW K \in SUBSET DOMAIN s
    PROVE  /\ Those(s, K) \in Seq(S)
           /\ ToSet(Those(s, K)) = {s[k] : k \in K}
<1>1. PICK sel : Chosen(s, K, Those(s, K), sel)
  BY ThoseAreChosen
<1>2. Those(s, K) \in Seq(S)
  BY ThoseAreChosen
<1> DEFINE t == Those(s, K)
<1>3. DOMAIN t = 1 .. Len(t)
  BY <1>2
<1> HIDE DEF t
<1>4. /\ \A k \in DOMAIN t : sel[k] \in K /\ t[k] = s[sel[k]]
      /\ \A i \in K : \E k \in DOMAIN t : sel[k] = i
  BY <1>1, <1>3 DEF Chosen, t
<1>5. ToSet(t) = {s[k] : k \in K}
  BY <1>4 DEF ToSet
<1> QED BY <1>2, <1>5 DEF t
-----------------------------------------------------------------------------
\* Directives: what all have, and what the kind says.
LEMMA DirectiveHas ==
    ASSUME NEW d \in Directive
    PROVE  /\ d.kind \in DOMAIN Rank /\ d.date \in Nat /\ d.file \in Nat /\ d.off \in Nat
           /\ d.file \in FileName
<1>1. FileName \subseteq Nat
  BY FilesArePositive DEF FileName, NoFile
<1>2. DOMAIN Rank = {"plugin", "open", "balance", "pad", "txn", "document", "commodity",
                     "close", "price"}
  BY DEF Rank
<1> QED BY <1>1, <1>2 DEF Directive, PluginType, OpenType, CloseType, BalanceType, PadType,
           TransactionType, DocumentType, CommodityType, PriceType

LEMMA KindIsType ==
    ASSUME NEW d \in Directive
    PROVE  /\ d.kind = "plugin" <=> d \in PluginType
           /\ d.kind = "open" <=> d \in OpenType
           /\ d.kind = "close" <=> d \in CloseType
           /\ d.kind = "balance" <=> d \in BalanceType
           /\ d.kind = "pad" <=> d \in PadType
           /\ d.kind = "txn" <=> d \in TransactionType
           /\ d.kind = "document" <=> d \in DocumentType
           /\ d.kind = "commodity" <=> d \in CommodityType
           /\ d.kind = "price" <=> d \in PriceType
<1>1. /\ d \in PluginType => d.kind = "plugin"
      /\ d \in OpenType => d.kind = "open"
      /\ d \in CloseType => d.kind = "close"
      /\ d \in BalanceType => d.kind = "balance"
      /\ d \in PadType => d.kind = "pad"
      /\ d \in TransactionType => d.kind = "txn"
      /\ d \in DocumentType => d.kind = "document"
      /\ d \in CommodityType => d.kind = "commodity"
      /\ d \in PriceType => d.kind = "price"
  BY DEF PluginType, OpenType, CloseType, BalanceType, PadType,
           TransactionType, DocumentType, CommodityType, PriceType
<1> QED BY <1>1 DEF Directive

Entry == [dir : Directive, seq : Nat]

\* The canonical order: the first difference decides.
LEMMA EarlierIsLexical ==
    ASSUME NEW k, NEW l
    PROVE  Earlier(k, l) <=>
             \/ k[1] < l[1]
             \/ k[1] = l[1] /\ k[2] < l[2]
             \/ k[1] = l[1] /\ k[2] = l[2] /\ k[3] < l[3]
             \/ k[1] = l[1] /\ k[2] = l[2] /\ k[3] = l[3] /\ k[4] < l[4]
             \/ k[1] = l[1] /\ k[2] = l[2] /\ k[3] = l[3] /\ k[4] = l[4] /\ k[5] < l[5]
<1> DEFINE Up(i) == k[i] < l[i] /\ \A j \in 1 .. i - 1 : k[j] = l[j]
<1>1. Earlier(k, l) <=> Up(1) \/ Up(2) \/ Up(3) \/ Up(4) \/ Up(5)
  <2>1. 1 .. 5 = {1, 2, 3, 4, 5}
    OBVIOUS
  <2>2. Earlier(k, l) <=> \E i \in {1, 2, 3, 4, 5} : Up(i)
    BY <2>1 DEF Earlier
  <2> HIDE DEF Up
  <2> QED BY <2>2
<1>2. /\ Up(1) <=> k[1] < l[1]
      /\ Up(2) <=> k[2] < l[2] /\ k[1] = l[1]
      /\ Up(3) <=> k[3] < l[3] /\ k[1] = l[1] /\ k[2] = l[2]
  <2>1. 1 .. 1 - 1 = {} /\ 1 .. 2 - 1 = {1} /\ 1 .. 3 - 1 = {1, 2}
    OBVIOUS
  <2> QED BY <2>1
<1>3. /\ Up(4) <=> k[4] < l[4] /\ k[1] = l[1] /\ k[2] = l[2] /\ k[3] = l[3]
      /\ Up(5) <=> k[5] < l[5] /\ k[1] = l[1] /\ k[2] = l[2] /\ k[3] = l[3] /\ k[4] = l[4]
  <2>1. 1 .. 4 - 1 = {1, 2, 3} /\ 1 .. 5 - 1 = {1, 2, 3, 4}
    OBVIOUS
  <2> QED BY <2>1
<1> HIDE DEF Up
<1> QED BY <1>1, <1>2, <1>3

\* Entry e comes before f.
LEMMA BeforeIsLexical ==
    ASSUME NEW e \in Entry, NEW f \in Entry
    PROVE  /\ Before(e, f) <=>
                \/ e.dir.date < f.dir.date
                \/ /\ e.dir.date = f.dir.date
                   /\ \/ Rank[e.dir.kind] < Rank[f.dir.kind]
                      \/ /\ Rank[e.dir.kind] = Rank[f.dir.kind]
                         /\ \/ e.dir.file < f.dir.file
                            \/ /\ e.dir.file = f.dir.file
                               /\ \/ e.dir.off < f.dir.off
                                  \/ e.dir.off = f.dir.off /\ e.seq < f.seq
           /\ e.dir.date \in Nat /\ Rank[e.dir.kind] \in Nat /\ e.dir.file \in Nat
           /\ e.dir.off \in Nat /\ e.seq \in Nat
<1>1. /\ e.dir.date \in Nat /\ e.dir.kind \in DOMAIN Rank /\ e.dir.file \in Nat
      /\ e.dir.off \in Nat /\ e.seq \in Nat
  BY DirectiveHas DEF Entry
<1>2. Rank[e.dir.kind] \in Nat
  BY <1>1 DEF Rank
<1>3. /\ Key(e)[1] = e.dir.date /\ Key(e)[2] = Rank[e.dir.kind] /\ Key(e)[3] = e.dir.file
      /\ Key(e)[4] = e.dir.off /\ Key(e)[5] = e.seq
  BY DEF Key
<1>4. /\ Key(f)[1] = f.dir.date /\ Key(f)[2] = Rank[f.dir.kind] /\ Key(f)[3] = f.dir.file
      /\ Key(f)[4] = f.dir.off /\ Key(f)[5] = f.seq
  BY DEF Key
<1>5. Before(e, f) <=> Earlier(Key(e), Key(f))
  BY DEF Before
<1> QED BY <1>1, <1>2, <1>3, <1>4, <1>5, EarlierIsLexical

LEMMA BeforeIsOrder ==
    ASSUME NEW e \in Entry, NEW f \in Entry, NEW g \in Entry
    PROVE  /\ ~Before(e, e)
           /\ e.seq # f.seq => Before(e, f) \/ Before(f, e)
           /\ Before(e, f) /\ Before(f, g) => Before(e, g)
           /\ Before(e, f) => e.dir.date <= f.dir.date
<1> USE BeforeIsLexical
<1>1. ~Before(e, e)
  OBVIOUS
<1>2. e.seq # f.seq => Before(e, f) \/ Before(f, e)
  OBVIOUS
<1>3. Before(e, f) /\ Before(f, g) => Before(e, g)
  OBVIOUS
<1>4. Before(e, f) => e.dir.date <= f.dir.date
  OBVIOUS
<1> QED BY <1>1, <1>2, <1>3, <1>4

InOrder(es) == \A k, l \in DOMAIN es : k < l => Before(es[k], es[l])
Numbered(es) == \A k, l \in DOMAIN es : k # l => es[k].seq # es[l].seq
\* t has the entries of s, each once, where sel says.
Permutes(s, t, sel) ==
    /\ Len(t) = Len(s)
    /\ \A k \in DOMAIN t : sel[k] \in DOMAIN s /\ t[k] = s[sel[k]]
    /\ \A i \in DOMAIN s : \E k \in DOMAIN t : sel[k] = i
    /\ \A k, l \in DOMAIN t : k # l => sel[k] # sel[l]

\* Sorting entries with different numbers puts each in its place.
LEMMA SortingArranges ==
    ASSUME NEW es \in Seq(Entry), Numbered(es)
    PROVE  /\ Sorted(es) \in Seq(Entry) /\ Len(Sorted(es)) = Len(es) /\ InOrder(Sorted(es))
           /\ \E sel : Permutes(es, Sorted(es), sel)
<1> DEFINE Dom == DOMAIN es
           R == {p \in Dom \X Dom : Before(es[p[1]], es[p[2]])}
           N == Cardinality(Dom)
           keys == [i \in Dom |-> Key(es[i])]
           ahead == [i \in Dom |-> Cardinality({j \in Dom : Earlier(keys[j], keys[i])})]
           sel == [k \in 1 .. N |-> CHOOSE i \in Dom : ahead[i] = k - 1]
           t == Sorted(es)
<1>1. Dom = 1 .. Len(es) /\ Len(es) \in Nat /\ \A i \in Dom : es[i] \in Entry
  OBVIOUS
<1>2. IsFiniteSet(Dom) /\ N = Len(es)
  BY <1>1, FS_Interval
<1>3. \A i, j \in Dom : <<i, j>> \in R <=> Before(es[i], es[j])
  OBVIOUS
<1>4. Orders(R, Dom)
  <2>1. \A i \in Dom : ~Before(es[i], es[i])
    BY <1>1, BeforeIsOrder
  <2>2. \A i, j \in Dom : i # j => Before(es[i], es[j]) \/ Before(es[j], es[i])
    BY <1>1, BeforeIsOrder DEF Numbered
  <2>3. \A i, j, k \in Dom : Before(es[i], es[j]) /\ Before(es[j], es[k]) => Before(es[i], es[k])
    <3> HIDE DEF Dom
    <3> QED BY <1>1, BeforeIsOrder
  <2> HIDE DEF R, Dom
  <2> QED BY <1>3, <2>1, <2>2, <2>3 DEF Orders
<1>5. \A i \in Dom : ahead[i] = Cardinality(Ahead(Dom, R, i))
  <2> SUFFICES ASSUME NEW i \in Dom PROVE ahead[i] = Cardinality(Ahead(Dom, R, i))
    OBVIOUS
  <2>1. \A j \in Dom : Earlier(keys[j], keys[i]) <=> <<j, i>> \in R
    BY DEF Before
  <2>2. ahead[i] = Cardinality({j \in Dom : Earlier(keys[j], keys[i])})
    OBVIOUS
  <2> HIDE DEF R, Dom, keys, ahead
  <2>3. Ahead(Dom, R, i) = {j \in Dom : Earlier(keys[j], keys[i])}
    BY <2>1 DEF Ahead
  <2> QED BY <2>2, <2>3
<1>6. /\ \A k \in 1 .. N : sel[k] \in Dom /\ ahead[sel[k]] = k - 1
      /\ \A i \in Dom : \E k \in 1 .. N : sel[k] = i
      /\ \A k, l \in 1 .. N : k < l => <<sel[k], sel[l]>> \in R
  <2>1. IsFiniteSet(Dom)
    BY <1>2
  <2> HIDE DEF R, ahead, Dom
  <2> QED BY <2>1, <1>4, <1>5, ArrangedByPlace
<1>7. t = [k \in Dom |-> es[sel[k]]]
  <2> DEFINE pick(k) == CHOOSE i \in Dom : ahead[i] = k - 1
  <2>1. t = [k \in Dom |-> es[pick(k)]]
    BY DEF Sorted
  <2>2. \A k \in 1 .. N : sel[k] = pick(k)
    OBVIOUS
  <2>3. Dom = 1 .. N
    BY <1>1, <1>2
  <2> HIDE DEF t, sel, ahead, pick, Dom, N
  <2> QED BY <2>1, <2>2, <2>3
<1> HIDE DEF sel, ahead, keys, R, t
<1>8. Dom = 1 .. N /\ N \in Nat
  BY <1>1, <1>2
<1> HIDE DEF Dom, N
<1>9. t \in [1 .. N -> Entry]
  BY <1>1, <1>6, <1>7, <1>8
<1>10. t \in Seq(Entry) /\ Len(t) = N /\ DOMAIN t = 1 .. N
  BY <1>8, <1>9, SeqDef
<1>11. InOrder(t)
  <2> SUFFICES ASSUME NEW k \in DOMAIN t, NEW l \in DOMAIN t, k < l
               PROVE  Before(t[k], t[l])
    BY DEF InOrder
  <2>1. <<sel[k], sel[l]>> \in R /\ sel[k] \in Dom /\ sel[l] \in Dom
    BY <1>6, <1>10
  <2>2. t[k] = es[sel[k]] /\ t[l] = es[sel[l]]
    BY <1>7, <1>8, <1>10
  <2> QED BY <1>3, <2>1, <2>2
<1>12. Permutes(es, t, sel)
  <2>1. Len(t) = Len(es)
    BY <1>2, <1>10
  <2>2. \A k \in DOMAIN t : sel[k] \in Dom /\ t[k] = es[sel[k]]
    BY <1>6, <1>7, <1>8, <1>10
  <2>3. \A i \in Dom : \E k \in DOMAIN t : sel[k] = i
    BY <1>6, <1>10
  <2>4. ASSUME NEW k \in DOMAIN t, NEW l \in DOMAIN t, k # l PROVE sel[k] # sel[l]
    <3>1. k \in 1 .. N /\ l \in 1 .. N /\ (k < l \/ l < k)
      BY <1>8, <1>10, <2>4
    <3>2. \A i \in Dom : <<i, i>> \notin R
      BY <1>4 DEF Orders
    <3>3. sel[k] \in Dom
      BY <2>2
    <3> QED BY <1>6, <3>1, <3>2, <3>3
  <2> QED BY <2>1, <2>2, <2>3, <2>4 DEF Permutes, Dom
<1> QED BY <1>2, <1>10, <1>11, <1>12 DEF t
-----------------------------------------------------------------------------

\* Min and Max give them.
LEMMA MinOf ==
    ASSUME NEW T \in SUBSET Nat, T # {}
    PROVE  Min(T) \in T /\ \A y \in T : Min(T) <= y
BY LeastOf DEF Min


\* FlattenSeq is what its recursion says.
Flattens(ss, f, n) ==
    f = [i \in 1 .. n |-> IF i = 1 THEN ss[i] ELSE f[i - 1] \o ss[i]]

LEMMA FlatteningExists ==
    ASSUME NEW ss
    PROVE  \A n \in Nat : \E f : Flattens(ss, f, n)
<1> DEFINE T == {n \in Nat : \E f : Flattens(ss, f, n)}
<1>1. 0 \in T
  <2>1. Flattens(ss, [i \in 1 .. 0 |-> 0], 0)
    BY DEF Flattens
  <2> QED BY <2>1
<1>2. ASSUME NEW n \in Nat, n \in T PROVE n + 1 \in T
  <2>1. PICK f : Flattens(ss, f, n)
    BY <1>2
  <2> DEFINE last == IF n = 0 THEN ss[1] ELSE f[n] \o ss[n + 1]
             g == [i \in 1 .. n + 1 |-> IF i = n + 1 THEN last ELSE f[i]]
  <2>2. ASSUME NEW i \in 1 .. n + 1
        PROVE  g[i] = IF i = 1 THEN ss[i] ELSE g[i - 1] \o ss[i]
    <3>1. CASE i = n + 1
      <4>1. CASE n = 0
        BY <3>1, <4>1
      <4>2. CASE n # 0
        <5>1. n \in 1 .. n + 1 /\ n # n + 1 /\ i # 1 /\ i - 1 = n
          BY <3>1, <4>2
        <5>2. g[n] = f[n] /\ g[n + 1] = last
          <6> HIDE DEF last
          <6> QED BY <3>1, <5>1
        <5>3. last = f[n] \o ss[n + 1]
          BY <4>2
        <5> HIDE DEF g, last
        <5> QED BY <3>1, <5>1, <5>2, <5>3
      <4> QED BY <4>1, <4>2
    <3>2. CASE i # n + 1
      <4>1. i \in 1 .. n /\ g[i] = f[i]
        BY <3>2
      <4>2. f[i] = IF i = 1 THEN ss[i] ELSE f[i - 1] \o ss[i]
        BY <2>1, <4>1 DEF Flattens
      <4>3. i # 1 => g[i - 1] = f[i - 1]
        BY <4>1
      <4> QED BY <4>1, <4>2, <4>3
    <3> QED BY <3>1, <3>2
  <2>3. g = [i \in 1 .. n + 1 |-> IF i = 1 THEN ss[i] ELSE g[i - 1] \o ss[i]]
    <3> HIDE DEF last
    <3>1. g = [i \in 1 .. n + 1 |-> g[i]]
      OBVIOUS
    <3> HIDE DEF g
    <3> QED BY <2>2, <3>1
  <2> HIDE DEF g, last
  <2>4. Flattens(ss, g, n + 1)
    BY <2>3 DEF Flattens
  <2> QED BY <2>4
<1>3. \A n \in Nat : n \in T => n + 1 \in T
  BY <1>2
<1> HIDE DEF T
<1>4. \A n \in Nat : n \in T
  BY <1>1, <1>3, SetInduction
<1> QED BY <1>4 DEF T

LEMMA FlattenIsRecursive ==
    ASSUME NEW S, NEW ss \in Seq(Seq(S)), ss # <<>>
    PROVE  \E f \in [1 .. Len(ss) -> Seq(S)] :
              /\ FlattenSeq(ss) = f[Len(ss)]
              /\ f[1] = ss[1]
              /\ \A i \in 1 .. Len(ss) - 1 : f[i + 1] = f[i] \o ss[i + 1]
<1> DEFINE N == Len(ss)
           f == CHOOSE f : Flattens(ss, f, N)
<1>1. N \in Nat /\ N > 0 /\ DOMAIN ss = 1 .. N
  OBVIOUS
<1>2. Flattens(ss, f, N)
  BY <1>1, FlatteningExists
<1>3. FlattenSeq(ss) = f[N]
  BY <1>1 DEF FlattenSeq, Flattens
<1> HIDE DEF f, N
<1>4. f = [i \in 1 .. N |-> f[i]]
  BY <1>2 DEF Flattens
<1>5. \A i \in 1 .. N : f[i] = IF i = 1 THEN ss[i] ELSE f[i - 1] \o ss[i]
  BY <1>2 DEF Flattens
<1>6. f[1] = ss[1]
  BY <1>1, <1>5
<1>7. \A i \in 1 .. N - 1 : f[i + 1] = f[i] \o ss[i + 1]
  <2> SUFFICES ASSUME NEW i \in 1 .. N - 1 PROVE f[i + 1] = f[i] \o ss[i + 1]
    OBVIOUS
  <2>1. i + 1 \in 1 .. N /\ i + 1 # 1 /\ (i + 1) - 1 = i
    BY <1>1
  <2> QED BY <1>5, <2>1
<1>8. \A i \in 1 .. N : ss[i] \in Seq(S)
  BY <1>1
<1> DEFINE T == {n \in Nat : n + 1 \in 1 .. N => f[n + 1] \in Seq(S)}
<1>9. 0 \in T
  BY <1>1, <1>6, <1>8
<1>10. ASSUME NEW n \in Nat, n \in T PROVE n + 1 \in T
  <2> SUFFICES ASSUME (n + 1) + 1 \in 1 .. N PROVE f[(n + 1) + 1] \in Seq(S)
    OBVIOUS
  <2>1. n + 1 \in 1 .. N - 1 /\ n + 1 \in 1 .. N
    BY <1>1
  <2>2. f[n + 1] \in Seq(S) /\ ss[(n + 1) + 1] \in Seq(S)
    BY <1>8, <1>10, <2>1
  <2>3. f[(n + 1) + 1] = f[n + 1] \o ss[(n + 1) + 1]
    BY <1>7, <2>1
  <2> QED BY <2>2, <2>3
<1>11. \A n \in Nat : n \in T
  <2> HIDE DEF T
  <2> QED BY <1>9, <1>10, SetInduction
<1>12. \A i \in 1 .. N : f[i] \in Seq(S)
  <2> SUFFICES ASSUME NEW i \in 1 .. N PROVE f[i] \in Seq(S)
    OBVIOUS
  <2>1. i - 1 \in Nat /\ (i - 1) + 1 = i
    BY <1>1
  <2>2. i - 1 \in T
    BY <1>11, <2>1
  <2> QED BY <2>1, <2>2
<1> HIDE DEF T
<1>13. f \in [1 .. N -> Seq(S)]
  BY <1>4, <1>12
<1> QED BY <1>3, <1>6, <1>7, <1>13 DEF N

\* t has each item of the first n sequences of ss once, and nothing else: its
\* item k is the one at col[k] of the sequence row[k].
Lays(ss, n, t, row, col) ==
    /\ \A k \in 1 .. Len(t) : /\ row[k] \in 1 .. n /\ col[k] \in 1 .. Len(ss[row[k]])
                              /\ t[k] = ss[row[k]][col[k]]
    /\ \A k, l \in 1 .. Len(t) : row[k] = row[l] /\ col[k] = col[l] => k = l
    /\ \A k, l \in 1 .. Len(t) : row[k] < row[l] => k < l
    /\ \A i \in 1 .. n : \A j \in 1 .. Len(ss[i]) :
          \E k \in 1 .. Len(t) : row[k] = i /\ col[k] = j

LEMMA LaysOneMore ==
    ASSUME NEW S, NEW ss \in Seq(Seq(S)), NEW n \in Nat, n + 1 \in 1 .. Len(ss),
           NEW t \in Seq(S), NEW row, NEW col, Lays(ss, n, t, row, col)
    PROVE  \E r, c : Lays(ss, n + 1, t \o ss[n + 1], r, c)
<1> DEFINE u == ss[n + 1]
           tu == t \o u
           m == Len(t)
           r == [k \in 1 .. m + Len(u) |-> IF k <= m THEN row[k] ELSE n + 1]
           c == [k \in 1 .. m + Len(u) |-> IF k <= m THEN col[k] ELSE k - m]
<1>1. u \in Seq(S) /\ Len(u) \in Nat /\ m \in Nat
  OBVIOUS
<1>2. /\ Len(tu) = m + Len(u)
      /\ \A k \in 1 .. m : k \in 1 .. Len(tu) /\ tu[k] = t[k] /\ r[k] = row[k] /\ c[k] = col[k]
      /\ \A k \in 1 .. Len(u) : /\ m + k \in 1 .. Len(tu) /\ tu[m + k] = u[k]
                                /\ r[m + k] = n + 1 /\ c[m + k] = k
  BY <1>1
<1>3. \A k \in 1 .. Len(tu) : k \in 1 .. m \/ (k - m \in 1 .. Len(u) /\ k = m + (k - m))
  BY <1>1, <1>2
<1>4. u = ss[n + 1]
  OBVIOUS
<1> HIDE DEF u, tu, m, r, c
<1>5. /\ \A k \in 1 .. m : /\ row[k] \in 1 .. n /\ col[k] \in 1 .. Len(ss[row[k]])
                           /\ t[k] = ss[row[k]][col[k]]
      /\ \A k, l \in 1 .. m : row[k] = row[l] /\ col[k] = col[l] => k = l
      /\ \A i \in 1 .. n : \A j \in 1 .. Len(ss[i]) :
            \E k \in 1 .. m : row[k] = i /\ col[k] = j
  BY DEF Lays, m
<1>6. ASSUME NEW k \in 1 .. Len(tu)
      PROVE  /\ r[k] \in 1 .. n + 1 /\ c[k] \in 1 .. Len(ss[r[k]])
             /\ tu[k] = ss[r[k]][c[k]]
  <2>1. CASE k \in 1 .. m
    <3>1. tu[k] = t[k] /\ r[k] = row[k] /\ c[k] = col[k]
      BY <1>2, <2>1
    <3>2. /\ row[k] \in 1 .. n /\ col[k] \in 1 .. Len(ss[row[k]])
          /\ t[k] = ss[row[k]][col[k]]
      BY <1>5, <2>1
    <3>3. row[k] \in 1 .. n + 1
      BY <3>2
    <3> QED BY <3>1, <3>2, <3>3
  <2>2. CASE k - m \in 1 .. Len(u) /\ k = m + (k - m)
    <3> DEFINE j == k - m
    <3>1. j \in 1 .. Len(u) /\ k = m + j
      BY <2>2
    <3> HIDE DEF j
    <3>2. tu[k] = u[j] /\ r[k] = n + 1 /\ c[k] = j
      BY <1>2, <3>1
    <3> QED BY <1>4, <3>1, <3>2
  <2> QED BY <1>3, <2>1, <2>2
<1>7. ASSUME NEW k \in 1 .. Len(tu), NEW l \in 1 .. Len(tu), r[k] = r[l], c[k] = c[l]
      PROVE  k = l
  <2>1. \A x \in 1 .. m : r[x] # n + 1
    BY <1>2, <1>5
  <2>2. \A x \in 1 .. Len(tu) : x \in 1 .. m \/ (r[x] = n + 1 /\ x = m + c[x])
    <3> SUFFICES ASSUME NEW x \in 1 .. Len(tu), x \notin 1 .. m
                 PROVE  r[x] = n + 1 /\ x = m + c[x]
      OBVIOUS
    <3> DEFINE j == x - m
    <3>1. j \in 1 .. Len(u) /\ x = m + j
      BY <1>3
    <3> HIDE DEF j
    <3> QED BY <1>2, <3>1
  <2>3. CASE k \in 1 .. m
    BY <1>2, <1>5, <1>7, <2>1, <2>2, <2>3
  <2>4. CASE k \notin 1 .. m
    BY <1>2, <1>5, <1>7, <2>1, <2>2, <2>4
  <2> QED BY <2>3, <2>4
<1>8. ASSUME NEW i \in 1 .. n + 1, NEW j \in 1 .. Len(ss[i])
      PROVE  \E k \in 1 .. Len(tu) : r[k] = i /\ c[k] = j
  <2>1. CASE i = n + 1
    BY <1>2, <1>4, <2>1
  <2>2. CASE i # n + 1
    <3>1. i \in 1 .. n
      BY <2>2
    <3>2. PICK k \in 1 .. m : row[k] = i /\ col[k] = j
      BY <1>5, <3>1
    <3> QED BY <1>2, <3>2
  <2> QED BY <2>1, <2>2
<1>9. ASSUME NEW k \in 1 .. Len(tu), NEW l \in 1 .. Len(tu), r[k] < r[l]
      PROVE  k < l
  <2>1. \A x \in 1 .. m : r[x] = row[x] /\ row[x] \in 1 .. n
    BY <1>2, <1>5
  <2>2. \A x \in 1 .. Len(tu) : x \in 1 .. m \/ (r[x] = n + 1 /\ x > m)
    <3> SUFFICES ASSUME NEW x \in 1 .. Len(tu), x \notin 1 .. m
                 PROVE  r[x] = n + 1 /\ x > m
      OBVIOUS
    <3> DEFINE j == x - m
    <3>1. j \in 1 .. Len(u) /\ x = m + j
      BY <1>3
    <3> HIDE DEF j
    <3> QED BY <1>1, <1>2, <3>1
  <2>3. CASE k \in 1 .. m /\ l \in 1 .. m
    <3>1. row[k] < row[l]
      BY <1>9, <2>1, <2>3
    <3>2. \A x, y \in 1 .. m : row[x] < row[y] => x < y
      BY DEF Lays, m
    <3> QED BY <2>3, <3>1, <3>2
  <2>4. CASE k \in 1 .. m /\ l \notin 1 .. m
    BY <1>1, <2>2, <2>4
  <2>5. CASE k \notin 1 .. m
    <3>1. r[k] = n + 1
      BY <2>2, <2>5
    <3>2. r[l] \in 1 .. n + 1
      BY <1>6
    <3> QED BY <1>9, <3>1, <3>2
  <2> QED BY <2>3, <2>4, <2>5
<1>10. Lays(ss, n + 1, tu, r, c)
  BY <1>6, <1>7, <1>8, <1>9 DEF Lays
<1> QED BY <1>10 DEF tu, u

\* FlattenSeq keeps every item, once.
LEMMA FlattenLays ==
    ASSUME NEW S, NEW ss \in Seq(Seq(S))
    PROVE  /\ FlattenSeq(ss) \in Seq(S)
           /\ \E row, col : Lays(ss, Len(ss), FlattenSeq(ss), row, col)
<1>1. CASE ss = <<>>
  <2>1. FlattenSeq(ss) = <<>> /\ Len(ss) = 0
    BY <1>1 DEF FlattenSeq
  <2>2. Lays(ss, 0, <<>>, <<>>, <<>>)
    BY DEF Lays
  <2> QED BY <2>1, <2>2
<1>2. CASE ss # <<>>
  <2> DEFINE N == Len(ss)
  <2>1. PICK f \in [1 .. N -> Seq(S)] :
              /\ FlattenSeq(ss) = f[N]
              /\ f[1] = ss[1]
              /\ \A i \in 1 .. N - 1 : f[i + 1] = f[i] \o ss[i + 1]
    BY <1>2, FlattenIsRecursive
  <2>2. N \in Nat /\ N > 0 /\ ss[1] \in Seq(S) /\ Len(ss[1]) \in Nat
    BY <1>2
  <2> DEFINE T == {n \in Nat : n + 1 \in 1 .. N =>
                                 \E row, col : Lays(ss, n + 1, f[n + 1], row, col)}
  <2>3. 0 \in T
    <3> DEFINE one == [k \in 1 .. Len(ss[1]) |-> 1]
               id == [k \in 1 .. Len(ss[1]) |-> k]
    <3>1. Lays(ss, 1, ss[1], one, id)
      BY <2>2 DEF Lays
    <3>2. 0 + 1 = 1
      OBVIOUS
    <3> QED BY <2>1, <3>1, <3>2
  <2>4. ASSUME NEW n \in Nat, n \in T PROVE n + 1 \in T
    <3> SUFFICES ASSUME (n + 1) + 1 \in 1 .. N
                 PROVE  \E row, col : Lays(ss, (n + 1) + 1, f[(n + 1) + 1], row, col)
      OBVIOUS
    <3>1. n + 1 \in 1 .. N - 1 /\ n + 1 \in 1 .. N /\ n + 1 \in Nat
      BY <2>2
    <3>2. PICK row, col : Lays(ss, n + 1, f[n + 1], row, col)
      BY <2>4, <3>1
    <3>3. f[n + 1] \in Seq(S)
      BY <2>1, <3>1
    <3>4. f[(n + 1) + 1] = f[n + 1] \o ss[(n + 1) + 1]
      BY <2>1, <3>1
    <3> HIDE DEF T
    <3> QED BY <3>1, <3>2, <3>3, <3>4, LaysOneMore
  <2>5. \A n \in Nat : n \in T
    <3> HIDE DEF T
    <3> QED BY <2>3, <2>4, SetInduction
  <2>6. N - 1 \in Nat /\ (N - 1) + 1 = N /\ N \in 1 .. N
    BY <2>2
  <2>7. \E row, col : Lays(ss, N, f[N], row, col)
    <3>1. N - 1 \in T
      BY <2>5, <2>6
    <3> HIDE DEF N
    <3> QED BY <2>6, <3>1
  <2>8. FlattenSeq(ss) = f[N]
    BY <2>1
  <2>9. f[N] \in Seq(S)
    BY <2>1, <2>6
  <2> HIDE DEF N
  <2>10. \E row, col : Lays(ss, N, FlattenSeq(ss), row, col)
    BY <2>7, <2>8
  <2> QED BY <2>8, <2>9, <2>10 DEF N
<1> QED BY <1>1, <1>2

-----------------------------------------------------------------------------
(* Sums over finite sets: what MapThenSumSet returns does not depend on    *)
(* the order in which it takes the elements.                               *)

Sum(f, S) == MapThenSumSet(LAMBDA x : f[x], S)

\* The fold takes the element picked first.
Picked(s) == CHOOSE x \in s : TRUE
Less(s, x) == s \ {x}
More(s, x) == s \cup {x}

Adds(f, S, sum) ==
    sum = [s \in SUBSET S |-> IF s = {} THEN 0 ELSE f[Picked(s)] + sum[Less(s, Picked(s))]]

LEMMA SumFolds ==
    ASSUME NEW f, NEW S
    PROVE  Sum(f, S) = (CHOOSE sum : Adds(f, S, sum))[S]
BY DEF Sum, MapThenSumSet, MapThenFoldSet, Adds, Picked, Less

LEMMA PickedIsIn == \A s : s # {} => Picked(s) \in s
BY DEF Picked

LEMMA Lessens ==
    ASSUME NEW s, IsFiniteSet(s), NEW x \in s
    PROVE  /\ IsFiniteSet(Less(s, x)) /\ Less(s, x) \subseteq s /\ x \notin Less(s, x)
           /\ Cardinality(s) \in Nat /\ Cardinality(Less(s, x)) \in Nat
           /\ Cardinality(s) = Cardinality(Less(s, x)) + 1
<1>1. IsFiniteSet(Less(s, x)) /\ Cardinality(Less(s, x)) = Cardinality(s) - 1
  BY FS_RemoveElement DEF Less
<1>2. Cardinality(s) \in Nat /\ Cardinality(Less(s, x)) \in Nat
  BY <1>1, FS_CardinalityType
<1>3. Less(s, x) \subseteq s /\ x \notin Less(s, x)
  BY DEF Less
<1> QED BY <1>1, <1>2, <1>3

\* The function the fold is defined by exists: here it is right for sets of up
\* to n elements.
Part(f, S, sum, n) ==
    \A s \in SUBSET S : Cardinality(s) <= n =>
        sum[s] = IF s = {} THEN 0 ELSE f[Picked(s)] + sum[Less(s, Picked(s))]

LEMMA FoldExists ==
    ASSUME NEW f, NEW S, IsFiniteSet(S)
    PROVE  \E sum : Adds(f, S, sum)
<1> DEFINE T == {n \in Nat : \E sum : Part(f, S, sum, n)}
<1>1. \A s \in SUBSET S : IsFiniteSet(s) /\ Cardinality(s) \in Nat
  BY FS_Subset, FS_CardinalityType
<1>2. 0 \in T
  <2> DEFINE zero == [s \in SUBSET S |-> 0]
  <2>1. \A s \in SUBSET S : Cardinality(s) <= 0 => s = {} /\ zero[s] = 0
    BY <1>1, FS_EmptySet
  <2>2. Part(f, S, zero, 0)
    BY <2>1 DEF Part
  <2> QED BY <2>2
<1>3. ASSUME NEW n \in Nat, n \in T PROVE n + 1 \in T
  <2>1. PICK sum : Part(f, S, sum, n)
    BY <1>3
  <2> DEFINE more == [s \in SUBSET S |-> IF Cardinality(s) <= n THEN sum[s]
                                         ELSE f[Picked(s)] + sum[Less(s, Picked(s))]]
  <2>2. ASSUME NEW s \in SUBSET S, Cardinality(s) <= n + 1
        PROVE  more[s] = IF s = {} THEN 0 ELSE f[Picked(s)] + more[Less(s, Picked(s))]
    <3>1. CASE s = {}
      <4>1. Cardinality(s) <= n
        BY <3>1, FS_EmptySet
      <4>2. sum[s] = 0
        BY <2>1, <3>1, <4>1 DEF Part
      <4> QED BY <3>1, <4>1, <4>2
    <3>2. CASE s # {}
      <4>1. Picked(s) \in s
        BY <3>2, PickedIsIn
      <4>2. /\ Less(s, Picked(s)) \in SUBSET S
            /\ Cardinality(Less(s, Picked(s))) \in Nat
            /\ Cardinality(s) = Cardinality(Less(s, Picked(s))) + 1
        BY <1>1, <4>1, Lessens
      <4>3. Cardinality(Less(s, Picked(s))) <= n
        BY <2>2, <4>2
      <4>4. more[Less(s, Picked(s))] = sum[Less(s, Picked(s))]
        BY <4>2, <4>3
      <4>5. more[s] = f[Picked(s)] + sum[Less(s, Picked(s))]
        <5>1. CASE Cardinality(s) <= n
          <6>1. sum[s] = f[Picked(s)] + sum[Less(s, Picked(s))]
            BY <2>1, <3>2, <5>1 DEF Part
          <6> QED BY <5>1, <6>1
        <5>2. CASE ~(Cardinality(s) <= n)
          BY <5>2
        <5> QED BY <5>1, <5>2
      <4> HIDE DEF more
      <4> QED BY <3>2, <4>4, <4>5
    <3> QED BY <3>1, <3>2
  <2> HIDE DEF more
  <2>3. Part(f, S, more, n + 1)
    BY <2>2 DEF Part
  <2> QED BY <2>3
<1>4. \A n \in Nat : n \in T => n + 1 \in T
  BY <1>3
<1> HIDE DEF T
<1>5. Cardinality(S) \in T
  BY <1>1, <1>2, <1>4, SetInduction
<1>6. PICK sum : Part(f, S, sum, Cardinality(S))
  BY <1>5 DEF T
<1> DEFINE whole == [s \in SUBSET S |-> sum[s]]
<1>7. ASSUME NEW s \in SUBSET S
      PROVE  whole[s] = IF s = {} THEN 0 ELSE f[Picked(s)] + whole[Less(s, Picked(s))]
  <2>1. Cardinality(s) <= Cardinality(S)
    BY FS_Subset
  <2>2. whole[s] = IF s = {} THEN 0 ELSE f[Picked(s)] + sum[Less(s, Picked(s))]
    BY <1>6, <2>1 DEF Part
  <2>3. Less(s, Picked(s)) \in SUBSET S
    BY DEF Less
  <2> QED BY <2>2, <2>3
<1>8. whole = [s \in SUBSET S |-> whole[s]]
  OBVIOUS
<1> HIDE DEF whole
<1>9. Adds(f, S, whole)
  BY <1>7, <1>8 DEF Adds
<1> QED BY <1>9

Agree(f, g, S) == \A x \in S : f[x] = g[x]

\* The fold of a set is that of any larger one, and depends on the values in
\* the set alone.
LEMMA FoldsAgree ==
    ASSUME NEW f, NEW g, NEW S, NEW R, IsFiniteSet(S), IsFiniteSet(R),
           NEW a, NEW b, Adds(f, S, a), Adds(g, R, b)
    PROVE  \A s : s \subseteq S /\ s \subseteq R /\ Agree(f, g, s) => a[s] = b[s]
<1> DEFINE Same(s) == s \subseteq S /\ s \subseteq R /\ Agree(f, g, s)
           T == {n \in Nat : \A s : Same(s) /\ Cardinality(s) = n => a[s] = b[s]}
<1>1. /\ \A s \in SUBSET S : a[s] = IF s = {} THEN 0 ELSE f[Picked(s)] + a[Less(s, Picked(s))]
      /\ \A s \in SUBSET R : b[s] = IF s = {} THEN 0 ELSE g[Picked(s)] + b[Less(s, Picked(s))]
  BY DEF Adds
<1>2. \A s \in SUBSET S : IsFiniteSet(s) /\ Cardinality(s) \in Nat
  BY FS_Subset, FS_CardinalityType
<1>3. 0 \in T
  <2>1. ASSUME NEW s, Same(s), Cardinality(s) = 0 PROVE a[s] = b[s]
    <3>1. s = {}
      BY <1>2, <2>1, FS_EmptySet
    <3> QED BY <1>1, <3>1
  <2> QED BY <2>1
<1>4. ASSUME NEW n \in Nat, n \in T PROVE n + 1 \in T
  <2>1. ASSUME NEW s, Same(s), Cardinality(s) = n + 1 PROVE a[s] = b[s]
    <3>1. s # {}
      BY <1>2, <2>1, FS_EmptySet
    <3>2. Picked(s) \in s
      BY <3>1, PickedIsIn
    <3>3. Less(s, Picked(s)) \subseteq s /\ Cardinality(Less(s, Picked(s))) = n
      <4>1. /\ Less(s, Picked(s)) \subseteq s /\ Cardinality(Less(s, Picked(s))) \in Nat
            /\ Cardinality(s) = Cardinality(Less(s, Picked(s))) + 1
        BY <1>2, <2>1, <3>2, Lessens
      <4> QED BY <2>1, <4>1
    <3>4. Same(Less(s, Picked(s)))
      BY <2>1, <3>3 DEF Agree
    <3>5. a[Less(s, Picked(s))] = b[Less(s, Picked(s))]
      BY <1>4, <3>3, <3>4
    <3>6. f[Picked(s)] = g[Picked(s)]
      BY <2>1, <3>2 DEF Agree
    <3> QED BY <1>1, <2>1, <3>1, <3>5, <3>6
  <2> QED BY <2>1
<1>5. \A n \in Nat : n \in T => n + 1 \in T
  BY <1>4
<1> HIDE DEF T
<1>6. \A n \in Nat : n \in T
  BY <1>3, <1>5, SetInduction
<1> QED BY <1>2, <1>6 DEF T

LEMMA SumIsAdded ==
    ASSUME NEW f, NEW S, IsFiniteSet(S), NEW sum, Adds(f, S, sum), NEW s \in SUBSET S
    PROVE  sum[s] = Sum(f, s)
<1> DEFINE own == CHOOSE a : Adds(f, s, a)
<1>1. IsFiniteSet(s)
  BY FS_Subset
<1>2. Adds(f, s, own)
  BY <1>1, FoldExists
<1>3. Sum(f, s) = own[s]
  BY SumFolds
<1> HIDE DEF own
<1>4. s \subseteq S /\ s \subseteq s /\ Agree(f, f, s)
  BY DEF Agree
<1>5. sum[s] = own[s]
  BY <1>1, <1>2, <1>4, FoldsAgree
<1> QED BY <1>3, <1>5

LEMMA SumRecurs ==
    ASSUME NEW f, NEW S, IsFiniteSet(S)
    PROVE  Sum(f, S) = IF S = {} THEN 0 ELSE f[Picked(S)] + Sum(f, Less(S, Picked(S)))
<1>1. PICK sum : Adds(f, S, sum)
  BY FoldExists
<1>2. sum[S] = IF S = {} THEN 0 ELSE f[Picked(S)] + sum[Less(S, Picked(S))]
  BY <1>1 DEF Adds
<1>3. sum[S] = Sum(f, S)
  BY <1>1, SumIsAdded
<1>4. Less(S, Picked(S)) \in SUBSET S
  BY DEF Less
<1>5. sum[Less(S, Picked(S))] = Sum(f, Less(S, Picked(S)))
  BY <1>1, <1>4, SumIsAdded
<1> QED BY <1>2, <1>3, <1>5

\* A fold that takes its values from another expression is the same sum.
LEMMA SumSame ==
    ASSUME NEW f, NEW g, NEW S, IsFiniteSet(S), \A x \in S : f[x] = g[x]
    PROVE  Sum(f, S) = Sum(g, S)
<1>1. PICK a : Adds(f, S, a)
  BY FoldExists
<1>2. PICK b : Adds(g, S, b)
  BY FoldExists
<1>3. a[S] = b[S]
  <2>1. Agree(f, g, S) /\ S \subseteq S
    BY DEF Agree
  <2> QED BY <1>1, <1>2, <2>1, FoldsAgree
<1>4. a[S] = Sum(f, S) /\ b[S] = Sum(g, S)
  BY <1>1, <1>2, SumIsAdded
<1> QED BY <1>3, <1>4

LEMMA SumEmpty == \A f : Sum(f, {}) = 0
BY FS_EmptySet, SumRecurs

\* Inductions are over the number of elements.
OfSize(S, n) == IsFiniteSet(S) /\ Cardinality(S) = n

LEMMA OneLess ==
    ASSUME NEW S, NEW n \in Nat, OfSize(S, n + 1), NEW x \in S
    PROVE  OfSize(Less(S, x), n)
<1>1. /\ IsFiniteSet(Less(S, x)) /\ Cardinality(Less(S, x)) \in Nat
      /\ Cardinality(S) = Cardinality(Less(S, x)) + 1
  BY Lessens DEF OfSize
<1>2. Cardinality(Less(S, x)) = n
  BY <1>1 DEF OfSize
<1> QED BY <1>1, <1>2 DEF OfSize

LEMMA NotEmpty ==
    ASSUME NEW S, NEW n \in Nat, OfSize(S, n + 1)
    PROVE  S # {} /\ Picked(S) \in S /\ IsFiniteSet(S)
<1>1. S # {}
  BY FS_EmptySet DEF OfSize
<1> QED BY <1>1, PickedIsIn DEF OfSize

LEMMA SizeZero == \A S : OfSize(S, 0) => S = {}
BY FS_EmptySet DEF OfSize

LEMMA HasSize ==
    ASSUME NEW S, IsFiniteSet(S)
    PROVE  Cardinality(S) \in Nat /\ OfSize(S, Cardinality(S))
BY FS_CardinalityType DEF OfSize

LEMMA SumType ==
    ASSUME NEW f, NEW S, IsFiniteSet(S), \A x \in S : f[x] \in Int
    PROVE  Sum(f, S) \in Int
<1> DEFINE T == {n \in Nat : \A R : R \subseteq S /\ OfSize(R, n) => Sum(f, R) \in Int}
<1>1. 0 \in T
  BY SizeZero, SumEmpty
<1>2. ASSUME NEW n \in Nat, n \in T PROVE n + 1 \in T
  <2>1. ASSUME NEW R, R \subseteq S, OfSize(R, n + 1) PROVE Sum(f, R) \in Int
    <3>1. R # {} /\ Picked(R) \in R /\ IsFiniteSet(R)
      BY <2>1, NotEmpty
    <3>2. OfSize(Less(R, Picked(R)), n) /\ Less(R, Picked(R)) \subseteq S
      BY <2>1, <3>1, OneLess DEF Less
    <3>3. Sum(f, Less(R, Picked(R))) \in Int
      BY <1>2, <3>2
    <3>4. Sum(f, R) = f[Picked(R)] + Sum(f, Less(R, Picked(R)))
      BY <3>1, SumRecurs
    <3>5. f[Picked(R)] \in Int
      BY <2>1, <3>1
    <3> QED BY <3>3, <3>4, <3>5
  <2> QED BY <2>1
<1>3. \A n \in Nat : n \in T => n + 1 \in T
  BY <1>2
<1> HIDE DEF T
<1>4. Cardinality(S) \in T
  BY <1>1, <1>3, HasSize, SetInduction
<1> QED BY <1>4, HasSize DEF T

\* Any element may be taken first.
LEMMA SumLess ==
    ASSUME NEW f, NEW S, IsFiniteSet(S), \A x \in S : f[x] \in Int, NEW x \in S
    PROVE  Sum(f, S) = f[x] + Sum(f, Less(S, x))
<1> DEFINE T == {n \in Nat : \A R : R \subseteq S /\ OfSize(R, n) =>
                     \A y \in R : Sum(f, R) = f[y] + Sum(f, Less(R, y))}
<1>1. 0 \in T
  BY SizeZero
<1>2. ASSUME NEW n \in Nat, n \in T PROVE n + 1 \in T
  <2>1. ASSUME NEW R, R \subseteq S, OfSize(R, n + 1), NEW y \in R
        PROVE  Sum(f, R) = f[y] + Sum(f, Less(R, y))
    <3> DEFINE p == Picked(R)
    <3>1. p \in R /\ IsFiniteSet(R) /\ Sum(f, R) = f[p] + Sum(f, Less(R, p))
      BY <2>1, NotEmpty, SumRecurs
    <3> HIDE DEF p
    <3>2. /\ OfSize(Less(R, p), n) /\ Less(R, p) \subseteq S
          /\ OfSize(Less(R, y), n) /\ Less(R, y) \subseteq S
      BY <2>1, <3>1, OneLess DEF Less
    <3>3. CASE p = y
      BY <3>1, <3>3
    <3>4. CASE p # y
      <4>1. y \in Less(R, p) /\ p \in Less(R, y) /\ Less(Less(R, p), y) = Less(Less(R, y), p)
        BY <2>1, <3>1, <3>4 DEF Less
      <4>2. Sum(f, Less(R, p)) = f[y] + Sum(f, Less(Less(R, p), y))
        BY <1>2, <3>2, <4>1
      <4>3. Sum(f, Less(R, y)) = f[p] + Sum(f, Less(Less(R, p), y))
        BY <1>2, <3>2, <4>1
      <4>4. f[y] \in Int /\ f[p] \in Int
        BY <2>1, <3>1
      <4>5. Sum(f, Less(Less(R, p), y)) \in Int
        <5>1. IsFiniteSet(Less(R, p)) /\ Less(Less(R, p), y) \subseteq S
          BY <3>2 DEF OfSize, Less
        <5>2. IsFiniteSet(Less(Less(R, p), y))
          BY <4>1, <5>1, Lessens
        <5> QED BY <5>1, <5>2, SumType
      <4> QED BY <3>1, <4>2, <4>3, <4>4, <4>5
    <3> QED BY <3>3, <3>4
  <2> QED BY <2>1
<1>3. \A n \in Nat : n \in T => n + 1 \in T
  BY <1>2
<1> HIDE DEF T
<1>4. Cardinality(S) \in T
  BY <1>1, <1>3, HasSize, SetInduction
<1> QED BY <1>4, HasSize DEF T

LEMMA SumMore ==
    ASSUME NEW f, NEW S, IsFiniteSet(S), NEW x, x \notin S,
           \A y \in More(S, x) : f[y] \in Int
    PROVE  IsFiniteSet(More(S, x)) /\ Sum(f, More(S, x)) = f[x] + Sum(f, S)
<1>1. IsFiniteSet(More(S, x))
  BY FS_AddElement DEF More
<1>2. x \in More(S, x) /\ Less(More(S, x), x) = S
  BY DEF More, Less
<1>3. Sum(f, More(S, x)) = f[x] + Sum(f, Less(More(S, x), x))
  BY <1>1, <1>2, SumLess
<1> QED BY <1>1, <1>2, <1>3

\* What adds nothing may be left out.
LEMMA SumOfZeros ==
    ASSUME NEW f, NEW S, IsFiniteSet(S), \A x \in S : f[x] \in Int, NEW R \in SUBSET S,
           \A x \in S \ R : f[x] = 0
    PROVE  Sum(f, S) = Sum(f, R)
<1> DEFINE T == {n \in Nat : \A Q : Q \subseteq S /\ R \subseteq Q /\ OfSize(Q, n)
                                        => Sum(f, Q) = Sum(f, R)}
<1>1. 0 \in T
  <2>1. ASSUME NEW Q, R \subseteq Q, OfSize(Q, 0) PROVE Q = R
    BY <2>1, SizeZero
  <2> QED BY <2>1
<1>2. ASSUME NEW n \in Nat, n \in T PROVE n + 1 \in T
  <2>1. ASSUME NEW Q, Q \subseteq S, R \subseteq Q, OfSize(Q, n + 1)
        PROVE  Sum(f, Q) = Sum(f, R)
    <3>1. CASE Q = R
      BY <3>1
    <3>2. CASE Q # R
      <4>1. PICK x \in Q : x \notin R
        BY <2>1, <3>2
      <4>2. OfSize(Less(Q, x), n) /\ Less(Q, x) \subseteq S /\ R \subseteq Less(Q, x)
        BY <2>1, <4>1, OneLess DEF Less
      <4>3. Sum(f, Less(Q, x)) = Sum(f, R)
        BY <1>2, <4>2
      <4>4. Sum(f, Q) = f[x] + Sum(f, Less(Q, x)) /\ f[x] = 0
        BY <2>1, <4>1, SumLess DEF OfSize
      <4>5. Sum(f, Less(Q, x)) \in Int
        BY <4>2, SumType DEF OfSize
      <4> QED BY <4>3, <4>4, <4>5
    <3> QED BY <3>1, <3>2
  <2> QED BY <2>1
<1>3. \A n \in Nat : n \in T => n + 1 \in T
  BY <1>2
<1> HIDE DEF T
<1>4. Cardinality(S) \in T
  BY <1>1, <1>3, HasSize, SetInduction
<1> QED BY <1>4, HasSize DEF T

\* Disjoint sets.
LEMMA SumOfBoth ==
    ASSUME NEW f, NEW S, NEW R, IsFiniteSet(S), IsFiniteSet(R),
           \A x \in S \cup R : f[x] \in Int, \A x \in R : x \notin S
    PROVE  Sum(f, S \cup R) = Sum(f, S) + Sum(f, R)
<1> DEFINE T == {n \in Nat : \A Q : Q \subseteq R /\ OfSize(Q, n)
                                        => Sum(f, S \cup Q) = Sum(f, S) + Sum(f, Q)}
<1>1. 0 \in T
  <2>1. Sum(f, S) \in Int
    BY SumType
  <2>2. ASSUME NEW Q, OfSize(Q, 0) PROVE Sum(f, S \cup Q) = Sum(f, S) + Sum(f, Q)
    <3>1. Q = {} /\ S \cup Q = S
      BY <2>2, SizeZero
    <3> QED BY <2>1, <3>1, SumEmpty
  <2> QED BY <2>2
<1>2. ASSUME NEW n \in Nat, n \in T PROVE n + 1 \in T
  <2>1. ASSUME NEW Q, Q \subseteq R, OfSize(Q, n + 1)
        PROVE  Sum(f, S \cup Q) = Sum(f, S) + Sum(f, Q)
    <3> DEFINE x == Picked(Q)
               q == Less(Q, x)
    <3>1. x \in Q /\ IsFiniteSet(Q)
      BY <2>1, NotEmpty
    <3> HIDE DEF x
    <3>2. OfSize(q, n) /\ q \subseteq R
      BY <2>1, <3>1, OneLess DEF Less
    <3>3. Less(S \cup Q, x) = S \cup q /\ IsFiniteSet(S \cup Q) /\ IsFiniteSet(q)
      <4>1. x \notin S
        BY <2>1, <3>1
      <4> QED BY <3>1, <3>2, <4>1, FS_Union DEF Less, OfSize
    <3> HIDE DEF q
    <3>4. Sum(f, S \cup q) = Sum(f, S) + Sum(f, q)
      BY <1>2, <3>2
    <3>5. Sum(f, S \cup Q) = f[x] + Sum(f, S \cup q)
      <4> DEFINE W == S \cup Q
      <4>1. IsFiniteSet(W) /\ x \in W /\ \A y \in W : f[y] \in Int
        BY <2>1, <3>1, <3>3
      <4> HIDE DEF W
      <4>2. Sum(f, W) = f[x] + Sum(f, Less(W, x))
        BY <4>1, SumLess
      <4> QED BY <3>3, <4>2 DEF W
    <3>6. Sum(f, Q) = f[x] + Sum(f, q)
      BY <2>1, <3>1, SumLess DEF q
    <3>7. Sum(f, S) \in Int /\ Sum(f, q) \in Int /\ f[x] \in Int
      BY <2>1, <3>1, <3>2, <3>3, SumType
    <3> QED BY <3>4, <3>5, <3>6, <3>7
  <2> QED BY <2>1
<1>3. \A n \in Nat : n \in T => n + 1 \in T
  BY <1>2
<1> HIDE DEF T
<1>4. Cardinality(R) \in T
  BY <1>1, <1>3, HasSize, SetInduction
<1> QED BY <1>4, HasSize DEF T

\* Sums are taken term by term.
LEMMA SumOfSums ==
    ASSUME NEW f, NEW g, NEW h, NEW S, IsFiniteSet(S),
           \A x \in S : f[x] \in Int /\ g[x] \in Int /\ h[x] = f[x] + g[x]
    PROVE  Sum(h, S) = Sum(f, S) + Sum(g, S)
<1> DEFINE T == {n \in Nat : \A Q : Q \subseteq S /\ OfSize(Q, n)
                                        => Sum(h, Q) = Sum(f, Q) + Sum(g, Q)}
<1>1. 0 \in T
  BY SizeZero, SumEmpty
<1>2. ASSUME NEW n \in Nat, n \in T PROVE n + 1 \in T
  <2>1. ASSUME NEW Q, Q \subseteq S, OfSize(Q, n + 1)
        PROVE  Sum(h, Q) = Sum(f, Q) + Sum(g, Q)
    <3> DEFINE x == Picked(Q)
               q == Less(Q, x)
    <3>1. x \in Q /\ IsFiniteSet(Q) /\ Q # {}
      BY <2>1, NotEmpty
    <3>2. OfSize(q, n) /\ q \subseteq S
      BY <2>1, <3>1, OneLess DEF Less
    <3>3. Sum(h, q) = Sum(f, q) + Sum(g, q)
      BY <1>2, <3>2
    <3>4. /\ Sum(h, Q) = h[x] + Sum(h, q) /\ Sum(f, Q) = f[x] + Sum(f, q)
          /\ Sum(g, Q) = g[x] + Sum(g, q)
      BY <3>1, SumRecurs
    <3>5. f[x] \in Int /\ g[x] \in Int /\ h[x] = f[x] + g[x]
      BY <2>1, <3>1
    <3>6. Sum(f, q) \in Int /\ Sum(g, q) \in Int
      BY <3>2, SumType DEF OfSize
    <3> HIDE DEF x, q
    <3> QED BY <3>3, <3>4, <3>5, <3>6
  <2> QED BY <2>1
<1>3. \A n \in Nat : n \in T => n + 1 \in T
  BY <1>2
<1> HIDE DEF T
<1>4. Cardinality(S) \in T
  BY <1>1, <1>3, HasSize, SetInduction
<1> QED BY <1>4, HasSize DEF T

\* The items of a finite set, in some order.
LEMMA SetsAreListed ==
    ASSUME NEW S, IsFiniteSet(S)
    PROVE  /\ SetToSeq(S) \in Seq(S)
           /\ SetToSeq(S) = <<>> <=> S = {}
           /\ \A x \in S : \E k \in DOMAIN SetToSeq(S) : SetToSeq(S)[k] = x
<1> DEFINE n == Cardinality(S)
<1>1. n \in Nat /\ \E f : f \in Bijection(1 .. n, S)
  <2>1. PICK m \in Nat : ExistsBijection(1 .. m, S)
    BY FS_NatBijection
  <2>2. Cardinality(S) = m
    BY <2>1, FS_CountingElements
  <2> QED BY <2>1, <2>2 DEF ExistsBijection
<1>2. PICK f : f \in Bijection(1 .. n, S)
  BY <1>1
<1>3. f \in [1 .. n -> S] /\ IsInjective(f)
  BY <1>2 DEF Bijection, Injection, IsInjective
<1>4. \E g \in [1 .. n -> S] : IsInjective(g)
  BY <1>3
<1> DEFINE s == SetToSeq(S)
<1>5. s \in [1 .. n -> S] /\ IsInjective(s)
  BY <1>4 DEF SetToSeq
<1> HIDE DEF s, n
<1>6. s \in Seq(S) /\ Len(s) = n /\ DOMAIN s = 1 .. n
  BY <1>1, <1>5, SeqDef
<1>7. s \in Injection(1 .. n, S)
  BY <1>5 DEF Injection, IsInjective
<1>8. IsFiniteSet(1 .. n) /\ Cardinality(1 .. n) = n
  BY <1>1, FS_Interval
<1>9. s \in Surjection(1 .. n, S)
  BY <1>7, <1>8, FS_Injection DEF n
<1>10. \A x \in S : \E k \in DOMAIN s : s[k] = x
  BY <1>6, <1>9 DEF Surjection
<1>11. s = <<>> <=> S = {}
  BY <1>1, <1>6, <1>10
<1> QED BY <1>6, <1>10, <1>11 DEF s
-----------------------------------------------------------------------------
(* What the plugins return.                                                *)

LEMMA FlattenHolds ==
    ASSUME NEW S, NEW ss \in Seq(Seq(S))
    PROVE  /\ FlattenSeq(ss) \in Seq(S)
           /\ \A x : x \in ToSet(FlattenSeq(ss)) <=> \E i \in DOMAIN ss : x \in ToSet(ss[i])
<1> DEFINE t == FlattenSeq(ss)
<1>1. t \in Seq(S)
  BY FlattenLays
<1>2. PICK row, col : Lays(ss, Len(ss), t, row, col)
  BY FlattenLays
<1>3. DOMAIN ss = 1 .. Len(ss) /\ \A i \in DOMAIN ss : DOMAIN ss[i] = 1 .. Len(ss[i])
  OBVIOUS
<1>4. DOMAIN t = 1 .. Len(t)
  BY <1>1
<1> HIDE DEF t
<1>5. \A k \in DOMAIN t : /\ row[k] \in DOMAIN ss /\ col[k] \in DOMAIN ss[row[k]]
                          /\ t[k] = ss[row[k]][col[k]]
  BY <1>2, <1>3, <1>4 DEF Lays
<1>6. \A i \in DOMAIN ss : \A j \in DOMAIN ss[i] : \E k \in DOMAIN t : t[k] = ss[i][j]
  <2> SUFFICES ASSUME NEW i \in DOMAIN ss, NEW j \in DOMAIN ss[i]
               PROVE  \E k \in DOMAIN t : t[k] = ss[i][j]
    OBVIOUS
  <2>1. i \in 1 .. Len(ss) /\ j \in 1 .. Len(ss[i])
    BY <1>3
  <2>2. PICK k \in 1 .. Len(t) : row[k] = i /\ col[k] = j
    BY <1>2, <2>1 DEF Lays
  <2> QED BY <1>4, <1>5, <2>2
<1>7. ASSUME NEW x PROVE x \in ToSet(t) <=> \E i \in DOMAIN ss : x \in ToSet(ss[i])
  <2>1. ASSUME x \in ToSet(t) PROVE \E i \in DOMAIN ss : x \in ToSet(ss[i])
    <3>1. PICK k \in DOMAIN t : t[k] = x
      BY <2>1 DEF ToSet
    <3> QED BY <1>5, <3>1 DEF ToSet
  <2>2. ASSUME NEW i \in DOMAIN ss, x \in ToSet(ss[i]) PROVE x \in ToSet(t)
    <3>1. PICK j \in DOMAIN ss[i] : ss[i][j] = x
      BY <2>2 DEF ToSet
    <3> QED BY <1>6, <3>1 DEF ToSet
  <2> QED BY <2>1, <2>2
<1> QED BY <1>1, <1>7 DEF t

\* Findings that say nothing of the lives of accounts.
Refusals == {"account-not-open", "account-not-yet-open", "account-closed"}
Tells(fs) == fs \in Seq(ToSet(fs)) /\ \A f \in ToSet(fs) : f.code \notin Refusals

\* A sequence is one of its items.
LEMMA Itemized ==
    ASSUME NEW S, NEW s \in Seq(S)
    PROVE  s \in Seq(ToSet(s)) /\ ToSet(s) \subseteq S
<1>1. DOMAIN s = 1 .. Len(s) /\ Len(s) \in Nat /\ \A k \in DOMAIN s : s[k] \in S
  OBVIOUS
<1>2. s = [k \in 1 .. Len(s) |-> s[k]]
  OBVIOUS
<1>3. s \in [1 .. Len(s) -> ToSet(s)]
  BY <1>1, <1>2 DEF ToSet
<1>4. s \in Seq(ToSet(s))
  BY <1>1, <1>3, SeqDef
<1> QED BY <1>1, <1>4 DEF ToSet

LEMMA Joined ==
    ASSUME NEW S, NEW s \in Seq(S), NEW R, NEW r \in Seq(R)
    PROVE  s \o r \in Seq(S \cup R) /\ ToSet(s \o r) = ToSet(s) \cup ToSet(r)
<1> DEFINE t == s \o r
<1>1. /\ Len(s) \in Nat /\ Len(r) \in Nat /\ Len(t) = Len(s) + Len(r)
      /\ DOMAIN t = 1 .. Len(t) /\ DOMAIN s = 1 .. Len(s) /\ DOMAIN r = 1 .. Len(r)
      /\ \A k \in DOMAIN s : k \in DOMAIN t /\ t[k] = s[k]
      /\ \A k \in DOMAIN r : Len(s) + k \in DOMAIN t /\ t[Len(s) + k] = r[k]
  OBVIOUS
<1>0. t = [k \in 1 .. Len(t) |-> t[k]]
  <2>1. t \in Seq(S \cup R)
    OBVIOUS
  <2> HIDE DEF t
  <2> QED BY <2>1
<1>2. \A k \in DOMAIN t : k \in DOMAIN s \/ (k - Len(s) \in DOMAIN r /\ k = Len(s) + (k - Len(s)))
  BY <1>1
<1>3. (\A k \in DOMAIN s : s[k] \in S) /\ (\A k \in DOMAIN r : r[k] \in R)
  OBVIOUS
<1> HIDE DEF t
<1>4. \A k \in DOMAIN t : t[k] \in S \cup R
  BY <1>1, <1>2, <1>3
<1>5. t \in [1 .. Len(t) -> S \cup R]
  BY <1>0, <1>4, <1>1
<1>6. t \in Seq(S \cup R)
  BY <1>1, <1>5, SeqDef
<1>7. ASSUME NEW x PROVE x \in ToSet(t) <=> x \in ToSet(s) \/ x \in ToSet(r)
  <2>1. x \in ToSet(t) => x \in ToSet(s) \/ x \in ToSet(r)
    <3> SUFFICES ASSUME NEW k \in DOMAIN t, t[k] = x
                 PROVE  x \in ToSet(s) \/ x \in ToSet(r)
      BY DEF ToSet
    <3>1. CASE k \in DOMAIN s
      BY <1>1, <3>1 DEF ToSet
    <3>2. CASE k - Len(s) \in DOMAIN r /\ k = Len(s) + (k - Len(s))
      <4> DEFINE j == k - Len(s)
      <4>1. j \in DOMAIN r /\ k = Len(s) + j
        BY <3>2
      <4> HIDE DEF j
      <4> QED BY <1>1, <4>1 DEF ToSet
    <3> QED BY <1>2, <3>1, <3>2
  <2>2. x \in ToSet(s) => x \in ToSet(t)
    BY <1>1 DEF ToSet
  <2>3. x \in ToSet(r) => x \in ToSet(t)
    BY <1>1 DEF ToSet
  <2> QED BY <2>1, <2>2, <2>3
<1> QED BY <1>6, <1>7 DEF t

LEMMA TellsNothing == Tells(<<>>)
<1>1. ToSet(<<>>) = {}
  BY DEF ToSet
<1> QED BY <1>1 DEF Tells

LEMMA TellsOne ==
    ASSUME NEW f, f.code \notin Refusals
    PROVE  Tells(<<f>>)
<1>1. ToSet(<<f>>) = {f}
  BY DEF ToSet
<1> QED BY <1>1 DEF Tells

LEMMA TellsBoth ==
    ASSUME NEW s, NEW r, Tells(s), Tells(r)
    PROVE  Tells(s \o r)
<1>1. s \o r \in Seq(ToSet(s) \cup ToSet(r)) /\ ToSet(s \o r) = ToSet(s) \cup ToSet(r)
  <2> DEFINE A == ToSet(s)
             B == ToSet(r)
  <2>1. s \in Seq(A) /\ r \in Seq(B)
    BY DEF Tells
  <2> HIDE DEF A, B
  <2>2. s \o r \in Seq(A \cup B) /\ ToSet(s \o r) = ToSet(s) \cup ToSet(r)
    BY <2>1, Joined
  <2> QED BY <2>2 DEF A, B
<1> QED BY <1>1, Itemized DEF Tells

\* One finding for each item of a list.
LEMMA TellsOfEach ==
    ASSUME NEW S, NEW s \in Seq(S), NEW fs, fs = [k \in DOMAIN s |-> fs[k]],
           \A k \in DOMAIN s : fs[k].code \notin Refusals
    PROVE  Tells(fs) /\ Len(fs) = Len(s)
<1>1. DOMAIN s = 1 .. Len(s) /\ Len(s) \in Nat
  OBVIOUS
<1>2. DOMAIN fs = 1 .. Len(s)
  BY <1>1
<1>3. fs \in [1 .. Len(s) -> ToSet(fs)]
  BY <1>1, <1>2 DEF ToSet
<1>4. fs \in Seq(ToSet(fs)) /\ Len(fs) = Len(s)
  BY <1>1, <1>3, SeqDef
<1>5. \A f \in ToSet(fs) : f.code \notin Refusals
  BY DEF ToSet
<1> QED BY <1>4, <1>5 DEF Tells

\* Findings in groups.
LEMMA TellsOfAll ==
    ASSUME NEW S, NEW s \in Seq(S), NEW ss, ss = [k \in DOMAIN s |-> ss[k]],
           \A k \in DOMAIN s : Tells(ss[k])
    PROVE  Tells(FlattenSeq(ss))
<1> DEFINE F == UNION {ToSet(ss[k]) : k \in DOMAIN s}
<1>1. DOMAIN s = 1 .. Len(s) /\ Len(s) \in Nat
  OBVIOUS
<1>2. ASSUME NEW k \in DOMAIN s PROVE ss[k] \in Seq(F)
  <2>1. ss[k] \in Seq(ToSet(ss[k]))
    BY DEF Tells
  <2>2. ToSet(ss[k]) \subseteq F
    OBVIOUS
  <2> HIDE DEF F
  <2> QED BY <2>1, <2>2
<1>3. \A f \in F : f.code \notin Refusals
  BY DEF Tells
<1> HIDE DEF F
<1>4. ss \in [1 .. Len(s) -> Seq(F)]
  BY <1>1, <1>2
<1>5. ss \in Seq(Seq(F))
  BY <1>1, <1>4, SeqDef
<1>6. FlattenSeq(ss) \in Seq(F)
  BY <1>5, FlattenHolds
<1> QED BY <1>3, <1>6, Itemized DEF Tells
-----------------------------------------------------------------------------
\* A plugin returns directives that could have been read.
Serves(r) == Tells(r.findings) /\ (r.dirs # None => r.dirs \in Seq(AsRead))

LEMMA Reporting ==
    ASSUME NEW fs, Tells(fs)
    PROVE  Serves(Reports(fs))
BY DEF Serves, Reports

LEMMA Changing ==
    ASSUME NEW ds \in Seq(AsRead)
    PROVE  Serves(Changes(ds))
BY TellsNothing DEF Serves, Changes

LEMMA Unchanging == Serves(NoChange)
BY TellsNothing, Reporting DEF NoChange

\* What directives hold.
LEMMA ReadIsDirective == AsRead \subseteq Directive
BY DEF AsRead

LEMMA PostsOfTransaction ==
    ASSUME NEW d \in Directive, d.kind = "txn"
    PROVE  /\ d \in TransactionType /\ d.posts \in Seq(Posting) /\ d.date \in Nat
           /\ d.file \in FileName /\ d.off \in Nat
           /\ \A k \in DOMAIN d.posts : /\ d.posts[k] \in Posting /\ d.posts[k].acct \in Accounts
                                        /\ d.posts[k].cur \in Currencies
<1>1. d \in TransactionType
  BY KindIsType
<1>2. d.posts \in Seq(Posting) /\ d.date \in Nat /\ d.file \in FileName /\ d.off \in Nat
  BY <1>1 DEF TransactionType
<1>3. \A k \in DOMAIN d.posts : d.posts[k] \in Posting
  BY <1>2
<1>4. \A p \in Posting : p.acct \in Accounts /\ p.cur \in Currencies
  BY DEF Posting
<1> QED BY <1>1, <1>2, <1>3, <1>4

LEMMA AccountOf ==
    ASSUME NEW d \in Directive, d.kind \in {"open", "close", "balance", "pad", "document"}
    PROVE  d.acct \in Accounts /\ (d.kind = "pad" => d.from \in Accounts)
BY KindIsType DEF OpenType, CloseType, BalanceType, PadType, DocumentType

LEMMA ReferencesAreAccounts ==
    ASSUME NEW d \in Directive
    PROVE  References(d) \subseteq Accounts
<1>1. CASE d.kind = "txn"
  <2>1. References(d) = {p.acct : p \in ToSet(d.posts)}
    BY <1>1 DEF References
  <2>2. \A p \in ToSet(d.posts) : p.acct \in Accounts
    BY <1>1, PostsOfTransaction DEF ToSet
  <2> QED BY <2>1, <2>2
<1>2. CASE d.kind = "pad"
  BY <1>2, AccountOf DEF References
<1>3. CASE d.kind \in {"open", "close", "balance", "document"}
  BY <1>3, AccountOf DEF References
<1>4. CASE d.kind \notin {"txn", "pad", "open", "close", "balance", "document"}
  BY <1>4 DEF References
<1> QED BY <1>1, <1>2, <1>3, <1>4

LEMMA ReferencedAreAccounts ==
    ASSUME NEW ds \in Seq(Directive)
    PROVE  Referenced(ds) \subseteq Accounts /\ IsFiniteSet(Referenced(ds))
<1>1. \A k \in DOMAIN ds : ds[k] \in Directive
  OBVIOUS
<1>2. Referenced(ds) \subseteq Accounts
  BY <1>1, ReferencesAreAccounts DEF Referenced
<1> QED BY <1>2, FinitelyMany, FS_Subset

\* Directives a plugin makes.
LEMMA MadeOpen ==
    ASSUME NEW a \in Accounts, NEW date \in Nat
    PROVE  [kind |-> "open", date |-> date, file |-> NoFile, off |-> 0, acct |-> a,
            curs |-> {}, single |-> TRUE] \in AsRead
BY DEF AsRead, Directive, OpenType, FileName

LEMMA MadeBalance ==
    ASSUME NEW a \in Accounts, NEW cur \in Currencies, NEW date \in Nat, NEW d \in Directive
    PROVE  Nothing(a, cur, date, d) \in AsRead
<1> DEFINE b == Nothing(a, cur, date, d)
<1>1. d.file \in FileName /\ d.off \in Nat
  BY DirectiveHas
<1>2. b \in BalanceType /\ b.diff = None /\ b.kind = "balance"
  BY <1>1 DEF Nothing, BalanceType
<1> HIDE DEF b
<1>3. b \in AsRead
  BY <1>2 DEF AsRead, Directive
<1> QED BY <1>3 DEF b

LEMMA MadeClose ==
    ASSUME NEW a \in Accounts, NEW d \in Directive
    PROVE  [kind |-> "close", date |-> d.date, acct |-> a, file |-> d.file, off |-> d.off] \in AsRead
<1>1. d.file \in FileName /\ d.off \in Nat /\ d.date \in Nat
  BY DirectiveHas
<1> QED BY <1>1 DEF AsRead, Directive, CloseType

\* A list made item by item.
LEMMA MadeList ==
    ASSUME NEW S, NEW R, NEW s \in Seq(S), NEW t, t = [k \in DOMAIN s |-> t[k]],
           \A k \in DOMAIN s : t[k] \in R
    PROVE  t \in Seq(R) /\ Len(t) = Len(s)
<1>1. DOMAIN s = 1 .. Len(s) /\ Len(s) \in Nat
  OBVIOUS
<1>2. t \in [1 .. Len(s) -> R]
  BY <1>1
<1> QED BY <1>1, <1>2, SeqDef

-----------------------------------------------------------------------------
LEMMA AutoAccountsServes ==
    ASSUME NEW ds \in Seq(AsRead)
    PROVE  Serves(AutoAccounts(ds))
<1> DEFINE open == {a \in Referenced(ds) : FirstOpen(ds, a) = {}}
           missing == SetToSeq(open)
           opens == [k \in DOMAIN missing |->
                        [kind |-> "open", date |-> FirstUse(ds, missing[k]),
                         file |-> NoFile, off |-> 0, acct |-> missing[k],
                         curs |-> {}, single |-> TRUE]]
<1>1. ds \in Seq(Directive) /\ \A k \in DOMAIN ds : ds[k] \in Directive
  BY ReadIsDirective
<1>2. open \subseteq Referenced(ds) /\ IsFiniteSet(open) /\ open \subseteq Accounts
  <2>1. open \subseteq Referenced(ds)
    OBVIOUS
  <2> HIDE DEF open
  <2> QED BY <1>1, <2>1, ReferencedAreAccounts, FS_Subset
<1>3. AutoAccounts(ds) = IF missing = <<>> THEN NoChange ELSE Changes(opens \o ds)
  BY DEF AutoAccounts
<1> HIDE DEF open
<1>4. missing \in Seq(open) /\ \A k \in DOMAIN missing : missing[k] \in open
  BY <1>2, SetsAreListed
<1>5. ASSUME NEW k \in DOMAIN missing PROVE opens[k] \in AsRead
  <2>1. PICK j \in DOMAIN ds : missing[k] \in References(ds[j])
    BY <1>2, <1>4 DEF Referenced
  <2> DEFINE dates == {ds[i].date : i \in {j1 \in DOMAIN ds : missing[k] \in References(ds[j1])}}
  <2>2. ds[j].date \in dates
    BY <2>1
  <2>3. dates \subseteq Nat
    BY <1>1, DirectiveHas
  <2>4. FirstUse(ds, missing[k]) = Min(dates)
    BY DEF FirstUse
  <2> HIDE DEF dates
  <2>5. FirstUse(ds, missing[k]) \in Nat
    BY <2>2, <2>3, <2>4, MinOf
  <2>6. missing[k] \in Accounts
    BY <1>2, <1>4
  <2> QED BY <2>5, <2>6, MadeOpen
<1>6. opens = [k \in DOMAIN missing |-> opens[k]]
  OBVIOUS
<1> HIDE DEF missing, opens
<1>7. opens \in Seq(AsRead)
  BY <1>4, <1>5, <1>6, MadeList
<1>8. opens \o ds \in Seq(AsRead)
  BY <1>7
<1> QED BY <1>3, <1>8, Changing, Unchanging

LEMMA ExpandTypes ==
    ASSUME NEW t \in AsRead, t.kind = "txn"
    PROVE  Expand(t) \in Seq(AsRead)
<1> DEFINE K == {k \in DOMAIN t.posts : ClosingPost(t.posts[k])}
           marked == Those(t.posts, K)
           bs == [k \in DOMAIN marked |-> Nothing(marked[k].acct, marked[k].cur, t.date + 1, t)]
           ps == [k \in DOMAIN t.posts |->
                    IF ClosingPost(t.posts[k]) THEN [t.posts[k] EXCEPT !.closing = FALSE]
                    ELSE t.posts[k]]
           u == [t EXCEPT !.posts = ps]
<1>1. /\ t \in Directive /\ t \in TransactionType /\ t.posts \in Seq(Posting) /\ t.date \in Nat
      /\ \A k \in DOMAIN t.posts : t.posts[k] \in Posting
  BY PostsOfTransaction, ReadIsDirective
<1>2. Expand(t) = bs \o <<u>>
  BY DEF Expand
<1>3. marked \in Seq(Posting)
  <2>1. K \in SUBSET DOMAIN t.posts
    OBVIOUS
  <2> HIDE DEF K
  <2> QED BY <1>1, <2>1, ThoseHold
<1> HIDE DEF marked
<1>4. ASSUME NEW k \in DOMAIN marked PROVE bs[k] \in AsRead
  <2>1. marked[k] \in Posting /\ t.date + 1 \in Nat
    BY <1>1, <1>3
  <2>2. marked[k].acct \in Accounts /\ marked[k].cur \in Currencies
    BY <2>1 DEF Posting
  <2> QED BY <1>1, <2>1, <2>2, MadeBalance
<1>5. bs = [k \in DOMAIN marked |-> bs[k]]
  OBVIOUS
<1> HIDE DEF bs
<1>6. bs \in Seq(AsRead)
  BY <1>3, <1>4, <1>5, MadeList
<1>7. ASSUME NEW k \in DOMAIN t.posts PROVE ps[k] \in Posting
  <2>1. t.posts[k] \in Posting
    BY <1>1
  <2>2. [t.posts[k] EXCEPT !.closing = FALSE] \in Posting
    BY <2>1 DEF Posting
  <2> QED BY <2>1, <2>2
<1>8. ps = [k \in DOMAIN t.posts |-> ps[k]]
  OBVIOUS
<1> HIDE DEF ps
<1>9. ps \in Seq(Posting)
  BY <1>1, <1>7, <1>8, MadeList
<1>10. u \in TransactionType /\ u.kind = "txn"
  BY <1>1, <1>9 DEF TransactionType
<1> HIDE DEF u
<1>11. u \in AsRead
  BY <1>10 DEF AsRead, Directive
<1>12. <<u>> \in Seq(AsRead)
  BY <1>11
<1>13. bs \o <<u>> \in Seq(AsRead)
  BY <1>6, <1>12
<1> QED BY <1>2, <1>13

LEMMA CheckClosingServes ==
    ASSUME NEW ds \in Seq(AsRead)
    PROVE  Serves(CheckClosing(ds))
<1> DEFINE ss == [k \in DOMAIN ds |-> IF ds[k].kind = "txn" THEN Expand(ds[k]) ELSE <<ds[k]>>]
<1>1. \A k \in DOMAIN ds : ds[k] \in AsRead
  OBVIOUS
<1>2. ASSUME NEW k \in DOMAIN ds PROVE ss[k] \in Seq(AsRead)
  <2>1. <<ds[k]>> \in Seq(AsRead)
    BY <1>1
  <2>2. ds[k].kind = "txn" => Expand(ds[k]) \in Seq(AsRead)
    BY <1>1, ExpandTypes
  <2> QED BY <2>1, <2>2
<1>3. ss = [k \in DOMAIN ds |-> ss[k]] /\ CheckClosing(ds) = Changes(FlattenSeq(ss))
  BY DEF CheckClosing
<1> HIDE DEF ss
<1>4. ss \in Seq(Seq(AsRead))
  BY <1>2, <1>3, MadeList
<1>5. FlattenSeq(ss) \in Seq(AsRead)
  BY <1>4, FlattenHolds
<1> QED BY <1>3, <1>5, Changing

LEMMA CurrenciesHeld ==
    ASSUME NEW ds \in Seq(AsRead), NEW a
    PROVE  Held(ds, a) \subseteq Currencies
<1>1. \A k \in DOMAIN ds : ds[k] \in Directive
  BY ReadIsDirective
<1>2. \A q \in Amounts(ds) : q.cur \in Currencies
  <2> SUFFICES ASSUME NEW k \in Kinds(ds, "txn"), NEW q \in ToSet(ds[k].posts)
               PROVE  q.cur \in Currencies
    BY DEF Amounts, Postings
  <2>1. k \in DOMAIN ds /\ ds[k].kind = "txn"
    BY DEF Kinds
  <2> QED BY <1>1, <2>1, PostsOfTransaction DEF ToSet
<1>3. \A k \in Kinds(ds, "open") : ds[k].curs \subseteq Currencies
  <2> SUFFICES ASSUME NEW k \in Kinds(ds, "open") PROVE ds[k].curs \subseteq Currencies
    OBVIOUS
  <2>1. ds[k] \in OpenType
    BY <1>1, KindIsType DEF Kinds
  <2> QED BY <2>1 DEF OpenType
<1> QED BY <1>2, <1>3 DEF Held

LEMMA CheckDrainedServes ==
    ASSUME NEW ds \in Seq(AsRead)
    PROVE  Serves(CheckDrained(ds))
<1> DEFINE new(k) == IF ds[k].kind = "close" /\ ds[k].acct \in BalanceSheet
                     THEN SynthesizeBalances(ds, ds[k]) ELSE <<>>
           ss == [k \in DOMAIN ds |-> new(k) \o <<ds[k]>>]
<1>1. \A k \in DOMAIN ds : ds[k] \in AsRead
  OBVIOUS
<1>2. ASSUME NEW k \in DOMAIN ds PROVE new(k) \in Seq(AsRead)
  <2>1. CASE ~(ds[k].kind = "close" /\ ds[k].acct \in BalanceSheet)
    BY <2>1
  <2>2. CASE ds[k].kind = "close" /\ ds[k].acct \in BalanceSheet
    <3> DEFINE c == ds[k]
               C == {cur \in Held(ds, c.acct) : ~Asserted(ds, c.acct, cur, c.date)}
               curs == SetToSeq(C)
               bs == [j \in DOMAIN curs |-> Nothing(c.acct, curs[j], c.date + 1, c)]
    <3>1. c \in Directive /\ c.acct \in Accounts /\ c.date + 1 \in Nat
      BY <1>1, <2>2, ReadIsDirective, AccountOf, DirectiveHas
    <3>2. C \subseteq Currencies
      BY CurrenciesHeld
    <3>3. bs = SynthesizeBalances(ds, c)
      BY DEF SynthesizeBalances
    <3> HIDE DEF C
    <3>4. IsFiniteSet(C)
      BY <3>2, FinitelyMany, FS_Subset
    <3>5. curs \in Seq(C)
      BY <3>4, SetsAreListed
    <3> HIDE DEF curs
    <3>6. \A j \in DOMAIN curs : curs[j] \in Currencies
      BY <3>2, <3>5
    <3> HIDE DEF c
    <3>7. \A j \in DOMAIN curs : bs[j] \in AsRead
      BY <3>1, <3>6, MadeBalance
    <3>8. bs = [j \in DOMAIN curs |-> bs[j]]
      OBVIOUS
    <3> HIDE DEF bs
    <3>9. bs \in Seq(AsRead)
      BY <3>5, <3>7, <3>8, MadeList
    <3> QED BY <2>2, <3>3, <3>9 DEF c
  <2> QED BY <2>1, <2>2
<1>3. ss = [k \in DOMAIN ds |-> ss[k]] /\ CheckDrained(ds) = Changes(FlattenSeq(ss))
  BY DEF CheckDrained
<1>4. \A k \in DOMAIN ds : ss[k] = new(k) \o <<ds[k]>>
  OBVIOUS
<1> HIDE DEF ss, new
<1>5. ASSUME NEW k \in DOMAIN ds PROVE ss[k] \in Seq(AsRead)
  <2>1. <<ds[k]>> \in Seq(AsRead)
    BY <1>1
  <2>2. new(k) \in Seq(AsRead)
    BY <1>2
  <2>3. new(k) \o <<ds[k]>> \in Seq(AsRead)
    BY <2>1, <2>2
  <2> QED BY <1>4, <2>3
<1>6. ss \in Seq(Seq(AsRead))
  BY <1>3, <1>5, MadeList
<1>7. FlattenSeq(ss) \in Seq(AsRead)
  BY <1>6, FlattenHolds
<1> QED BY <1>3, <1>7, Changing

LEMMA CloseTreeServes ==
    ASSUME NEW ds \in Seq(AsRead)
    PROVE  Serves(CloseTree(ds))
<1> DEFINE subs(k) == IF ds[k].kind = "close" THEN SetToSeq(Descendants(ds, k)) ELSE <<>>
           closes(k) == [j \in DOMAIN subs(k) |->
                           [kind |-> "close", date |-> ds[k].date, acct |-> subs(k)[j],
                            file |-> ds[k].file, off |-> ds[k].off]]
           ss == [k \in DOMAIN ds |-> <<ds[k]>> \o closes(k)]
<1>1. \A k \in DOMAIN ds : ds[k] \in AsRead
  OBVIOUS
<1>2. ASSUME NEW k \in DOMAIN ds PROVE subs(k) \in Seq(Accounts)
  <2>1. Descendants(ds, k) \subseteq Accounts
    BY DEF Descendants
  <2>2. IsFiniteSet(Descendants(ds, k))
    BY <2>1, FinitelyMany, FS_Subset
  <2>3. SetToSeq(Descendants(ds, k)) \in Seq(Accounts)
    BY <2>1, <2>2, SetsAreListed
  <2> QED BY <2>3
<1>3. ASSUME NEW k \in DOMAIN ds PROVE closes(k) \in Seq(AsRead)
  <2> DEFINE s == subs(k)
             cs == closes(k)
  <2>1. s \in Seq(Accounts)
    BY <1>2
  <2>2. cs = [j \in DOMAIN s |-> cs[j]]
    OBVIOUS
  <2>3. \A j \in DOMAIN s : cs[j] = [kind |-> "close", date |-> ds[k].date, acct |-> s[j],
                                     file |-> ds[k].file, off |-> ds[k].off]
    OBVIOUS
  <2> HIDE DEF s, cs
  <2>4. \A j \in DOMAIN s : s[j] \in Accounts
    BY <2>1
  <2>5. ds[k] \in Directive
    BY <1>1, ReadIsDirective
  <2>6. \A j \in DOMAIN s : cs[j] \in AsRead
    BY <2>3, <2>4, <2>5, MadeClose
  <2>7. cs \in Seq(AsRead)
    BY <2>1, <2>2, <2>6, MadeList
  <2> QED BY <2>7 DEF cs
<1>4. /\ ss = [k \in DOMAIN ds |-> ss[k]]
      /\ CloseTree(ds) = NoChange \/ CloseTree(ds) = Changes(FlattenSeq(ss))
  BY DEF CloseTree
<1>5. \A k \in DOMAIN ds : ss[k] = <<ds[k]>> \o closes(k)
  OBVIOUS
<1> HIDE DEF ss, closes
<1>6. ASSUME NEW k \in DOMAIN ds PROVE ss[k] \in Seq(AsRead)
  <2>1. <<ds[k]>> \in Seq(AsRead)
    BY <1>1
  <2>2. closes(k) \in Seq(AsRead)
    BY <1>3
  <2>3. <<ds[k]>> \o closes(k) \in Seq(AsRead)
    BY <2>1, <2>2
  <2> QED BY <1>5, <2>3
<1>7. ss \in Seq(Seq(AsRead))
  BY <1>4, <1>6, MadeList
<1>8. FlattenSeq(ss) \in Seq(AsRead)
  BY <1>7, FlattenHolds
<1> QED BY <1>4, <1>8, Changing, Unchanging

LEMMA ExcludeTagServes ==
    ASSUME NEW ds \in Seq(AsRead), NEW p
    PROVE  Serves(ExcludeTag(p, ds))
<1> DEFINE tag == IF p.config = None THEN "virtual" ELSE p.config.tag
           K == {k \in DOMAIN ds : ~(ds[k].kind = "txn" /\ tag \in ds[k].tags)}
           kept == Those(ds, K)
<1>1. ExcludeTag(p, ds) = IF kept = ds THEN NoChange ELSE Changes(kept)
  BY DEF ExcludeTag
<1>2. K \in SUBSET DOMAIN ds
  OBVIOUS
<1> HIDE DEF K
<1>3. kept \in Seq(AsRead)
  BY <1>2, ThoseHold
<1> HIDE DEF kept
<1> QED BY <1>1, <1>3, Changing, Unchanging
-----------------------------------------------------------------------------
LEMMA UnitPrices ==
    ASSUME NEW p \in Posting, HasPrice(p)
    PROVE  PerUnit(p).num \in Int /\ PerUnit(p).cur \in Currencies
<1>1. p.num \in Int
  BY DEF Posting, HasPrice, HasAmount
<1>2. CASE p.price # None
  <2>1. p.price \in Price
    BY <1>2 DEF Posting
  <2>2. p.price.num \in Int /\ p.price.cur \in Currencies
    BY <2>1 DEF Price
  <2>3. p.price.total => Abs(p.num) \in Int /\ Abs(p.num) > 0
    BY <1>1, <1>2 DEF HasPrice, Abs
  <2>4. p.price.total => p.price.num \div Abs(p.num) \in Int
    BY <2>2, <2>3
  <2> QED BY <1>2, <2>2, <2>4 DEF PerUnit
<1>3. CASE p.price = None
  <2>1. p.cost \in Cost
    BY <1>3 DEF Posting, HasPrice
  <2> QED BY <1>3, <2>1 DEF PerUnit, Cost
<1> QED BY <1>2, <1>3

LEMMA ImpliedTypes ==
    ASSUME NEW t \in Directive, t.kind = "txn"
    PROVE  Implied(t) \in Seq(AsRead)
<1> DEFINE K == {k \in DOMAIN t.posts : HasPrice(t.posts[k])}
           ps == Those(t.posts, K)
           Q == {t.posts[k] : k \in K}
           prices == [k \in DOMAIN ps |-> [kind |-> "price", date |-> t.date, file |-> t.file,
                              off |-> t.off, com |-> ps[k].cur,
                              num |-> PerUnit(ps[k]).num, cur |-> PerUnit(ps[k]).cur]]
<1>1. /\ t.posts \in Seq(Posting) /\ t.date \in Nat /\ t.file \in FileName /\ t.off \in Nat
      /\ \A k \in DOMAIN t.posts : t.posts[k] \in Posting
  BY PostsOfTransaction
<1>2. prices = Implied(t)
  BY DEF Implied
<1>3. ps \in Seq(Posting) /\ ToSet(ps) = Q
  <2>1. K \in SUBSET DOMAIN t.posts
    OBVIOUS
  <2> HIDE DEF K
  <2> QED BY <1>1, <2>1, ThoseHold
<1>4. \A q \in Q : q \in Posting /\ HasPrice(q)
  BY <1>1
<1> HIDE DEF ps, Q
<1>5. ASSUME NEW k \in DOMAIN ps PROVE prices[k] \in AsRead
  <2>1. ps[k] \in ToSet(ps)
    BY DEF ToSet
  <2>2. ps[k] \in Posting /\ HasPrice(ps[k])
    BY <1>3, <1>4, <2>1
  <2>3. ps[k].cur \in Currencies /\ PerUnit(ps[k]).num \in Int /\ PerUnit(ps[k]).cur \in Currencies
    BY <2>2, UnitPrices DEF Posting
  <2>4. prices[k] \in PriceType /\ prices[k].kind = "price"
    BY <1>1, <2>3 DEF PriceType
  <2> QED BY <2>4 DEF AsRead, Directive
<1>6. prices = [k \in DOMAIN ps |-> prices[k]]
  OBVIOUS
<1> HIDE DEF prices
<1>7. prices \in Seq(AsRead)
  BY <1>3, <1>5, <1>6, MadeList
<1> QED BY <1>2, <1>7

LEMMA FreshTypes ==
    ASSUME NEW t \in Directive, t.kind = "txn", NEW rates
    PROVE  Fresh(t, rates) \in Seq(AsRead)
<1> DEFINE ps == Implied(t)
           K == {i \in DOMAIN ps : Rate(ps[i]) \notin rates \cup {Rate(ps[j]) : j \in 1..(i - 1)}}
<1>1. ps \in Seq(AsRead)
  BY ImpliedTypes
<1>2. Fresh(t, rates) = Those(ps, K)
  BY DEF Fresh
<1>3. K \in SUBSET DOMAIN ps
  OBVIOUS
<1> HIDE DEF K, ps
<1> QED BY <1>1, <1>2, <1>3, ThoseHold

LEMMA ImplicitPricesServes ==
    ASSUME NEW ds \in Seq(AsRead)
    PROVE  Serves(ImplicitPrices(ds))
<1> DEFINE rates(k) == {Rate(d) : d \in UNION {ToSet(Implied(ds[j])) :
                                   j \in {i \in Kinds(ds, "txn") : i < k}}}
           new(k) == IF ds[k].kind = "txn" THEN Fresh(ds[k], rates(k)) ELSE <<>>
           ss == [k \in DOMAIN ds |-> <<ds[k]>> \o new(k)]
<1>1. \A k \in DOMAIN ds : ds[k] \in AsRead
  OBVIOUS
<1>2. ss = [k \in DOMAIN ds |-> ss[k]] /\ ImplicitPrices(ds) = Changes(FlattenSeq(ss))
  BY DEF ImplicitPrices
<1>3. \A k \in DOMAIN ds : ss[k] = <<ds[k]>> \o new(k)
  OBVIOUS
<1> HIDE DEF rates, ss
<1>4. ASSUME NEW k \in DOMAIN ds PROVE new(k) \in Seq(AsRead)
  <2>1. ds[k].kind = "txn" => Fresh(ds[k], rates(k)) \in Seq(AsRead)
    BY <1>1, ReadIsDirective, FreshTypes
  <2> QED BY <2>1
<1> HIDE DEF new
<1>5. ASSUME NEW k \in DOMAIN ds PROVE ss[k] \in Seq(AsRead)
  <2>1. <<ds[k]>> \in Seq(AsRead) /\ new(k) \in Seq(AsRead)
    BY <1>1, <1>4
  <2>2. <<ds[k]>> \o new(k) \in Seq(AsRead)
    BY <2>1
  <2> QED BY <1>3, <2>2
<1>6. ss \in Seq(Seq(AsRead))
  BY <1>2, <1>5, MadeList
<1>7. FlattenSeq(ss) \in Seq(AsRead)
  BY <1>6, FlattenHolds
<1> QED BY <1>2, <1>7, Changing

-----------------------------------------------------------------------------
\* Items at some places, as a list of something.
LEMMA ThoseAreListed ==
    ASSUME NEW S, NEW s \in Seq(S), NEW K, \A k \in K : k \in DOMAIN s
    PROVE  Those(s, K) \in Seq(S)
<1>1. K \in SUBSET DOMAIN s
  OBVIOUS
<1> QED BY <1>1, ThoseHold

LEMMA TxnsTypes ==
    ASSUME NEW ds \in Seq(AsRead)
    PROVE  Txns(ds) \in Seq(AsRead) /\ \A k \in DOMAIN Txns(ds) : Txns(ds)[k].kind = "txn"
<1> DEFINE K == Kinds(ds, "txn")
           ts == Txns(ds)
<1>1. K \in SUBSET DOMAIN ds /\ \A k \in K : ds[k].kind = "txn"
  BY DEF Kinds
<1>2. ts \in Seq(AsRead) /\ ToSet(ts) = {ds[k] : k \in K}
  BY <1>1, ThoseHold DEF Txns
<1> HIDE DEF ts, K
<1>3. \A k \in DOMAIN ts : ts[k] \in ToSet(ts)
  BY DEF ToSet
<1> QED BY <1>1, <1>2, <1>3 DEF ts

LEMMA UniquePricesServes ==
    ASSUME NEW ds \in Seq(AsRead), NEW p
    PROVE  Serves(UniquePrices(p, ds))
<1> DEFINE pair(k) == <<ds[k].date, ds[k].com, ds[k].cur>>
           differs(k) ==
            /\ ds[k].kind = "price"
            /\ \E j \in Kinds(ds, "price") :
                  /\ pair(j) = pair(k) /\ ds[j].num # ds[k].num
                  /\ \A i \in Kinds(ds, "price") : pair(i) = pair(k) => j <= i
           K == {k \in DOMAIN ds : differs(k)}
           bad == Those(ds, K)
           fs == [k \in DOMAIN bad |-> Finding("duplicate-price", At(bad[k], p), bad[k].com)]
<1>1. UniquePrices(p, ds) = Reports(fs)
  BY DEF UniquePrices
<1>2. \A k \in K : k \in DOMAIN ds
  OBVIOUS
<1>3. \A k \in DOMAIN bad : fs[k].code \notin Refusals
  BY DEF Finding, Refusals
<1>4. fs = [k \in DOMAIN bad |-> fs[k]]
  OBVIOUS
<1> HIDE DEF fs, K
<1>5. bad \in Seq(AsRead)
  BY <1>2, ThoseAreListed
<1> HIDE DEF bad
<1> QED BY <1>1, <1>3, <1>4, <1>5, TellsOfEach, Reporting

LEMMA LeafOnlyServes ==
    ASSUME NEW ds \in Seq(AsRead), NEW p
    PROVE  Serves(LeafOnly(p, ds))
<1> DEFINE ts == Txns(ds)
           K(t) == {k \in DOMAIN t.posts : t.posts[k].acct \in NonLeaf(ds)}
           onNonLeaf(t) == Those(t.posts, K(t))
           found(t) == [k \in DOMAIN onNonLeaf(t) |->
                          Finding("non-leaf-account", At(t, p), onNonLeaf(t)[k].acct)]
           ss == [k \in DOMAIN ts |-> found(ts[k])]
<1>1. LeafOnly(p, ds) = Reports(FlattenSeq(ss))
  BY DEF LeafOnly
<1>2. ts \in Seq(AsRead) /\ \A k \in DOMAIN ts : ts[k] \in AsRead /\ ts[k].kind = "txn"
  BY TxnsTypes
<1>3. ASSUME NEW t \in AsRead, t.kind = "txn" PROVE Tells(found(t))
  <2> DEFINE ps == onNonLeaf(t)
             fs == found(t)
  <2>1. t.posts \in Seq(Posting)
    BY <1>3, ReadIsDirective, PostsOfTransaction
  <2>2. ps \in Seq(Posting)
    BY <2>1, ThoseAreListed
  <2>3. fs = [k \in DOMAIN ps |-> fs[k]]
    OBVIOUS
  <2>4. \A k \in DOMAIN ps : fs[k].code \notin Refusals
    BY DEF Finding, Refusals
  <2> HIDE DEF ps, fs
  <2>5. Tells(fs)
    BY <2>2, <2>3, <2>4, TellsOfEach
  <2> QED BY <2>5 DEF fs
<1>4. ss = [k \in DOMAIN ts |-> ss[k]] /\ \A k \in DOMAIN ts : ss[k] = found(ts[k])
  OBVIOUS
<1> HIDE DEF ss, ts, found
<1>5. \A k \in DOMAIN ts : Tells(ss[k])
  BY <1>2, <1>3, <1>4
<1>6. Tells(FlattenSeq(ss))
  BY <1>2, <1>4, <1>5, TellsOfAll
<1> QED BY <1>1, <1>6, Reporting

LEMMA NoDuplicatesServes ==
    ASSUME NEW ds \in Seq(AsRead), NEW p
    PROVE  Serves(NoDuplicates(p, ds))
<1> DEFINE ts == Txns(ds)
           again(k) == \E j \in 1..(k - 1) : Similarity(ts[j]) = Similarity(ts[k])
           K == {k \in DOMAIN ts : again(k)}
           dups == Those(ts, K)
           fs == [k \in DOMAIN dups |-> Finding("duplicate-transaction", At(dups[k], p), None)]
<1>1. NoDuplicates(p, ds) = Reports(fs)
  BY DEF NoDuplicates
<1>2. \A k \in K : k \in DOMAIN ts
  OBVIOUS
<1>3. \A k \in DOMAIN dups : fs[k].code \notin Refusals
  BY DEF Finding, Refusals
<1>4. fs = [k \in DOMAIN dups |-> fs[k]]
  OBVIOUS
<1> HIDE DEF fs, K
<1>5. ts \in Seq(AsRead)
  BY TxnsTypes
<1> HIDE DEF ts
<1>6. dups \in Seq(AsRead)
  BY <1>2, <1>5, ThoseAreListed
<1> HIDE DEF dups
<1> QED BY <1>1, <1>3, <1>4, <1>6, TellsOfEach, Reporting

LEMMA TellsAtOpens ==
    ASSUME NEW code, code \notin Refusals, NEW p, NEW ds, NEW as \in SUBSET Accounts
    PROVE  Tells(AtOpens(code, p, ds, as))
<1> DEFINE s == SetToSeq(as)
           place(a) == IF FirstOpen(ds, a) = {} THEN p
                       ELSE At(ds[CHOOSE k \in FirstOpen(ds, a) : TRUE], p)
           fs == [k \in DOMAIN s |-> Finding(code, place(s[k]), s[k])]
<1>1. AtOpens(code, p, ds, as) = fs
  BY DEF AtOpens
<1>2. IsFiniteSet(as)
  BY FinitelyMany, FS_Subset
<1>3. s \in Seq(as)
  BY <1>2, SetsAreListed
<1>4. fs = [k \in DOMAIN s |-> fs[k]]
  OBVIOUS
<1> HIDE DEF place
<1>5. \A k \in DOMAIN s : fs[k].code \notin Refusals
  BY DEF Finding
<1> HIDE DEF s, fs
<1> QED BY <1>1, <1>3, <1>4, <1>5, TellsOfEach

LEMMA NoUnusedServes ==
    ASSUME NEW ds \in Seq(AsRead), NEW p
    PROVE  Serves(NoUnused(p, ds))
<1> DEFINE others == Those(ds, {k \in DOMAIN ds : ds[k].kind # "open"})
           opened == {ds[k].acct : k \in Kinds(ds, "open")}
           unused == opened \ Referenced(others)
<1>1. NoUnused(p, ds) = Reports(AtOpens("unused-account", p, ds, unused))
  BY DEF NoUnused
<1>2. \A k \in Kinds(ds, "open") : ds[k] \in Directive /\ ds[k].kind = "open"
  BY ReadIsDirective DEF Kinds
<1>3. opened \subseteq Accounts
  BY <1>2, AccountOf
<1>4. unused \in SUBSET Accounts
  BY <1>3
<1> HIDE DEF unused
<1> QED BY <1>1, <1>4, TellsAtOpens, Reporting DEF Refusals

LEMMA CoherentCostServes ==
    ASSUME NEW ds \in Seq(AsRead), NEW p
    PROVE  Serves(CoherentCost(p, ds))
<1> DEFINE with(b) == {<<q.acct, q.cur>> : q \in {r \in Amounts(ds) : (r.cost # None) = b}}
           both == with(TRUE) \cap with(FALSE)
           of(cur) == {a \in Accounts : <<a, cur>> \in both}
           curs == SetToSeq(Currencies)
           ss == [k \in DOMAIN curs |-> AtOpens("incoherent-cost", p, ds, of(curs[k]))]
<1>1. CoherentCost(p, ds) = Reports(FlattenSeq(ss))
  BY DEF CoherentCost
<1>2. curs \in Seq(Currencies)
  BY FinitelyMany, SetsAreListed
<1>3. ss = [k \in DOMAIN curs |-> ss[k]]
  OBVIOUS
<1>4. ASSUME NEW k \in DOMAIN curs PROVE Tells(ss[k])
  <2>1. of(curs[k]) \in SUBSET Accounts
    OBVIOUS
  <2>2. ss[k] = AtOpens("incoherent-cost", p, ds, of(curs[k]))
    OBVIOUS
  <2> HIDE DEF of, ss
  <2> QED BY <2>1, <2>2, TellsAtOpens DEF Refusals
<1> HIDE DEF ss, curs
<1>5. Tells(FlattenSeq(ss))
  BY <1>2, <1>3, <1>4, TellsOfAll
<1> QED BY <1>1, <1>5, Reporting

LEMMA OneCommodityServes ==
    ASSUME NEW ds \in Seq(AsRead), NEW p
    PROVE  Serves(OneCommodity(p, ds))
<1>1. \E m, n \in SUBSET Accounts :
          OneCommodity(p, ds) =
              Reports((IF p.config # Malformed THEN <<>>
                       ELSE <<Finding("invalid-regexp", p, None)>>)
                      \o AtOpens("multi-commodity-account", p, ds, m)
                      \o AtOpens("multi-commodity-account", p, ds, n))
  <2> DEFINE chosen(a) == IF p.config \in {None, Malformed} THEN TRUE ELSE a \in p.config.accts
        watched(a) == chosen(a) /\ \A k \in FirstOpen(ds, a) :
                                      ds[k].single /\ Cardinality(ds[k].curs) <= 1
        units(a) == {q.cur : q \in {r \in Amounts(ds) : r.acct = a}}
                    \cup {ds[k].cur : k \in {j \in Kinds(ds, "balance") : ds[j].acct = a}}
        costly(a) == {q.cost.cur : q \in {r \in Postings(ds) : r.acct = a
                        /\ (IF r.cost = None THEN FALSE ELSE r.cost.stated)}}
        m == {a \in Accounts : watched(a) /\ Cardinality(units(a)) > 1}
        n == {a \in Accounts : watched(a) /\ Cardinality(costly(a)) > 1}
  <2>1. OneCommodity(p, ds) =
              Reports((IF p.config # Malformed THEN <<>>
                       ELSE <<Finding("invalid-regexp", p, None)>>)
                      \o AtOpens("multi-commodity-account", p, ds, m)
                      \o AtOpens("multi-commodity-account", p, ds, n))
    BY DEF OneCommodity
  <2>2. m \in SUBSET Accounts /\ n \in SUBSET Accounts
    OBVIOUS
  <2> HIDE DEF m, n
  <2> QED BY <2>1, <2>2
<1>2. PICK m \in SUBSET Accounts, n \in SUBSET Accounts :
          OneCommodity(p, ds) =
              Reports((IF p.config # Malformed THEN <<>>
                       ELSE <<Finding("invalid-regexp", p, None)>>)
                      \o AtOpens("multi-commodity-account", p, ds, m)
                      \o AtOpens("multi-commodity-account", p, ds, n))
  BY <1>1
<1>3. Finding("invalid-regexp", p, None).code \notin Refusals
  BY DEF Finding, Refusals
<1>4. Tells(IF p.config # Malformed THEN <<>> ELSE <<Finding("invalid-regexp", p, None)>>)
  BY <1>3, TellsOne, TellsNothing
<1>5. /\ Tells(AtOpens("multi-commodity-account", p, ds, m))
      /\ Tells(AtOpens("multi-commodity-account", p, ds, n))
  BY TellsAtOpens DEF Refusals
<1> QED BY <1>2, <1>4, <1>5, TellsBoth, Reporting

LEMMA SellGainsServes ==
    ASSUME NEW ds \in Seq(AsRead), NEW p
    PROVE  Serves(SellGains(p, ds))
<1> DEFINE ts == Txns(ds)
           K == {k \in DOMAIN ts : SaleDisagrees(ts[k])}
           bad == Those(ts, K)
           fs == [k \in DOMAIN bad |-> Finding("invalid-sell-gains", At(bad[k], p), None)]
<1>1. SellGains(p, ds) = Reports(fs)
  BY DEF SellGains
<1>2. \A k \in K : k \in DOMAIN ts
  OBVIOUS
<1>3. \A k \in DOMAIN bad : fs[k].code \notin Refusals
  BY DEF Finding, Refusals
<1>4. fs = [k \in DOMAIN bad |-> fs[k]]
  OBVIOUS
<1> HIDE DEF fs, K
<1>5. ts \in Seq(AsRead)
  BY TxnsTypes
<1> HIDE DEF ts
<1>6. bad \in Seq(AsRead)
  BY <1>2, <1>5, ThoseAreListed
<1> HIDE DEF bad
<1> QED BY <1>1, <1>3, <1>4, <1>6, TellsOfEach, Reporting
-----------------------------------------------------------------------------
LEMMA PricedIn ==
    ASSUME NEW q \in Posting
    PROVE  /\ q.cur \in Currencies
           /\ q.price # None => q.price.cur \in Currencies
           /\ q.cost # None => q.cost.cur \in Currencies
<1>1. q.price # None => q.price \in Price
  BY DEF Posting
<1>2. q.cost # None => q.cost \in Cost
  BY DEF Posting
<1> QED BY <1>1, <1>2 DEF Posting, Price, Cost

LEMMA CurrenciesUsed ==
    ASSUME NEW ds \in Seq(AsRead)
    PROVE  /\ \A u \in Uses(ds) : u[2] \in Currencies
           /\ UNION {{ds[k].com, ds[k].cur} : k \in Kinds(ds, "price")} \subseteq Currencies
<1>1. \A k \in DOMAIN ds : ds[k] \in Directive
  BY ReadIsDirective
<1>2. \A k \in Kinds(ds, "balance") : ds[k].cur \in Currencies
  BY <1>1, KindIsType DEF Kinds, BalanceType
<1>3. \A k \in Kinds(ds, "price") : ds[k].cur \in Currencies /\ ds[k].com \in Currencies
  BY <1>1, KindIsType DEF Kinds, PriceType
<1>4. \A k \in Kinds(ds, "open") : ds[k].curs \subseteq Currencies
  BY <1>1, KindIsType DEF Kinds, OpenType
<1>5. Postings(ds) \subseteq Posting /\ Amounts(ds) \subseteq Posting
  <2>1. ASSUME NEW k \in Kinds(ds, "txn") PROVE ToSet(ds[k].posts) \subseteq Posting
    BY <1>1, PostsOfTransaction DEF Kinds, ToSet
  <2>2. Postings(ds) \subseteq Posting
    BY <2>1 DEF Postings
  <2> QED BY <2>2 DEF Amounts
<1>6. ASSUME NEW u \in Uses(ds) PROVE u[2] \in Currencies
  <2> DEFINE A == {<<ds[k].acct, ds[k].cur>> : k \in Kinds(ds, "balance")}
             B == UNION {{<<ds[k].acct, cur>> : cur \in ds[k].curs} : k \in Kinds(ds, "open")}
             C == {<<q.acct, q.cur>> : q \in Amounts(ds)}
             E == {<<q.acct, q.price.cur>> : q \in {r \in Postings(ds) : r.price # None}}
             F == {<<q.acct, q.cost.cur>> :
                      q \in {r \in Postings(ds) : IF r.cost = None THEN FALSE ELSE r.cost.stated}}
  <2>0. Uses(ds) = A \cup B \cup C \cup E \cup F
    BY DEF Uses
  <2>1. u \in A \/ u \in B \/ u \in C \/ u \in E \/ u \in F
    <3> HIDE DEF A, B, C, E, F
    <3> QED BY <2>0
  <2>2. u \in A => u[2] \in Currencies
    BY <1>2
  <2>3. u \in B => u[2] \in Currencies
    BY <1>4
  <2>4. u \in C => u[2] \in Currencies
    BY <1>5, PricedIn
  <2>5. u \in E => u[2] \in Currencies
    BY <1>5, PricedIn
  <2>6. u \in F => u[2] \in Currencies
    BY <1>5, PricedIn
  <2> QED BY <2>1, <2>2, <2>3, <2>4, <2>5, <2>6
<1> QED BY <1>3, <1>6

LEMMA CheckCommodityServes ==
    ASSUME NEW ds \in Seq(AsRead), NEW p, p.name = "check_commodity", Configured(p)
    PROVE  Serves(CheckCommodity(p, ds))
<1> DEFINE declared == {ds[k].cur : k \in Kinds(ds, "commodity")}
        pairs == IF p.config = None THEN <<>> ELSE p.config.pairs
        ignored(u) == \E k \in DOMAIN pairs :
                        /\ Compiles(pairs[k])
                        /\ u[1] \in pairs[k].scope /\ u[2] \in pairs[k].curs
        L(pair) == {k \in 1..2 : <<pair.scope, pair.curs>>[k] = Malformed}
        wrong(pair) == Those(<<pair.scope, pair.curs>>, L(pair))
        ss == [k \in DOMAIN pairs |-> wrong(pairs[k])]
        bad == FlattenSeq(ss)
        used == {u[2] : u \in {v \in Uses(ds) : ~ignored(v)}}
        priced == UNION {{ds[k].com, ds[k].cur} : k \in Kinds(ds, "price")}
        M == (used \cup (priced \ {u[2] : u \in Uses(ds)})) \ declared
        missing == SetToSeq(M)
        fs == [k \in DOMAIN bad |-> Finding("invalid-regexp", p, None)]
        gs == [k \in DOMAIN missing |-> Finding("missing-commodity", p, missing[k])]
<1>1. CheckCommodity(p, ds) = IF p.config = Malformed THEN Reports(<<Finding("invalid-config", p, None)>>)
                              ELSE Reports(fs \o gs)
  BY DEF CheckCommodity
<1>2. CASE p.config = Malformed
  <2>1. Finding("invalid-config", p, None).code \notin Refusals
    BY DEF Finding, Refusals
  <2>2. Tells(<<Finding("invalid-config", p, None)>>)
    BY <2>1, TellsOne
  <2> HIDE DEF fs, gs
  <2> QED BY <1>1, <1>2, <2>2, Reporting
<1>3. CASE p.config # Malformed
  <2>1. pairs \in Seq(Range(pairs))
    <3>1. CASE p.config = None
      BY <3>1
    <3>2. CASE p.config # None
      BY <1>3, <3>2 DEF Configured
    <3> QED BY <3>1, <3>2
  <2>2. M \subseteq Currencies
    BY CurrenciesUsed
  <2>3. gs = [k \in DOMAIN missing |-> gs[k]] /\ \A k \in DOMAIN missing : gs[k].code \notin Refusals
    BY DEF Finding, Refusals
  <2>4. fs = [k \in DOMAIN bad |-> fs[k]] /\ \A k \in DOMAIN bad : fs[k].code \notin Refusals
    BY DEF Finding, Refusals
  <2> DEFINE U == UNION {{pairs[k].scope, pairs[k].curs} : k \in DOMAIN pairs}
  <2>5. ASSUME NEW k \in DOMAIN pairs PROVE wrong(pairs[k]) \in Seq(U)
    <3> DEFINE two == <<pairs[k].scope, pairs[k].curs>>
               K == L(pairs[k])
    <3>1. two \in Seq(U) /\ DOMAIN two = 1..2
      <4>1. pairs[k].scope \in U /\ pairs[k].curs \in U
        OBVIOUS
      <4> HIDE DEF U, pairs
      <4> QED BY <4>1
    <3>2. \A j \in K : j \in 1..2
      OBVIOUS
    <3>3. wrong(pairs[k]) = Those(two, K)
      OBVIOUS
    <3> HIDE DEF two, K, U, wrong, pairs
    <3>4. Those(two, K) \in Seq(U)
      BY <3>1, <3>2, ThoseAreListed
    <3> QED BY <3>3, <3>4
  <2>6. ss = [k \in DOMAIN pairs |-> ss[k]] /\ \A k \in DOMAIN pairs : ss[k] = wrong(pairs[k])
    OBVIOUS
  <2> HIDE DEF M, fs, gs, wrong, U, pairs, ss
  <2>7. ss \in Seq(Seq(U))
    <3> DEFINE A == Range(pairs)
               B == Seq(U)
    <3>1. pairs \in Seq(A)
      BY <2>1
    <3>2. \A k \in DOMAIN pairs : ss[k] \in B
      BY <2>5, <2>6
    <3> HIDE DEF A, B
    <3>3. ss \in Seq(B)
      BY <2>6, <3>1, <3>2, MadeList
    <3> QED BY <3>3 DEF B
  <2>8. bad \in Seq(U)
    BY <2>7, FlattenHolds
  <2>9. IsFiniteSet(M)
    BY <2>2, FinitelyMany, FS_Subset
  <2>10. missing \in Seq(M)
    BY <2>9, SetsAreListed
  <2> HIDE DEF bad, missing
  <2>11. Tells(fs) /\ Tells(gs)
    BY <2>3, <2>4, <2>8, <2>10, TellsOfEach
  <2> QED BY <1>1, <1>3, <2>11, TellsBoth, Reporting
<1> QED BY <1>2, <1>3

\* Every plugin of pkg/ext/postproc/std.
LEMMA ApplyServes ==
    ASSUME NEW ds \in Seq(AsRead), NEW p \in AsRead, p.kind = "plugin", p.name \in Standard
    PROVE  Serves(Apply(p, ds))
<1>1. Configured(p)
  BY DEF AsRead
<1>2. CASE p.name \in {"auto_accounts", "check_closing", "check_drained", "close_tree",
                       "exclude_tag", "implicit_prices", "unique_prices"}
  BY <1>2, AutoAccountsServes, CheckClosingServes, CheckDrainedServes, CloseTreeServes,
     ExcludeTagServes, ImplicitPricesServes, UniquePricesServes DEF Apply
<1>3. CASE p.name \in {"leafonly", "noduplicates", "nounused", "coherent_cost",
                       "check_commodity", "onecommodity", "sellgains"}
  BY <1>1, <1>3, LeafOnlyServes, NoDuplicatesServes, NoUnusedServes, CoherentCostServes,
     CheckCommodityServes, OneCommodityServes, SellGainsServes DEF Apply
<1> QED BY <1>2, <1>3 DEF Standard

-----------------------------------------------------------------------------
(* The ledger: inserting numbers and sorting.                              *)

Numbers(ds) == [k \in DOMAIN ds |-> [dir |-> ds[k], seq |-> next + k - 1]]

LEMMA Numbering ==
    ASSUME NEW S \in SUBSET Directive, NEW ds \in Seq(S), next \in Nat
    PROVE  /\ Numbers(ds) \in Seq([dir : S, seq : Nat]) /\ Len(Numbers(ds)) = Len(ds)
           /\ Numbers(ds) \in Seq(Entry) /\ Numbered(Numbers(ds))
           /\ \A k \in DOMAIN ds : /\ Numbers(ds)[k].dir = ds[k]
                                   /\ Numbers(ds)[k].seq = next + k - 1
                                   /\ Numbers(ds)[k].seq < next + Len(ds)
<1> DEFINE es == Numbers(ds)
<1>1. DOMAIN ds = 1 .. Len(ds) /\ Len(ds) \in Nat /\ \A k \in DOMAIN ds : ds[k] \in S
  OBVIOUS
<1>2. \A k \in DOMAIN ds : /\ es[k] = [dir |-> ds[k], seq |-> next + k - 1]
                           /\ next + k - 1 \in Nat /\ next + k - 1 < next + Len(ds)
  BY <1>1 DEF Numbers
<1>3. es = [k \in DOMAIN ds |-> es[k]]
  BY DEF Numbers
<1> HIDE DEF es
<1> DEFINE R == [dir : S, seq : Nat]
<1>4. ASSUME NEW k \in DOMAIN ds PROVE es[k] \in R /\ es[k] \in Entry
  <2> DEFINE n == next + k - 1
             d == ds[k]
  <2>1. d \in S /\ d \in Directive /\ n \in Nat /\ es[k] = [dir |-> d, seq |-> n]
    BY <1>1, <1>2
  <2> HIDE DEF n, d
  <2> QED BY <2>1 DEF Entry
<1> HIDE DEF R
<1>5. es \in Seq(R) /\ Len(es) = Len(ds)
  BY <1>3, <1>4, MadeList
<1>7. es \in Seq(Entry)
  BY <1>3, <1>4, MadeList
<1>6. ASSUME NEW k \in DOMAIN ds PROVE es[k].dir = ds[k] /\ es[k].seq = next + k - 1
  <2>1. es[k] = [dir |-> ds[k], seq |-> next + k - 1]
    BY <1>2
  <2> QED BY <2>1
<1>8. Numbered(es)
  BY <1>1, <1>3, <1>6 DEF Numbered
<1>9. \A k \in DOMAIN ds : es[k].seq < next + Len(ds)
  BY <1>2, <1>6
<1> QED BY <1>5, <1>6, <1>7, <1>8, <1>9 DEF es, R

\* What ReplaceAll leaves is the directives given, each once, in order.
LEMMA Replacing ==
    ASSUME NEW S \in SUBSET Directive, NEW ds \in Seq(S), next \in Nat, ReplaceEntries(ds)
    PROVE  /\ entries' \in Seq(Entry) /\ InOrder(entries') /\ next' \in Nat
           /\ Len(entries') = Len(ds)
           /\ \A k \in DOMAIN entries' : entries'[k].dir \in S /\ entries'[k].seq < next'
           /\ \E at1 : Permutes(Numbers(ds), entries', at1)
<1> DEFINE es == Numbers(ds)
<1>1. entries' = Sorted(es) /\ next' = next + Len(ds)
  <2>1. entries' = Sorted(<<>> \o es) /\ next' = next + Len(ds)
    BY DEF ReplaceEntries, InsertAll, Numbers
  <2>2. es \in Seq(Entry)
    BY Numbering
  <2>3. <<>> \o es = es
    <3> HIDE DEF es
    <3> QED BY <2>2
  <2> QED BY <2>1, <2>3
<1>2. /\ es \in Seq(Entry) /\ Numbered(es) /\ Len(es) = Len(ds) /\ Len(ds) \in Nat
      /\ \A k \in DOMAIN ds : es[k].dir = ds[k] /\ es[k].seq < next + Len(ds)
  <2>1. /\ Numbers(ds) \in Seq(Entry) /\ Numbered(Numbers(ds)) /\ Len(Numbers(ds)) = Len(ds)
        /\ \A k \in DOMAIN ds : /\ Numbers(ds)[k].dir = ds[k]
                                /\ Numbers(ds)[k].seq < next + Len(ds)
    BY Numbering
  <2>2. Len(ds) \in Nat
    OBVIOUS
  <2> QED BY <2>1, <2>2
<1> HIDE DEF es
<1>3. /\ entries' \in Seq(Entry) /\ Len(entries') = Len(es) /\ InOrder(entries')
      /\ \E at1 : Permutes(es, entries', at1)
  BY <1>1, <1>2, SortingArranges
<1>4. PICK at1 : Permutes(es, entries', at1)
  BY <1>3
<1>5. DOMAIN es = DOMAIN ds /\ \A k \in DOMAIN ds : ds[k] \in S
  BY <1>2
<1>6. ASSUME NEW k \in DOMAIN entries' PROVE entries'[k].dir \in S /\ entries'[k].seq < next'
  <2>1. at1[k] \in DOMAIN ds /\ entries'[k] = es[at1[k]]
    BY <1>4, <1>5 DEF Permutes
  <2> QED BY <1>1, <1>2, <1>5, <2>1
<1> QED BY <1>1, <1>2, <1>3, <1>6 DEF es
-----------------------------------------------------------------------------
(* What postings put into accounts.                                        *)

Nums(ps) == [k \in DOMAIN ps |-> ps[k].num]
LEMMA SumOfNums ==
    ASSUME NEW ps, NEW S \in SUBSET DOMAIN ps, IsFiniteSet(S)
    PROVE  MapThenSumSet(LAMBDA k : ps[k].num, S) = Sum(Nums(ps), S)
<1> DEFINE Right(a) == a = [s \in SUBSET S |->
                IF s = {} THEN 0 ELSE ps[Picked(s)].num + a[Less(s, Picked(s))]]
           own == CHOOSE a : Right(a)
<1>1. MapThenSumSet(LAMBDA k : ps[k].num, S) = own[S]
  BY DEF MapThenSumSet, MapThenFoldSet, Picked, Less
<1>2. PICK sum : Adds(Nums(ps), S, sum)
  BY FoldExists
<1>3. \A s \in SUBSET S : s # {} => Nums(ps)[Picked(s)] = ps[Picked(s)].num
  BY PickedIsIn DEF Nums
<1> HIDE DEF Nums
<1>4. ASSUME NEW a PROVE Right(a) <=> Adds(Nums(ps), S, a)
  BY <1>3 DEF Adds
<1>5. \E a : Right(a)
  BY <1>2, <1>4
<1>6. Right(own)
  BY <1>5
<1> HIDE DEF Right, own
<1>7. own[S] = Sum(Nums(ps), S)
  BY <1>4, <1>6, SumIsAdded
<1> QED BY <1>1, <1>7

Moves(es, A, c) == [j \in DOMAIN es |-> Put(es[j].dir.posts, A, c)]
LEMMA SumOfMoves ==
    ASSUME NEW es, NEW A, NEW c, NEW S \in SUBSET DOMAIN es, IsFiniteSet(S)
    PROVE  MapThenSumSet(LAMBDA j : Put(es[j].dir.posts, A, c), S) = Sum(Moves(es, A, c), S)
<1> DEFINE Right(a) == a = [s \in SUBSET S |->
                IF s = {} THEN 0 ELSE Put(es[Picked(s)].dir.posts, A, c) + a[Less(s, Picked(s))]]
           own == CHOOSE a : Right(a)
<1>1. MapThenSumSet(LAMBDA j : Put(es[j].dir.posts, A, c), S) = own[S]
  BY DEF MapThenSumSet, MapThenFoldSet, Picked, Less
<1>2. PICK sum : Adds(Moves(es, A, c), S, sum)
  BY FoldExists
<1>3. \A s \in SUBSET S :
         s # {} => Moves(es, A, c)[Picked(s)] = Put(es[Picked(s)].dir.posts, A, c)
  BY PickedIsIn DEF Moves
<1> HIDE DEF Moves
<1>4. ASSUME NEW a PROVE Right(a) <=> Adds(Moves(es, A, c), S, a)
  BY <1>3 DEF Adds
<1>5. \E a : Right(a)
  BY <1>2, <1>4
<1>6. Right(own)
  BY <1>5
<1> HIDE DEF Right, own
<1>7. own[S] = Sum(Moves(es, A, c), S)
  BY <1>4, <1>6, SumIsAdded
<1> QED BY <1>1, <1>7

Holdings(held, c) == [a \in Accounts |-> held[a][c]]
LEMMA SumOfHoldings ==
    ASSUME NEW held, NEW c, NEW S \in SUBSET Accounts
    PROVE  MapThenSumSet(LAMBDA a : held[a][c], S) = Sum(Holdings(held, c), S)
<1> DEFINE Right(a) == a = [s \in SUBSET S |->
                IF s = {} THEN 0 ELSE held[Picked(s)][c] + a[Less(s, Picked(s))]]
           own == CHOOSE a : Right(a)
<1>0. IsFiniteSet(S)
  BY FinitelyMany, FS_Subset
<1>1. MapThenSumSet(LAMBDA a : held[a][c], S) = own[S]
  BY DEF MapThenSumSet, MapThenFoldSet, Picked, Less
<1>2. PICK sum : Adds(Holdings(held, c), S, sum)
  BY <1>0, FoldExists
<1>3. \A s \in SUBSET S : s # {} => Holdings(held, c)[Picked(s)] = held[Picked(s)][c]
  BY PickedIsIn DEF Holdings
<1> HIDE DEF Holdings
<1>4. ASSUME NEW a PROVE Right(a) <=> Adds(Holdings(held, c), S, a)
  BY <1>3 DEF Adds
<1>5. \E a : Right(a)
  BY <1>2, <1>4
<1>6. Right(own)
  BY <1>5
<1> HIDE DEF Right, own
<1>7. own[S] = Sum(Holdings(held, c), S)
  BY <1>0, <1>4, <1>6, SumIsAdded
<1> QED BY <1>1, <1>7

\* Postings to accounts A in currency c.
Into(ps, A, c) == {k \in DOMAIN ps : ps[k].acct \in A /\ ps[k].cur = c /\ HasAmount(ps[k])}

LEMMA PutIsSum ==
    ASSUME NEW ps \in Seq(Posting), NEW A, NEW c
    PROVE  /\ Into(ps, A, c) \in SUBSET DOMAIN ps /\ IsFiniteSet(Into(ps, A, c))
           /\ \A k \in Into(ps, A, c) : Nums(ps)[k] \in Int
           /\ Put(ps, A, c) = Sum(Nums(ps), Into(ps, A, c))
           /\ Put(ps, A, c) \in Int
<1> DEFINE K == Into(ps, A, c)
<1>1. K \in SUBSET DOMAIN ps
  BY DEF Into
<1>2. DOMAIN ps = 1 .. Len(ps) /\ Len(ps) \in Nat /\ \A k \in DOMAIN ps : ps[k] \in Posting
  OBVIOUS
<1>3. IsFiniteSet(DOMAIN ps)
  BY <1>2, FS_Interval
<1>4. IsFiniteSet(K)
  BY <1>1, <1>3, FS_Subset
<1>5. ASSUME NEW k \in K PROVE Nums(ps)[k] \in Int
  <2>1. k \in DOMAIN ps /\ ps[k].num # None
    BY DEF Into, HasAmount
  <2>2. ps[k].num \in Int
    BY <1>2, <2>1 DEF Posting
  <2> QED BY <2>1, <2>2 DEF Nums
<1>6. Put(ps, A, c) = MapThenSumSet(LAMBDA k : ps[k].num, K)
  BY DEF Put, Into
<1> HIDE DEF K
<1>7. Put(ps, A, c) = Sum(Nums(ps), K)
  BY <1>1, <1>4, <1>6, SumOfNums
<1>8. Sum(Nums(ps), K) \in Int
  BY <1>4, <1>5, SumType
<1> QED BY <1>1, <1>4, <1>5, <1>7, <1>8 DEF K

\* What goes into two sets of accounts apart.
LEMMA PutApart ==
    ASSUME NEW ps \in Seq(Posting), NEW A, NEW B, A \cap B = {}, NEW c
    PROVE  Put(ps, A \cup B, c) = Put(ps, A, c) + Put(ps, B, c)
<1> DEFINE K == Into(ps, A, c)
           L == Into(ps, B, c)
           W == A \cup B
<1>1. Into(ps, W, c) = K \cup L /\ \A x \in L : x \notin K
  BY DEF Into
<1>2. /\ IsFiniteSet(K) /\ IsFiniteSet(L)
      /\ \A x \in K \cup L : Nums(ps)[x] \in Int
      /\ Put(ps, A, c) = Sum(Nums(ps), K) /\ Put(ps, B, c) = Sum(Nums(ps), L)
  BY PutIsSum
<1> HIDE DEF K, L, W
<1>3. Put(ps, W, c) = Sum(Nums(ps), K \cup L)
  BY <1>1, PutIsSum
<1>4. Sum(Nums(ps), K \cup L) = Sum(Nums(ps), K) + Sum(Nums(ps), L)
  BY <1>1, <1>2, SumOfBoth
<1> QED BY <1>2, <1>3, <1>4 DEF W

LEMMA PutNowhere ==
    ASSUME NEW ps, NEW c
    PROVE  Put(ps, {}, c) = 0
<1>1. Into(ps, {}, c) = {}
  BY DEF Into
<1>2. {} \in SUBSET DOMAIN ps /\ IsFiniteSet({})
  BY FS_EmptySet
<1>3. Put(ps, {}, c) = MapThenSumSet(LAMBDA k : ps[k].num, Into(ps, {}, c))
  BY DEF Put, Into
<1>4. MapThenSumSet(LAMBDA k : ps[k].num, {}) = Sum(Nums(ps), {})
  BY <1>2, SumOfNums
<1> QED BY <1>1, <1>3, <1>4, SumEmpty

Balances == [Accounts -> [Currencies -> Int]]
LEMMA ZeroTypes == Zero \in Balances
BY DEF Zero, Balances

LEMMA AddedTypes ==
    ASSUME NEW held \in Balances, NEW ps \in Seq(Posting)
    PROVE  /\ Added(held, ps) \in Balances
           /\ \A a \in Accounts, c \in Currencies :
                  Added(held, ps)[a][c] = held[a][c] + Put(ps, {a}, c)
<1>1. \A a \in Accounts, c \in Currencies :
          Added(held, ps)[a][c] = held[a][c] + Put(ps, {a}, c)
  BY DEF Added
<1>2. \A a \in Accounts, c \in Currencies : held[a][c] + Put(ps, {a}, c) \in Int
  BY PutIsSum DEF Balances
<1>3. Added(held, ps) \in Balances
  BY <1>2 DEF Added, Balances
<1> QED BY <1>1, <1>3

LEMMA AtCostTypes ==
    ASSUME NEW ps \in Seq(Posting)
    PROVE  AtCost(ps) \in Seq(Posting)
<1> DEFINE K == {k \in DOMAIN ps : ps[k].cost # None}
<1>1. \A k \in K : k \in DOMAIN ps
  OBVIOUS
<1>2. AtCost(ps) = Those(ps, K)
  BY DEF AtCost
<1> HIDE DEF K
<1> QED BY <1>1, <1>2, ThoseAreListed
-----------------------------------------------------------------------------
AheadOf(list) == UNION {Asks(list[k].item) : k \in DOMAIN list}
Work == [item : Items \cup [kind : {"include", "match"}, path : Files],
         file : FileName, off : Nat]

Loaded ==
    /\ visited \subseteq Reachable
    /\ files \in Seq(Files) /\ IsInjective(files)
    /\ ToSet(files) = visited \cap DOMAIN disk
Asked ==
    /\ todo \in Seq(Work) /\ AheadOf(todo) \subseteq Reachable
    /\ Root \in visited \cup AheadOf(todo)
    /\ \A f \in visited : Included(f) \subseteq visited \cup AheadOf(todo)
LoadInv ==
    /\ disk \in Disks /\ Loaded
    /\ stage = "load" => Asked
    /\ stage # "load" => visited = Reachable
-----------------------------------------------------------------------------
\* What a file includes is a set of files.
LEMMA IncludedFiles ==
    ASSUME disk \in Disks, NEW f
    PROVE  Included(f) \subseteq Files
  <1>1. CASE f \in DOMAIN disk
    <2>1. disk[f] \in Seq(Items)  BY <1>1, DisksHoldItems
    <2>2. Range(disk[f]) \subseteq Items  BY <2>1 DEF Range
    <2> QED  BY <1>1, <2>2, ItemsAskForFiles DEF Included
  <1>2. CASE f \notin DOMAIN disk  BY <1>2 DEF Included
  <1> QED  BY <1>1, <1>2

\* The files reached are the least closed set of files.
LEMMA ReachableIsLeast ==
    ASSUME disk \in Disks
    PROVE  /\ Reachable \subseteq Files
           /\ Root \in Reachable
           /\ \A f \in Reachable : Included(f) \subseteq Reachable
           /\ \A S \in SUBSET Files : Closed(S) => Reachable \subseteq S
  <1>1. Reachable \subseteq Files  BY DEF Reachable
  <1>2. Root \in Reachable  BY RootIsAFile DEF Reachable, Closed
  <1>3. ASSUME NEW f \in Reachable, NEW g \in Included(f) PROVE g \in Reachable
    <2>1. g \in Files  BY IncludedFiles
    <2>2. ASSUME NEW S \in SUBSET Files, Closed(S) PROVE g \in S
      BY <1>3, <2>2 DEF Reachable, Closed
    <2> QED  BY <2>1, <2>2 DEF Reachable
  <1>4. \A S \in SUBSET Files : Closed(S) => Reachable \subseteq S
    BY DEF Reachable
  <1> QED  BY <1>1, <1>2, <1>3, <1>4

\* What the work list asks for: of its first item and of the rest, of two
\* lists, of the items of a file and of the matches of a glob.
LEMMA AheadOfHeadAndTail ==
    ASSUME NEW t \in Seq(Work), t # <<>>
    PROVE  /\ Head(t) \in Work /\ Tail(t) \in Seq(Work)
           /\ AheadOf(t) = Asks(Head(t).item) \cup AheadOf(Tail(t))
  <1>1. Head(t) \in Work /\ Tail(t) \in Seq(Work) /\ Head(t) = t[1]  OBVIOUS
  <1>2. DOMAIN t = 1..Len(t) /\ Len(t) \in Nat \ {0}  OBVIOUS
  <1>3. DOMAIN Tail(t) = 1..(Len(t) - 1) /\ \A k \in DOMAIN Tail(t) : Tail(t)[k] = t[k + 1]
    OBVIOUS
  <1>4. \A k \in DOMAIN t : k = 1 \/ (k - 1 \in DOMAIN Tail(t) /\ t[k] = Tail(t)[k - 1])
    BY <1>2, <1>3
  <1>5. \A k \in DOMAIN Tail(t) : k + 1 \in DOMAIN t  BY <1>2, <1>3
  <1>6. 1 \in DOMAIN t  BY <1>2
  <1>7. AheadOf(t) \subseteq Asks(Head(t).item) \cup AheadOf(Tail(t))
    BY <1>1, <1>4, Zenon DEF AheadOf
  <1>8. Asks(Head(t).item) \cup AheadOf(Tail(t)) \subseteq AheadOf(t)
    BY <1>1, <1>3, <1>5, <1>6, Zenon DEF AheadOf
  <1> QED  BY <1>1, <1>7, <1>8

LEMMA AheadOfConcat ==
    ASSUME NEW s \in Seq(Work), NEW t \in Seq(Work)
    PROVE  s \o t \in Seq(Work) /\ AheadOf(s \o t) = AheadOf(s) \cup AheadOf(t)
  <1>1. s \o t \in Seq(Work)  OBVIOUS
  <1>2. DOMAIN s = 1..Len(s) /\ DOMAIN t = 1..Len(t)  OBVIOUS
  <1>3. DOMAIN (s \o t) = 1..(Len(s) + Len(t)) /\ Len(s) \in Nat /\ Len(t) \in Nat
    OBVIOUS
  <1>4. \A k \in DOMAIN (s \o t) : (s \o t)[k] = IF k <= Len(s) THEN s[k] ELSE t[k - Len(s)]
    OBVIOUS
  <1>5. \A k \in DOMAIN s : k \in DOMAIN (s \o t) /\ (s \o t)[k] = s[k]
    BY <1>2, <1>3, <1>4
  <1>6. \A k \in DOMAIN t : /\ k + Len(s) \in DOMAIN (s \o t)
                            /\ (s \o t)[k + Len(s)] = t[k]
    BY <1>2, <1>3, <1>4
  <1>7. \A k \in DOMAIN (s \o t) :
          \/ k \in DOMAIN s /\ (s \o t)[k] = s[k]
          \/ k - Len(s) \in DOMAIN t /\ (s \o t)[k] = t[k - Len(s)]
    BY <1>2, <1>3, <1>4
  <1>8. AheadOf(s \o t) \subseteq AheadOf(s) \cup AheadOf(t)
    BY <1>7, Zenon DEF AheadOf
  <1>9. AheadOf(s) \cup AheadOf(t) \subseteq AheadOf(s \o t)
    BY <1>5, <1>6, Zenon DEF AheadOf
  <1> QED  BY <1>1, <1>8, <1>9

LEMMA AheadOfFile ==
    ASSUME disk \in Disks, NEW f \in DOMAIN disk
    PROVE  Lowered(f) \in Seq(Work) /\ AheadOf(Lowered(f)) = Included(f)
  <1>1. disk[f] \in Seq(Items) /\ f \in Files  BY DisksHoldItems
  <1>2. f \in FileName  BY <1>1 DEF FileName
  <1>3. DOMAIN Lowered(f) = DOMAIN disk[f]  BY DEF Lowered
  <1>4. \A k \in DOMAIN disk[f] :
          Lowered(f)[k] = [item |-> disk[f][k], file |-> f, off |-> k]  BY DEF Lowered
  <1>5. DOMAIN disk[f] = 1..Len(disk[f]) /\ \A k \in DOMAIN disk[f] : disk[f][k] \in Items
    BY <1>1
  <1>6. ASSUME NEW k \in DOMAIN disk[f] PROVE Lowered(f)[k] \in Work
    <2>1. k \in Nat  BY <1>1, <1>5
    <2>2. Lowered(f)[k] = [item |-> disk[f][k], file |-> f, off |-> k]  BY <1>4
    <2> QED  BY <1>2, <1>5, <2>1, <2>2 DEF Work
  <1>7. Lowered(f) = [k \in 1..Len(disk[f]) |-> Lowered(f)[k]]  BY <1>5 DEF Lowered
  <1>8. Lowered(f) \in Seq(Work)
    <2>1. Len(disk[f]) \in Nat  BY <1>1
    <2>2. Lowered(f) \in [1..Len(disk[f]) -> Work]  BY <1>5, <1>6, <1>7
    <2> QED  BY <2>1, <2>2, SeqDef
  <1>9. AheadOf(Lowered(f)) = UNION {Asks(disk[f][k]) : k \in DOMAIN disk[f]}
    BY <1>3, <1>4 DEF AheadOf
  <1>10. Included(f) = UNION {Asks(disk[f][k]) : k \in DOMAIN disk[f]}
    BY Zenon DEF Included, Range
  <1> QED  BY <1>8, <1>9, <1>10

LEMMA AheadOfMatches ==
    ASSUME NEW p \in Seq(Files), NEW g \in Work
    PROVE  LET list == [k \in DOMAIN p |-> Match(p[k], g)]
           IN  list \in Seq(Work) /\ AheadOf(list) = Range(p)
  <1> DEFINE list == [k \in DOMAIN p |-> Match(p[k], g)]
  <1>1. DOMAIN p = 1..Len(p) /\ Len(p) \in Nat /\ \A k \in DOMAIN p : p[k] \in Files
    OBVIOUS
  <1>2. \A k \in DOMAIN p : list[k] \in Work /\ Asks(list[k].item) = {p[k]}
    BY <1>1 DEF Match, Work, Asks
  <1>3. list \in [1..Len(p) -> Work]  BY <1>1, <1>2
  <1>4. list \in Seq(Work)  BY <1>1, <1>3, SeqDef
  <1>5. AheadOf(list) = UNION {{p[k]} : k \in DOMAIN p}
    BY <1>2 DEF AheadOf
  <1>6. AheadOf(list) = Range(p)  BY <1>5 DEF Range
  <1> QED  BY <1>4, <1>6
-----------------------------------------------------------------------------
LEMMA Starting == Init => LoadInv
  <1> SUFFICES ASSUME Init PROVE LoadInv  OBVIOUS
  <1> DEFINE w == Include(Root)
  <1>1. disk \in Disks /\ stage = "load" /\ visited = {} /\ files = <<>> /\ todo = <<w>>
    BY DEF Init
  <1>2. w \in Work /\ Asks(w.item) = {Root}
    BY RootIsAFile DEF FileName, Include, Work, Asks, NoFile
  <1>3. todo \in Seq(Work)  BY <1>1, <1>2
  <1>4. AheadOf(todo) = {Root}
    <2>1. DOMAIN todo = {1} /\ todo[1] = w  BY <1>1
    <2> QED  BY <1>2, <2>1 DEF AheadOf
  <1>5. Root \in Reachable  BY <1>1, ReachableIsLeast
  <1>6. Asked  BY <1>1, <1>3, <1>4, <1>5 DEF Asked
  <1>7. Loaded
    <2>1. files \in Seq(Files) /\ DOMAIN files = {}  BY <1>1
    <2>2. ToSet(files) = {}  BY <2>1 DEF ToSet
    <2> QED  BY <1>1, <2>1, <2>2 DEF Loaded, IsInjective
  <1> QED  BY <1>1, <1>6, <1>7 DEF LoadInv

\* The disk is an input: what a file includes and what is reached stay.
LEMMA SameDisk ==
    ASSUME disk' = disk
    PROVE  Reachable' = Reachable /\ \A f : Included(f)' = Included(f)
  BY DEF Reachable, Included, Closed

\* A work list item that is done: a directive, a file met already, an expanded
\* glob.  What it asks for has been met or is still asked for.
LEMMA ItemDone ==
    ASSUME LoadInv, stage = "load", todo \in Seq(Work), todo' \in Seq(Work),
           disk' = disk, stage' = stage, visited' = visited, files' = files,
           AheadOf(todo) \subseteq visited \cup AheadOf(todo'),
           AheadOf(todo') \subseteq AheadOf(todo)
    PROVE  LoadInv'
  <1>1. Reachable' = Reachable /\ \A f : Included(f)' = Included(f)  BY SameDisk
  <1>2. Asked /\ Loaded /\ disk \in Disks  BY DEF LoadInv
  <1>3. AheadOf(todo)' = AheadOf(todo')  BY DEF AheadOf
  <1>4. Asked'  BY <1>1, <1>2, <1>3 DEF Asked
  <1>5. Loaded'  BY <1>1, <1>2 DEF Loaded
  <1> QED  BY <1>2, <1>4, <1>5 DEF LoadInv

\* A file asked for is visited: what it includes is asked for next.
LEMMA FileLoaded ==
    ASSUME LoadInv, stage = "load", todo # <<>>, disk' = disk, stage' = stage,
           NEW f, Asks(Head(todo).item) = {f}, f \notin visited, LoadFile(f)
    PROVE  LoadInv'
  <1>1. Reachable' = Reachable /\ \A g : Included(g)' = Included(g)  BY SameDisk
  <1>2. Asked /\ Loaded /\ disk \in Disks  BY DEF LoadInv
  <1>3. /\ Head(todo) \in Work /\ Tail(todo) \in Seq(Work)
        /\ AheadOf(todo) = {f} \cup AheadOf(Tail(todo))
    BY <1>2, AheadOfHeadAndTail DEF Asked
  <1>4. f \in Reachable  BY <1>2, <1>3 DEF Asked
  <1>5. f \in Files /\ Included(f) \subseteq Reachable  BY <1>2, <1>4, ReachableIsLeast
  <1>6. visited' = visited \cup {f}  BY DEF LoadFile
  <1>7. todo' \in Seq(Work) /\ AheadOf(todo') = Included(f) \cup AheadOf(Tail(todo))
    <2>1. CASE f \in DOMAIN disk
      <3>1. todo' = Lowered(f) \o Tail(todo)  BY <2>1 DEF LoadFile
      <3>2. Lowered(f) \in Seq(Work) /\ AheadOf(Lowered(f)) = Included(f)
        BY <1>2, <2>1, AheadOfFile
      <3> QED  BY <1>3, <3>1, <3>2, AheadOfConcat
    <2>2. CASE f \notin DOMAIN disk
      <3>1. todo' = Tail(todo)  BY <2>2 DEF LoadFile
      <3>2. Included(f) = {}  BY <2>2 DEF Included
      <3> QED  BY <1>3, <3>1, <3>2
    <2> QED  BY <2>1, <2>2
  <1>8. AheadOf(todo)' = AheadOf(todo')  BY DEF AheadOf
  <1>9. Asked'
    <2>1. AheadOf(todo') \subseteq Reachable  BY <1>2, <1>3, <1>5, <1>7 DEF Asked
    <2>2. Root \in visited' \cup AheadOf(todo')  BY <1>2, <1>3, <1>6, <1>7 DEF Asked
    <2>3. ASSUME NEW g \in visited' PROVE Included(g) \subseteq visited' \cup AheadOf(todo')
      BY <1>2, <1>3, <1>6, <1>7 DEF Asked
    <2> QED  BY <1>1, <1>7, <1>8, <2>1, <2>2, <2>3 DEF Asked
  <1>10. files' \in Seq(Files) /\ IsInjective(files') /\ ToSet(files') = visited' \cap DOMAIN disk
    <2>1. CASE f \notin DOMAIN disk
      <3>1. files' = files  BY <2>1 DEF LoadFile
      <3> QED  BY <1>2, <1>6, <2>1, <3>1 DEF Loaded
    <2>2. CASE f \in DOMAIN disk
      <3>1. files' = Append(files, f) /\ files \in Seq(Files)
        BY <1>2, <2>2 DEF LoadFile, Loaded
      <3>2. /\ files' \in Seq(Files) /\ Len(files) \in Nat
            /\ DOMAIN files' = 1..(Len(files) + 1) /\ DOMAIN files = 1..Len(files)
            /\ \A k \in DOMAIN files : files'[k] = files[k]
            /\ files'[Len(files) + 1] = f
        BY <1>5, <3>1
      <3>3. DOMAIN files' = DOMAIN files \cup {Len(files) + 1}  BY <3>2
      <3>4. ToSet(files') = ToSet(files) \cup {f}
        <4>1. ASSUME NEW x \in ToSet(files') PROVE x \in ToSet(files) \cup {f}
          <5>1. PICK k \in DOMAIN files' : files'[k] = x  BY <4>1 DEF ToSet
          <5> QED  BY <3>2, <3>3, <5>1 DEF ToSet
        <4>2. ASSUME NEW x \in ToSet(files) PROVE x \in ToSet(files')
          <5>1. PICK k \in DOMAIN files : files[k] = x  BY <4>2 DEF ToSet
          <5> QED  BY <3>2, <3>3, <5>1 DEF ToSet
        <4>3. f \in ToSet(files')  BY <3>2, <3>3 DEF ToSet
        <4> QED  BY <4>1, <4>2, <4>3
      <3>5. f \notin ToSet(files)  BY <1>2 DEF Loaded
      <3>6. \A k \in DOMAIN files : files[k] # f  BY <3>5 DEF ToSet
      <3>7. IsInjective(files')
        <4>1. \A a, b \in DOMAIN files : files[a] = files[b] => a = b
          BY <1>2 DEF Loaded, IsInjective
        <4>2. ASSUME NEW a \in DOMAIN files', NEW b \in DOMAIN files', files'[a] = files'[b]
              PROVE  a = b
          <5>1. CASE a \in DOMAIN files /\ b \in DOMAIN files
            BY <3>2, <4>1, <4>2, <5>1
          <5>2. CASE a = Len(files) + 1 \/ b = Len(files) + 1
            BY <3>2, <3>3, <3>6, <4>2, <5>2
          <5> QED  BY <3>3, <5>1, <5>2
        <4> QED  BY <4>2 DEF IsInjective
      <3> QED  BY <1>2, <1>6, <2>2, <3>2, <3>4, <3>7 DEF Loaded
    <2> QED  BY <2>1, <2>2
  <1>11. Loaded'  BY <1>1, <1>2, <1>4, <1>6, <1>10 DEF Loaded
  <1> QED  BY <1>2, <1>9, <1>11 DEF LoadInv

\* When nothing is asked for, the files met are all the files reached.
LEMMA NothingAhead ==
    ASSUME LoadInv, stage = "load", todo = <<>>
    PROVE  visited = Reachable
  <1>1. Asked /\ Loaded /\ disk \in Disks  BY DEF LoadInv
  <1>2. AheadOf(todo) = {}  BY DEF AheadOf
  <1>3. Closed(visited)  BY <1>1, <1>2 DEF Asked, Closed
  <1>4. visited \subseteq Reachable  BY <1>1 DEF Loaded
  <1> QED  BY <1>1, <1>3, <1>4, ReachableIsLeast

\* Steps of the pipeline and of the context leave the files alone.
LEMMA NotLoading ==
    ASSUME LoadInv, UNCHANGED <<inputs, loadVars>>,
           stage' = stage \/ (stage # "load" /\ stage' # "load")
    PROVE  LoadInv'
  <1>1. disk' = disk /\ todo' = todo /\ visited' = visited /\ files' = files
    BY DEF inputs, loadVars
  <1>2. Reachable' = Reachable /\ \A f : Included(f)' = Included(f)  BY <1>1, SameDisk
  <1>3. Loaded'  BY <1>1, <1>2 DEF LoadInv, Loaded
  <1>4. AheadOf(todo)' = AheadOf(todo)  BY <1>1 DEF AheadOf
  <1>5. Asked => Asked'  BY <1>1, <1>2, <1>4 DEF Asked
  <1> QED  BY <1>1, <1>2, <1>3, <1>5 DEF LoadInv
-----------------------------------------------------------------------------
\* The steps that visit the work list.
LEMMA ListStep ==
    ASSUME LoadInv, Loading
    PROVE  LoadInv'
  <1>1. stage = "load" /\ todo # <<>>
    BY DEF Loading, ReadDirective, IncludeFile, ExpandGlob, IncludeMatch, Visiting
  <1>2. disk' = disk /\ stage' = stage
    BY DEF Loading, ReadDirective, IncludeFile, ExpandGlob, IncludeMatch, LoadFrame, inputs
  <1>3. Asked  BY <1>1 DEF LoadInv
  <1>4. todo \in Seq(Work)  BY <1>3 DEF Asked
  <1>5. /\ Head(todo) \in Work /\ Tail(todo) \in Seq(Work)
        /\ AheadOf(todo) = Asks(Item) \cup AheadOf(Tail(todo))
    BY <1>1, <1>4, AheadOfHeadAndTail DEF Item
  <1>6. CASE ReadDirective
    <2>1. Item.kind \notin {"include", "match", "glob"}
      BY <1>6 DEF ReadDirective, Visiting, Rank
    <2>2. Asks(Item) = {}  BY <2>1 DEF Asks
    <2>3. todo' = Tail(todo) /\ visited' = visited /\ files' = files
      BY <1>6 DEF ReadDirective
    <2>4. AheadOf(todo') = AheadOf(todo)  BY <1>5, <2>2, <2>3
    <2> QED  BY <1>1, <1>2, <1>4, <1>5, <2>3, <2>4, ItemDone
  <1>7. ASSUME NEW kind \in {"include", "match"}, Item.kind = kind,
               IF Item.path \in visited
               THEN todo' = Tail(todo) /\ visited' = visited /\ files' = files
               ELSE LoadFile(Item.path)
        PROVE  LoadInv'
    <2>1. Asks(Item) = {Item.path}  BY <1>7 DEF Asks
    <2>2. CASE Item.path \in visited
      <3>1. todo' = Tail(todo) /\ visited' = visited /\ files' = files
        BY <1>7, <2>2
      <3>2. /\ AheadOf(todo) \subseteq visited \cup AheadOf(todo')
            /\ AheadOf(todo') \subseteq AheadOf(todo)
        BY <1>5, <2>1, <2>2, <3>1
      <3> QED  BY <1>1, <1>2, <1>4, <1>5, <3>1, <3>2, ItemDone
    <2>3. CASE Item.path \notin visited
      <3>1. LoadFile(Item.path)  BY <1>7, <2>3
      <3> QED  BY <1>1, <1>2, <2>1, <2>3, <3>1, FileLoaded DEF Item
    <2> QED  BY <2>2, <2>3
  <1>8. CASE IncludeFile
    <2>1. Item.kind = "include"  BY <1>8 DEF IncludeFile, Visiting
    <2>2. IF Item.path \in visited
          THEN todo' = Tail(todo) /\ visited' = visited /\ files' = files
          ELSE LoadFile(Item.path)
      BY <1>8 DEF IncludeFile, Skip
    <2> QED  BY <1>7, <2>1, <2>2
  <1>9. CASE IncludeMatch
    <2>1. Item.kind = "match"  BY <1>9 DEF IncludeMatch, Visiting
    <2>2. IF Item.path \in visited
          THEN todo' = Tail(todo) /\ visited' = visited /\ files' = files
          ELSE LoadFile(Item.path)
      BY <1>9 DEF IncludeMatch, Skip
    <2> QED  BY <1>7, <2>1, <2>2
  <1>10. CASE ExpandGlob
    <2> DEFINE p == Item.paths
               list == [k \in DOMAIN p |-> Match(p[k], Head(todo))]
    <2>1. Item.kind = "glob"  BY <1>10 DEF ExpandGlob, Visiting
    <2>2. Item \in Items  BY <1>5, <2>1 DEF Work, Item
    <2>3. p \in Seq(Files)  BY <2>1, <2>2, ItemsAskForFiles
    <2>4. list \in Seq(Work) /\ AheadOf(list) = Range(p)
      BY <1>5, <2>3, AheadOfMatches
    <2>5. Asks(Item) = Range(p)  BY <2>1 DEF Asks
    <2>6. todo' = list \o Tail(todo) /\ visited' = visited /\ files' = files
      BY <1>10 DEF ExpandGlob
    <2>7. todo' \in Seq(Work) /\ AheadOf(todo') = AheadOf(list) \cup AheadOf(Tail(todo))
      <3> HIDE DEF list
      <3> QED  BY <1>5, <2>4, <2>6, AheadOfConcat
    <2>8. AheadOf(todo') = AheadOf(todo)  BY <1>5, <2>4, <2>5, <2>7
    <2> QED  BY <1>1, <1>2, <1>4, <2>6, <2>7, <2>8, ItemDone
  <1> QED  BY <1>6, <1>8, <1>9, <1>10 DEF Loading

\* The passes do not touch the files, and none leads back to loading.
LEMMA Passing ==
    ASSUME LoadInv, Canceled \/ VerifyDocuments \/ Book \/ BookingHalts \/ RunPlugins
    PROVE  LoadInv'
  <1>1. CASE Canceled
    BY <1>1, NotLoading DEF Canceled, CheckPoint, Fail
  <1>2. CASE VerifyDocuments
    BY <1>2, NotLoading DEF VerifyDocuments, PassFrame
  <1>3. CASE Book \/ BookingHalts
    BY <1>3, NotLoading DEF Book, BookingHalts, ToPlugins, PassFrame
  <1>4. CASE RunPlugins
    <2>1. stage = "plugins" /\ stage' # "load"
      BY <1>4 DEF RunPlugins, UnknownPlugin, PluginChangesNothing, PluginAdds,
         PluginRemoves, PluginFails, RunPlugin, PluginCanceled, Host, EndPlugins, AtPlugin, NextPlugin, Fail
    <2>2. UNCHANGED <<inputs, loadVars>>
      BY <1>4 DEF RunPlugins, UnknownPlugin, PluginChangesNothing, PluginAdds,
         PluginRemoves, PluginFails, RunPlugin, PluginCanceled, Host, EndPlugins, NextPlugin, PassFrame, Fail
    <2> QED  BY <2>1, <2>2, NotLoading
  <1> QED  BY <1>1, <1>2, <1>3, <1>4

LEMMA Walking ==
    ASSUME LoadInv, Pad \/ Balance \/ Validations
    PROVE  LoadInv'
  <1>1. UNCHANGED <<inputs, loadVars>>
    <2>1. CASE Pad
      BY <2>1 DEF Pad, BeginPad, PadTransaction, RecordPad, NoPad, AlreadyPadded,
         NothingMissing, HeldAtCost, InsertPadding, PadPasses, EndPad, InForce,
         Asserts, PadFrame, WalkFrame
    <2>2. CASE Balance
      BY <2>2 DEF Balance, BeginBalance, BalanceTransaction, CheckBalance,
         BalancePasses, EndBalance, BalanceFrame, WalkFrame
    <2>3. CASE Validations
      BY <2>3 DEF Validations, BeginValidations, ValidateEntry, EndValidations,
         PassFrame
    <2> QED  BY <2>1, <2>2, <2>3
  <1>2. stage # "load" /\ stage' # "load"
    <2>1. CASE Pad
      BY <2>1 DEF Pad, BeginPad, PadTransaction, RecordPad, NoPad, AlreadyPadded,
         NothingMissing, HeldAtCost, InsertPadding, PadPasses, EndPad, InForce,
         Asserts, PadFrame, Begins, Visits, Ends
    <2>2. CASE Balance
      BY <2>2 DEF Balance, BeginBalance, BalanceTransaction, CheckBalance,
         BalancePasses, EndBalance, BalanceFrame, Begins, Visits, Ends
    <2>3. CASE Validations
      BY <2>3 DEF Validations, BeginValidations, ValidateEntry, EndValidations,
         Begins, Visits, Ends
    <2> QED  BY <2>1, <2>2, <2>3
  <1> QED  BY <1>1, <1>2, NotLoading

LEMMA Stepping == LoadInv /\ [Next]_vars => LoadInv'
  <1> SUFFICES ASSUME LoadInv, [Next]_vars PROVE LoadInv'  OBVIOUS
  <1>1. CASE Loading  BY <1>1, ListStep
  <1>2. CASE FinishLoading
    <2>1. visited = Reachable  BY <1>2, NothingAhead DEF FinishLoading
    <2>2. disk' = disk /\ visited' = visited /\ files' = files
      BY <1>2 DEF FinishLoading, inputs, loadVars
    <2>3. stage' # "load"  BY <1>2 DEF FinishLoading
    <2>4. Reachable' = Reachable  BY <2>2, SameDisk
    <2>5. Loaded'  BY <2>2, <2>4 DEF LoadInv, Loaded
    <2> QED  BY <2>1, <2>2, <2>3, <2>4, <2>5 DEF LoadInv
  <1>3. CASE Cancel  BY <1>3, NotLoading DEF Cancel
  <1>4. CASE Canceled \/ VerifyDocuments \/ Book \/ BookingHalts \/ RunPlugins
    BY <1>4, Passing
  <1>5. CASE Pad \/ Balance \/ Validations  BY <1>5, Walking
  <1>6. CASE UNCHANGED vars  BY <1>6, NotLoading DEF vars
  <1> QED  BY <1>1, <1>2, <1>3, <1>4, <1>5, <1>6 DEF Next, Ended

\* Whatever the files contain, loading ends with each readable file that the
\* root reaches loaded once, and no other (loadFile, handleInclude).
THEOREM IncludesLoaded == Spec => []EveryIncludeIsLoaded
  <1>1. LoadInv => EveryIncludeIsLoaded
    BY DEF LoadInv, Loaded, EveryIncludeIsLoaded
  <1> QED  BY <1>1, Starting, Stepping, PTL DEF Spec
-----------------------------------------------------------------------------
(* Types.  Up to the balance pass the directives are as they could have    *)
(* been read; while the pad pass runs, what is pending points at a pad of  *)
(* the account.                                                            *)

Unchecked == {"load", "document", "booking", "plugins", "pad", "balance"}
Walks == {"pad", "balance", "validations"}

LedgerInv ==
    /\ entries \in Seq(Entry) /\ InOrder(entries) /\ next \in Nat
    /\ \A k \in DOMAIN entries : entries[k].seq < next
    /\ stage = "load" => entries = <<>>
    /\ stage \in Unchecked => \A k \in DOMAIN entries : entries[k].dir \in AsRead
PlaceInv ==
    /\ stage \in Stages /\ raw \in BOOLEAN /\ live \in BOOLEAN
    /\ at \in 0 .. Len(entries) + 1 /\ (stage \notin Walks => at = 0)
SumsInv == sums \in Balances /\ costs \in Balances
PadInv ==
    /\ pending \in [Accounts -> PendingPad \cup {None}]
    /\ padding \in Seq(Seq(TransactionType))
    /\ stage = "pad" /\ at # 0 =>
          /\ DOMAIN padding = DOMAIN entries
          /\ \A a \in Accounts : pending[a] # None =>
                /\ pending[a].at \in DOMAIN entries
                /\ entries[pending[a].at].dir.kind = "pad"
                /\ entries[pending[a].at].dir.acct = a
PluginsRead == {d \in AsRead : d.kind = "plugin"}
ListsInv ==
    /\ directives \in Seq(AsRead) /\ queue \in Seq(PluginsRead) /\ out \in Seq(Directive)
Typed == LedgerInv /\ PlaceInv /\ SumsInv /\ PadInv /\ ListsInv

-----------------------------------------------------------------------------
\* The ledger as a list of directives.
LEMMA AllTypes ==
    ASSUME LedgerInv
    PROVE  /\ All \in Seq(Directive) /\ Len(All) = Len(entries) /\ DOMAIN All = DOMAIN entries
           /\ \A k \in DOMAIN entries : All[k] = entries[k].dir /\ entries[k].dir \in Directive
           /\ stage \in Unchecked => All \in Seq(AsRead)
<1>1. entries \in Seq(Entry) /\ All = [k \in DOMAIN entries |-> All[k]]
  BY DEF LedgerInv, All
<1>2. \A k \in DOMAIN entries : All[k] = entries[k].dir
  BY DEF All
<1>3. ASSUME NEW k \in DOMAIN entries PROVE entries[k].dir \in Directive
  <2>1. entries[k] \in Entry
    BY <1>1
  <2> QED BY <2>1 DEF Entry
<1>4. All \in Seq(Directive) /\ Len(All) = Len(entries)
  BY <1>1, <1>2, <1>3, MadeList
<1>5. ASSUME stage \in Unchecked PROVE All \in Seq(AsRead)
  <2>1. \A k \in DOMAIN entries : All[k] \in AsRead
    BY <1>2, <1>5 DEF LedgerInv
  <2> QED BY <1>1, <2>1, MadeList
<1>6. DOMAIN All = DOMAIN entries
  BY <1>1
<1> QED BY <1>2, <1>3, <1>4, <1>5, <1>6

\* The plugins a ledger names.
LEMMA NamedTypes ==
    ASSUME NEW es \in Seq(Entry), \A k \in DOMAIN es : es[k].dir \in AsRead
    PROVE  Named(es) \in Seq(PluginsRead)
<1> DEFINE ds == [k \in DOMAIN es |-> es[k].dir]
           K == Kinds(ds, "plugin")
<1>1. ds \in Seq(AsRead)
  <2>1. ds = [k \in DOMAIN es |-> ds[k]] /\ \A k \in DOMAIN es : ds[k] \in AsRead
    OBVIOUS
  <2> HIDE DEF ds
  <2> QED BY <2>1, MadeList
<1>2. Named(es) = Those(ds, K)
  BY DEF Named
<1>3. K \in SUBSET DOMAIN ds /\ \A k \in K : ds[k].kind = "plugin"
  BY DEF Kinds
<1> HIDE DEF ds, K
<1>4. \A k \in K : ds[k] \in PluginsRead
  BY <1>1, <1>3 DEF PluginsRead
<1>5. Those(ds, K) \in Seq(ToSet(Those(ds, K))) /\ ToSet(Those(ds, K)) \subseteq PluginsRead
  BY <1>1, <1>3, <1>4, ThoseHold, Itemized
<1>6. Those(ds, K) \in Seq(PluginsRead)
  <2> DEFINE T == ToSet(Those(ds, K))
  <2>1. Those(ds, K) \in Seq(T) /\ T \subseteq PluginsRead
    BY <1>5
  <2> HIDE DEF T
  <2> QED BY <2>1
<1> QED BY <1>2, <1>6

\* A directive stays one wherever it is put.
LEMMA PlacedRead ==
    ASSUME NEW d \in AsRead, NEW f \in FileName, NEW n \in Nat
    PROVE  [d EXCEPT !.file = f, !.off = n] \in AsRead
<1> DEFINE e == [d EXCEPT !.file = f, !.off = n]
<1>1. d \in Directive
  BY DEF AsRead
<1>2. /\ d \in PluginType => e \in PluginType /\ e.kind = "plugin" /\ e.name = d.name
                             /\ e.config = d.config /\ d.kind = "plugin"
      /\ d \in OpenType => e \in OpenType /\ e.kind = "open"
      /\ d \in CloseType => e \in CloseType /\ e.kind = "close"
  BY DEF PluginType, OpenType, CloseType
<1>3. /\ d \in BalanceType => e \in BalanceType /\ e.diff = d.diff /\ e.kind = "balance"
                              /\ d.kind = "balance"
      /\ d \in PadType => e \in PadType /\ e.kind = "pad"
      /\ d \in TransactionType => e \in TransactionType /\ e.kind = "txn"
  BY DEF BalanceType, PadType, TransactionType
<1>4. /\ d \in DocumentType => e \in DocumentType /\ e.kind = "document"
      /\ d \in CommodityType => e \in CommodityType /\ e.kind = "commodity"
      /\ d \in PriceType => e \in PriceType /\ e.kind = "price"
  BY DEF DocumentType, CommodityType, PriceType
<1> HIDE DEF e
<1>5. e \in Directive
  BY <1>1, <1>2, <1>3, <1>4 DEF Directive
<1>6. e.kind = "balance" => e.diff = None
  BY <1>1, <1>2, <1>3, <1>4 DEF AsRead, Directive
<1>7. e.kind = "plugin" => d.kind = "plugin" /\ e.name = d.name /\ e.config = d.config
  BY <1>1, <1>2, <1>3, <1>4 DEF Directive
<1>8. e.kind = "plugin" => Configured(e)
  BY <1>7 DEF AsRead, Configured
<1>9. e \in AsRead
  BY <1>5, <1>6, <1>8 DEF AsRead
<1> QED BY <1>9 DEF e

LEMMA TransactionsRead == TransactionType \subseteq AsRead
<1>1. ASSUME NEW d \in TransactionType PROVE d \in AsRead
  <2>1. d.kind = "txn" /\ d \in Directive
    BY DEF TransactionType, Directive
  <2> QED BY <2>1 DEF AsRead
<1> QED BY <1>1

-----------------------------------------------------------------------------
\* The ledger is left as it is, or replaced.
LEMMA LedgerStays ==
    ASSUME LedgerInv, UNCHANGED ledgerVars, stage' = "load" => stage = "load",
           stage' \in Unchecked => stage \in Unchecked
    PROVE  LedgerInv'
BY DEF LedgerInv, ledgerVars, InOrder

LEMMA LedgerReplaced ==
    ASSUME LedgerInv, NEW ds \in Seq(Directive), ReplaceEntries(ds), stage' # "load",
           stage' \in Unchecked => ds \in Seq(AsRead)
    PROVE  LedgerInv'
<1>1. next \in Nat
  BY DEF LedgerInv
<1>2. /\ entries' \in Seq(Entry) /\ InOrder(entries') /\ next' \in Nat
      /\ \A k \in DOMAIN entries' : entries'[k].seq < next'
  BY <1>1, Replacing
<1>3. ASSUME stage' \in Unchecked PROVE \A k \in DOMAIN entries' : entries'[k].dir \in AsRead
  BY <1>1, <1>3, ReadIsDirective, Replacing
<1> QED BY <1>2, <1>3 DEF LedgerInv, InOrder

\* The directives the pad pass commits.
LEMMA PaddedTypes ==
    ASSUME LedgerInv, PadInv, stage = "pad", at # 0
    PROVE  FlattenSeq([k \in DOMAIN entries |-> <<entries[k].dir>> \o padding[k]]) \in Seq(AsRead)
<1> DEFINE ss == [k \in DOMAIN entries |-> <<entries[k].dir>> \o padding[k]]
<1>1. /\ entries \in Seq(Entry) /\ \A k \in DOMAIN entries : entries[k].dir \in AsRead
      /\ DOMAIN padding = DOMAIN entries /\ padding \in Seq(Seq(TransactionType))
  BY DEF LedgerInv, PadInv, Unchecked
<1>2. ss = [k \in DOMAIN entries |-> ss[k]]
      /\ \A k \in DOMAIN entries : ss[k] = <<entries[k].dir>> \o padding[k]
  OBVIOUS
<1> HIDE DEF ss
<1>3. ASSUME NEW k \in DOMAIN entries PROVE ss[k] \in Seq(AsRead)
  <2>1. padding[k] \in Seq(TransactionType) /\ <<entries[k].dir>> \in Seq(AsRead)
    BY <1>1
  <2>2. padding[k] \in Seq(AsRead)
    BY <2>1, TransactionsRead
  <2>3. <<entries[k].dir>> \o padding[k] \in Seq(AsRead)
    BY <2>1, <2>2
  <2> QED BY <1>2, <2>3
<1>4. ss \in Seq(Seq(AsRead))
  BY <1>1, <1>2, <1>3, MadeList
<1>5. FlattenSeq(ss) \in Seq(AsRead)
  BY <1>4, FlattenHolds
<1> QED BY <1>5 DEF ss
-----------------------------------------------------------------------------
\* Each kind of step leaves the ledger typed.
LEMMA LedgerLoading ==
    ASSUME Typed, Loading \/ Cancel \/ Canceled \/ VerifyDocuments
    PROVE  LedgerInv'
<1>1. CASE Loading
  BY <1>1, LedgerStays DEF Typed, Loading, ReadDirective, IncludeFile, ExpandGlob, IncludeMatch,
     LoadFrame
<1>2. CASE Cancel
  BY <1>2, LedgerStays DEF Typed, Cancel
<1>3. CASE Canceled
  BY <1>3, LedgerStays DEF Typed, Canceled, Fail, Unchecked
<1>4. CASE VerifyDocuments
  BY <1>4, LedgerStays DEF Typed, VerifyDocuments, Unchecked
<1> QED BY <1>1, <1>2, <1>3, <1>4

LEMMA LedgerFinishing ==
    ASSUME Typed, FinishLoading
    PROVE  LedgerInv'
<1>1. entries = <<>> /\ directives \in Seq(AsRead) /\ directives \in Seq(Directive)
  BY ReadIsDirective DEF Typed, LedgerInv, ListsInv, FinishLoading
<1>2. ReplaceEntries(directives)
  BY <1>1 DEF FinishLoading, ReplaceEntries
<1>3. stage' # "load"
  BY DEF FinishLoading
<1> QED BY <1>1, <1>2, <1>3, LedgerReplaced DEF Typed

LEMMA LedgerBooking ==
    ASSUME Typed, Book \/ BookingHalts
    PROVE  LedgerInv'
<1>1. stage = "booking" /\ stage' = "plugins"
  BY DEF Book, BookingHalts, ToPlugins
<1>2. All \in Seq(AsRead) /\ All \in Seq(Directive)
  BY <1>1, AllTypes DEF Typed, Unchecked
<1>3. <<>> \in Seq(AsRead) /\ <<>> \in Seq(Directive)
  OBVIOUS
<1>4. ReplaceEntries(All) \/ ReplaceEntries(<<>>)
  BY DEF Book, BookingHalts
<1> QED BY <1>1, <1>2, <1>3, <1>4, LedgerReplaced DEF Typed

LEMMA LedgerPlugins ==
    ASSUME Typed, RunPlugins
    PROVE  LedgerInv'
<1>1. stage = "plugins" /\ stage' # "load" /\ (stage' \in Unchecked => stage' \in {"plugins", "pad"})
  BY DEF RunPlugins, UnknownPlugin, RunPlugin, PluginCanceled, PluginChangesNothing, PluginFails,
     EndPlugins, PluginAdds, PluginRemoves, Host, AtPlugin, NextPlugin, Fail, Unchecked
<1>2. All \in Seq(AsRead) /\ All \in Seq(Directive)
  BY <1>1, AllTypes DEF Typed, Unchecked
<1>3. ASSUME UNCHANGED ledgerVars PROVE LedgerInv'
  BY <1>1, <1>3, LedgerStays DEF Typed, Unchecked
<1>4. ASSUME NEW ds \in Seq(AsRead), ReplaceEntries(ds) PROVE LedgerInv'
  <2>1. ds \in Seq(Directive)
    BY ReadIsDirective
  <2> QED BY <1>1, <1>4, <2>1, LedgerReplaced DEF Typed
<1>5. CASE UnknownPlugin \/ PluginCanceled \/ PluginChangesNothing \/ PluginFails \/ EndPlugins
  BY <1>3, <1>5 DEF UnknownPlugin, PluginCanceled, PluginChangesNothing, PluginFails,
     EndPlugins, Fail, ledgerVars
<1>6. CASE RunPlugin
  <2> DEFINE p == Head(queue)
             r == Apply(p, All)
  <2>1. queue # <<>> /\ p.name \in Standard
    BY <1>6 DEF RunPlugin, AtPlugin
  <2>2. p \in PluginsRead
    BY <2>1 DEF Typed, ListsInv
  <2>3. Serves(r)
    BY <1>2, <2>1, <2>2, ApplyServes DEF PluginsRead
  <2>4. r.dirs = None \/ r.dirs \in Seq(AsRead)
    BY <2>3 DEF Serves
  <2>5. IF r.dirs = None THEN UNCHANGED ledgerVars ELSE ReplaceEntries(r.dirs)
    BY <1>6 DEF RunPlugin
  <2> HIDE DEF r
  <2> QED BY <1>3, <1>4, <2>4, <2>5
<1>7. ASSUME NEW d \in Additions, PluginAdds(d) PROVE LedgerInv'
  <2>1. ReplaceEntries(Append(All, d))
    BY <1>7 DEF PluginAdds
  <2>2. Append(All, d) \in Seq(AsRead)
    BY <1>2, AdditionsAreDirectives
  <2> QED BY <1>4, <2>1, <2>2
<1>8. ASSUME NEW k \in DOMAIN entries, PluginRemoves(k) PROVE LedgerInv'
  <2>1. ReplaceEntries(RemoveAt(All, k))
    BY <1>8 DEF PluginRemoves
  <2>2. k \in 1 .. Len(All)
    BY AllTypes DEF Typed
  <2>3. RemoveAt(All, k) \in Seq(AsRead)
    BY <1>2, <2>2 DEF RemoveAt
  <2> QED BY <1>4, <2>1, <2>3
<1> QED BY <1>5, <1>6, <1>7, <1>8 DEF RunPlugins

LEMMA LedgerWalks ==
    ASSUME Typed, Pad \/ Balance \/ Validations
    PROVE  LedgerInv'
<1>1. ASSUME UNCHANGED <<stage, ledgerVars>> PROVE LedgerInv'
  BY <1>1, LedgerStays DEF Typed
<1>2. CASE Pad /\ ~EndPad
  BY <1>1, <1>2 DEF Pad, BeginPad, PadTransaction, RecordPad, NoPad, AlreadyPadded,
     NothingMissing, HeldAtCost, InsertPadding, PadPasses, InForce, Asserts, PadFrame
<1>3. CASE Balance /\ ~EndBalance
  BY <1>1, <1>3 DEF Balance, BeginBalance, BalanceTransaction, CheckBalance, BalancePasses,
     BalanceFrame
<1>4. CASE Validations
  <2>1. UNCHANGED ledgerVars
    BY <1>4 DEF Validations, BeginValidations, ValidateEntry, EndValidations
  <2>2. stage' = stage \/ stage' = "done"
    BY <1>4 DEF Validations, BeginValidations, ValidateEntry, EndValidations, Ends
  <2> QED BY <2>1, <2>2, LedgerStays DEF Typed, Unchecked
<1>5. CASE EndPad
  <2> DEFINE ds == FlattenSeq([k \in DOMAIN entries |-> <<entries[k].dir>> \o padding[k]])
  <2>1. stage = "pad" /\ stage' = "balance" /\ at = Len(entries) + 1
    BY <1>5 DEF EndPad, Ends
  <2>2. at # 0
    BY <2>1 DEF Typed, LedgerInv
  <2>3. ReplaceEntries(ds) \/ UNCHANGED ledgerVars
    BY <1>5 DEF EndPad
  <2>4. ds \in Seq(AsRead)
    BY <2>1, <2>2, PaddedTypes DEF Typed
  <2> HIDE DEF ds
  <2>5. ds \in Seq(Directive)
    BY <2>4, ReadIsDirective
  <2>6. CASE ReplaceEntries(ds)
    BY <2>1, <2>4, <2>5, <2>6, LedgerReplaced DEF Typed
  <2>7. CASE UNCHANGED ledgerVars
    BY <2>1, <2>7, LedgerStays DEF Typed, Unchecked
  <2> QED BY <2>3, <2>6, <2>7
<1>6. CASE EndBalance
  <2>1. stage = "balance" /\ stage' = "validations"
    BY <1>6 DEF EndBalance, Ends
  <2>2. ReplaceEntries(out) \/ UNCHANGED ledgerVars
    BY <1>6 DEF EndBalance
  <2>3. out \in Seq(Directive)
    BY DEF Typed, ListsInv
  <2>4. CASE ReplaceEntries(out)
    BY <2>1, <2>3, <2>4, LedgerReplaced DEF Typed, Unchecked
  <2>5. CASE UNCHANGED ledgerVars
    BY <2>1, <2>5, LedgerStays DEF Typed, Unchecked
  <2> QED BY <2>2, <2>4, <2>5
<1> QED BY <1>2, <1>3, <1>4, <1>5, <1>6

LEMMA LedgerKept ==
    ASSUME Typed, [Next]_vars
    PROVE  LedgerInv'
<1>1. ASSUME UNCHANGED vars PROVE LedgerInv'
  BY <1>1, LedgerStays DEF Typed, vars
<1> QED BY <1>1, LedgerLoading, LedgerFinishing, LedgerBooking, LedgerPlugins, LedgerWalks
     DEF Next, Ended

-----------------------------------------------------------------------------
LEMMA PlaceKept ==
    ASSUME Typed, LedgerInv', [Next]_vars
    PROVE  PlaceInv'
<1>1. /\ stage \in Stages /\ raw \in BOOLEAN /\ live \in BOOLEAN
      /\ at \in 0 .. Len(entries) + 1 /\ (stage \notin Walks => at = 0)
  BY DEF Typed, PlaceInv
<1>2. Len(entries) \in Nat /\ Len(entries') \in Nat /\ DOMAIN entries = 1 .. Len(entries)
  BY DEF Typed, LedgerInv
<1>3. ASSUME at' = 0, stage' \in Stages, raw' \in BOOLEAN, live' \in BOOLEAN PROVE PlaceInv'
  BY <1>2, <1>3 DEF PlaceInv
<1>4. raw' = raw /\ live' \in BOOLEAN
  <2>1. CASE Loading
    BY <1>1, <2>1 DEF Loading, ReadDirective, IncludeFile, ExpandGlob, IncludeMatch, LoadFrame, inputs
  <2>2. CASE FinishLoading \/ Cancel \/ Canceled \/ VerifyDocuments \/ Book \/ BookingHalts
    BY <1>1, <2>2 DEF FinishLoading, Cancel, Canceled, VerifyDocuments, Book, BookingHalts, Fail,
       PassFrame, inputs
  <2>3. CASE RunPlugins
    BY <1>1, <2>3 DEF RunPlugins, UnknownPlugin, RunPlugin, PluginCanceled, PluginChangesNothing,
       PluginFails, EndPlugins, PluginAdds, PluginRemoves, Host, NextPlugin, Fail, PassFrame, inputs
  <2>4. CASE Pad
    BY <1>1, <2>4 DEF Pad, BeginPad, PadTransaction, RecordPad, NoPad, AlreadyPadded,
       NothingMissing, HeldAtCost, InsertPadding, PadPasses, EndPad, InForce, Asserts, PadFrame,
       WalkFrame, inputs
  <2>5. CASE Balance \/ Validations
    BY <1>1, <2>5 DEF Balance, BeginBalance, BalanceTransaction, CheckBalance, BalancePasses,
       EndBalance, BalanceFrame, Validations, BeginValidations, ValidateEntry, EndValidations,
       PassFrame, WalkFrame, inputs
  <2>6. CASE UNCHANGED vars
    BY <1>1, <2>6 DEF vars, inputs
  <2> QED BY <2>1, <2>2, <2>3, <2>4, <2>5, <2>6 DEF Next, Ended
<1>5. CASE UNCHANGED <<stage, at, ledgerVars>>
  BY <1>1, <1>4, <1>5 DEF PlaceInv, ledgerVars
<1>6. CASE Loading \/ Cancel \/ UNCHANGED vars
  BY <1>5, <1>6 DEF Loading, ReadDirective, IncludeFile, ExpandGlob, IncludeMatch, LoadFrame,
     Cancel, vars, ledgerVars
<1>7. CASE FinishLoading \/ VerifyDocuments \/ Book \/ BookingHalts
  <2>1. at' = at /\ stage \notin Walks /\ stage' \in Stages
    BY <1>7 DEF FinishLoading, VerifyDocuments, Book, BookingHalts, ToPlugins, Walks, Stages
  <2> QED BY <1>1, <1>3, <1>4, <2>1
<1>8. CASE Canceled
  <2>1. at' = at /\ stage' = "failed" /\ (at = 0 \/ stage \notin Walks)
    BY <1>8 DEF Canceled, CheckPoint, Fail, Walks
  <2> QED BY <1>1, <1>3, <1>4, <2>1 DEF Stages
<1>9. CASE RunPlugins
  <2>1. at' = at /\ stage = "plugins" /\ stage' \in Stages
    BY <1>9 DEF RunPlugins, UnknownPlugin, RunPlugin, PluginCanceled, PluginChangesNothing,
       PluginFails, EndPlugins, PluginAdds, PluginRemoves, Host, AtPlugin, NextPlugin, Fail, Stages
  <2> QED BY <1>1, <1>3, <1>4, <2>1 DEF Walks
<1>10. ASSUME NEW pass \in Walks, Begins(pass), UNCHANGED <<stage, ledgerVars>> PROVE PlaceInv'
  <2>1. stage' = pass /\ pass \in Stages /\ at' = 1 /\ entries' = entries
    BY <1>10 DEF Begins, Walks, Stages, ledgerVars
  <2>2. at' \in 0 .. Len(entries') + 1
    BY <1>2, <2>1
  <2> QED BY <1>4, <1>1, <2>1, <2>2 DEF PlaceInv
<1>11. ASSUME NEW pass \in Walks, NEW kinds, Visits(pass, kinds), UNCHANGED <<stage, ledgerVars>>
       PROVE  PlaceInv'
  <2>1. /\ stage' = pass /\ pass \in Stages /\ at' = at + 1 /\ entries' = entries
        /\ at \in 1 .. Len(entries)
    BY <1>2, <1>11 DEF Visits, Walks, Stages, ledgerVars
  <2>2. at' \in 0 .. Len(entries') + 1
    BY <1>2, <2>1
  <2> QED BY <1>4, <1>1, <2>1, <2>2 DEF PlaceInv
<1>12. ASSUME NEW pass, NEW after \in Stages, Ends(pass, after) PROVE PlaceInv'
  BY <1>1, <1>3, <1>4, <1>12 DEF Ends
<1>13. "pad" \in Walks /\ "balance" \in Walks /\ "validations" \in Walks
       /\ "balance" \in Stages /\ "validations" \in Stages /\ "done" \in Stages
  BY DEF Walks, Stages
<1>14. CASE Pad
  <2>1. \/ Begins("pad") /\ UNCHANGED <<stage, ledgerVars>>
        \/ \E kinds : Visits("pad", kinds) /\ UNCHANGED <<stage, ledgerVars>>
        \/ Ends("pad", "balance")
    BY <1>14 DEF Pad, BeginPad, PadTransaction, RecordPad, NoPad, AlreadyPadded,
       NothingMissing, HeldAtCost, InsertPadding, PadPasses, EndPad, InForce, Asserts, PadFrame
  <2> QED BY <1>10, <1>11, <1>12, <1>13, <2>1
<1>15. CASE Balance
  <2>1. \/ Begins("balance") /\ UNCHANGED <<stage, ledgerVars>>
        \/ \E kinds : Visits("balance", kinds) /\ UNCHANGED <<stage, ledgerVars>>
        \/ Ends("balance", "validations")
    BY <1>15 DEF Balance, BeginBalance, BalanceTransaction, CheckBalance, BalancePasses,
       EndBalance, BalanceFrame
  <2> QED BY <1>10, <1>11, <1>12, <1>13, <2>1
<1>16. CASE Validations
  <2>1. \/ Begins("validations") /\ UNCHANGED <<stage, ledgerVars>>
        \/ \E kinds : Visits("validations", kinds) /\ UNCHANGED <<stage, ledgerVars>>
        \/ Ends("validations", "done")
    BY <1>16 DEF Validations, BeginValidations, ValidateEntry, EndValidations
  <2> QED BY <1>10, <1>11, <1>12, <1>13, <2>1
<1> QED BY <1>6, <1>7, <1>8, <1>9, <1>14, <1>15, <1>16 DEF Next, Ended
-----------------------------------------------------------------------------
\* The directive a pass visits.
LEMMA Visited ==
    ASSUME LedgerInv, NEW pass, NEW kinds, Visits(pass, kinds)
    PROVE  /\ D \in Directive /\ D.kind \in kinds /\ stage = pass /\ at \in DOMAIN entries
           /\ at \in Nat /\ at # 0 /\ at' = at + 1
           /\ D.kind = "txn" => D \in TransactionType /\ D.posts \in Seq(Posting)
           /\ D.kind = "pad" => D \in PadType /\ D.acct \in Accounts /\ D.from \in Accounts
           /\ D.kind = "balance" => /\ D \in BalanceType /\ D.acct \in Accounts
                                    /\ D.cur \in Currencies /\ D.num \in Int /\ D.tol \in Int
<1>1. /\ at \in DOMAIN entries /\ entries \in Seq(Entry) /\ D = entries[at].dir /\ at' = at + 1
      /\ D.kind \in kinds /\ stage = pass
  BY DEF LedgerInv, Visits, D
<1>2. entries[at] \in Entry /\ at \in Nat /\ at # 0
  BY <1>1
<1>3. D \in Directive
  BY <1>1, <1>2 DEF Entry
<1>4. D.kind = "txn" => D \in TransactionType /\ D.posts \in Seq(Posting)
  BY <1>3, PostsOfTransaction
<1>5. D.kind = "pad" => D \in PadType /\ D.acct \in Accounts /\ D.from \in Accounts
  BY <1>3, KindIsType, AccountOf
<1>6. D.kind = "balance" => D \in BalanceType
  BY <1>3, KindIsType
<1>7. D \in BalanceType => /\ D.acct \in Accounts /\ D.cur \in Currencies
                           /\ D.num \in Int /\ D.tol \in Int
  BY DEF BalanceType
<1> QED BY <1>1, <1>2, <1>3, <1>4, <1>5, <1>6, <1>7

\* The transaction a pad inserts.
LEMMA LegTypes ==
    ASSUME NEW a \in Accounts, NEW n \in Int, D.cur \in Currencies
    PROVE  Leg(a, n) \in Posting
BY DEF Leg, Posting

LEMMA InsertedTypes ==
    ASSUME Typed, InsertPadding
    PROVE  LET p == entries[pending[D.acct].at].dir
               legs == <<Leg(p.acct, Delta), Leg(p.from, -Delta)>>
               t == [kind |-> "txn", date |-> p.date, file |-> p.file, off |-> p.off,
                     padding |-> TRUE, tags |-> {}, posts |-> legs]
           IN  /\ Delta \in Int /\ legs \in Seq(Posting) /\ t \in TransactionType
               /\ p \in PadType /\ p.acct = D.acct
<1> DEFINE p == entries[pending[D.acct].at].dir
           legs == <<Leg(p.acct, Delta), Leg(p.from, -Delta)>>
           t == [kind |-> "txn", date |-> p.date, file |-> p.file, off |-> p.off,
                 padding |-> TRUE, tags |-> {}, posts |-> legs]
<1>1. Visits("pad", {"balance"}) /\ pending[D.acct] # None
  BY DEF InsertPadding, InForce, Asserts
<1>2. /\ D.acct \in Accounts /\ D.cur \in Currencies /\ D.num \in Int /\ at # 0 /\ stage = "pad"
  BY <1>1, Visited DEF Typed
<1>3. /\ pending[D.acct].at \in DOMAIN entries /\ p.kind = "pad" /\ p.acct = D.acct
      /\ entries \in Seq(Entry)
  BY <1>1, <1>2 DEF Typed, PadInv, LedgerInv
<1>4. p \in Directive
  <2>1. entries[pending[D.acct].at] \in Entry
    BY <1>3
  <2> QED BY <2>1 DEF Entry
<1> HIDE DEF p
<1>5. p \in PadType /\ p.acct \in Accounts /\ p.from \in Accounts
  BY <1>3, <1>4, KindIsType, AccountOf
<1>6. Delta \in Int /\ -Delta \in Int
  BY <1>2 DEF Typed, SumsInv, Balances, Delta
<1>7. Leg(p.acct, Delta) \in Posting /\ Leg(p.from, -Delta) \in Posting
  BY <1>2, <1>5, <1>6, LegTypes
<1>8. legs \in Seq(Posting)
  BY <1>7
<1>9. p.date \in Nat /\ p.file \in FileName /\ p.off \in Nat
  BY <1>5 DEF PadType
<1>10. t \in TransactionType
  <2> HIDE DEF legs
  <2> QED BY <1>8, <1>9 DEF TransactionType
<1> QED BY <1>3, <1>5, <1>6, <1>8, <1>10 DEF p

-----------------------------------------------------------------------------
LEMMA SumsKept ==
    ASSUME Typed, [Next]_vars
    PROVE  SumsInv'
<1>1. sums \in Balances /\ costs \in Balances /\ LedgerInv
  BY DEF Typed, SumsInv
<1>2. CASE UNCHANGED <<sums, costs>>
  BY <1>1, <1>2 DEF SumsInv
<1>3. CASE BeginPad \/ BeginBalance
  BY <1>1, <1>3, ZeroTypes DEF BeginPad, BeginBalance, SumsInv, padVars
<1>4. CASE PadTransaction
  <2>1. D.posts \in Seq(Posting)
    BY <1>1, <1>4, Visited DEF PadTransaction
  <2>2. AtCost(D.posts) \in Seq(Posting)
    BY <2>1, AtCostTypes
  <2>3. Added(sums, D.posts) \in Balances /\ Added(costs, AtCost(D.posts)) \in Balances
    BY <1>1, <2>1, <2>2, AddedTypes
  <2> QED BY <1>4, <2>3 DEF PadTransaction, SumsInv
<1>5. CASE BalanceTransaction
  <2>1. D.posts \in Seq(Posting)
    BY <1>1, <1>5, Visited DEF BalanceTransaction
  <2>2. Added(sums, D.posts) \in Balances
    BY <1>1, <2>1, AddedTypes
  <2> QED BY <1>1, <1>5, <2>2 DEF BalanceTransaction, BalanceFrame, padVars, SumsInv
<1>6. CASE InsertPadding
  <2> DEFINE p == entries[pending[D.acct].at].dir
             legs == <<Leg(p.acct, Delta), Leg(p.from, -Delta)>>
  <2>1. legs \in Seq(Posting)
    BY <1>6, InsertedTypes
  <2>2. sums' = Added(sums, legs) /\ costs' = costs
    BY <1>6 DEF InsertPadding
  <2> HIDE DEF legs
  <2> QED BY <1>1, <2>1, <2>2, AddedTypes DEF SumsInv
<1>7. CASE Loading \/ FinishLoading \/ Cancel \/ Canceled \/ VerifyDocuments \/ Book
           \/ BookingHalts \/ UNCHANGED vars
  BY <1>2, <1>7 DEF Loading, ReadDirective, IncludeFile, ExpandGlob, IncludeMatch, LoadFrame,
     FinishLoading, Cancel, Canceled, Fail, VerifyDocuments, Book, BookingHalts, PassFrame,
     vars, padVars
<1>8. CASE RunPlugins \/ Validations
  BY <1>2, <1>8 DEF RunPlugins, UnknownPlugin, RunPlugin, PluginCanceled, PluginChangesNothing,
     PluginFails, EndPlugins, PluginAdds, PluginRemoves, Host, NextPlugin, Fail, PassFrame,
     Validations, BeginValidations, ValidateEntry, EndValidations, padVars
<1>9. CASE RecordPad \/ NoPad \/ AlreadyPadded \/ NothingMissing \/ HeldAtCost \/ PadPasses \/ EndPad
  BY <1>2, <1>9 DEF RecordPad, NoPad, AlreadyPadded, NothingMissing, HeldAtCost, PadPasses, EndPad,
     padVars
<1>10. CASE CheckBalance \/ BalancePasses \/ EndBalance
  BY <1>2, <1>10 DEF CheckBalance, BalancePasses, EndBalance, BalanceFrame, padVars
<1> QED BY <1>3, <1>4, <1>5, <1>6, <1>7, <1>8, <1>9, <1>10 DEF Next, Pad, Balance, Ended
-----------------------------------------------------------------------------
LEMMA PadStays ==
    ASSUME Typed, UNCHANGED <<pending, padding>>,
           stage' = "pad" /\ at' # 0 => stage = "pad" /\ at # 0 /\ entries' = entries
    PROVE  PadInv'
BY DEF Typed, PadInv

LEMMA AnswerKeeps ==
    ASSUME Typed, InForce, Answer, UNCHANGED <<stage, ledgerVars>>,
           padding' \in Seq(Seq(TransactionType)), DOMAIN padding' = DOMAIN padding
    PROVE  PadInv'
<1>1. Visits("pad", {"balance"}) /\ pending[D.acct] # None
  BY DEF InForce, Asserts
<1>2. D.acct \in Accounts /\ D.cur \in Currencies /\ at # 0 /\ stage = "pad"
  BY <1>1, Visited DEF Typed
<1>3. /\ pending \in [Accounts -> PendingPad \cup {None}]
      /\ DOMAIN padding = DOMAIN entries
      /\ \A a \in Accounts : pending[a] # None =>
                /\ pending[a].at \in DOMAIN entries
                /\ entries[pending[a].at].dir.kind = "pad"
                /\ entries[pending[a].at].dir.acct = a
  BY <1>2 DEF Typed, PadInv
<1>4. pending[D.acct] \in PendingPad
  BY <1>1, <1>2, <1>3
<1> DEFINE w == [pending[D.acct] EXCEPT !.used = TRUE]
           v == [w EXCEPT !.padded = @ \cup {D.cur}]
<1>5. /\ v \in PendingPad /\ v.at = pending[D.acct].at
  BY <1>2, <1>4 DEF PendingPad
<1>6. pending' = [pending EXCEPT ![D.acct] = v]
  BY <1>2, <1>3, <1>4 DEF Answer, PendingPad
<1> HIDE DEF v
<1>7. pending' \in [Accounts -> PendingPad \cup {None}]
  BY <1>2, <1>3, <1>5, <1>6
<1>8. entries' = entries
  BY DEF ledgerVars
<1>9. ASSUME NEW a \in Accounts, pending'[a] # None
      PROVE  /\ pending'[a].at \in DOMAIN entries /\ entries[pending'[a].at].dir.kind = "pad"
             /\ entries[pending'[a].at].dir.acct = a
  BY <1>1, <1>2, <1>3, <1>5, <1>6, <1>9
<1> QED BY <1>3, <1>7, <1>8, <1>9 DEF PadInv

LEMMA PadKept ==
    ASSUME Typed, [Next]_vars
    PROVE  PadInv'
<1>1. CASE UNCHANGED <<pending, padding, stage, at, entries>>
  BY <1>1, PadStays
<1>2. CASE Loading \/ Cancel \/ UNCHANGED vars
  BY <1>1, <1>2 DEF Loading, ReadDirective, IncludeFile, ExpandGlob, IncludeMatch, LoadFrame,
     Cancel, vars, padVars, ledgerVars
<1>3. CASE FinishLoading \/ Canceled \/ VerifyDocuments \/ Book \/ BookingHalts
  <2>1. UNCHANGED <<pending, padding>> /\ stage' # "pad"
    BY <1>3 DEF FinishLoading, Canceled, Fail, VerifyDocuments, Book, BookingHalts, ToPlugins,
       PassFrame, padVars
  <2> QED BY <2>1, PadStays
<1>4. CASE RunPlugins
  <2>1. UNCHANGED <<pending, padding>> /\ stage = "plugins" /\ at' = at
    BY <1>4 DEF RunPlugins, UnknownPlugin, RunPlugin, PluginCanceled, PluginChangesNothing,
       PluginFails, EndPlugins, PluginAdds, PluginRemoves, Host, AtPlugin, NextPlugin, Fail,
       PassFrame, padVars
  <2>2. at = 0
    BY <2>1 DEF Typed, PlaceInv, Walks
  <2> QED BY <2>1, <2>2, PadStays
<1>5. CASE BeginPad
  <2>1. /\ pending' = [a \in Accounts |-> None] /\ padding' = [k \in DOMAIN entries |-> <<>>]
        /\ entries' = entries /\ entries \in Seq(Entry)
    BY <1>5 DEF BeginPad, ledgerVars, Typed, LedgerInv
  <2>2. padding' \in Seq(Seq(TransactionType))
    <3> DEFINE q == [k \in DOMAIN entries |-> <<>>]
    <3>1. \A k \in DOMAIN entries : q[k] \in Seq(TransactionType)
      OBVIOUS
    <3>2. q = [k \in DOMAIN entries |-> q[k]] /\ q = padding'
      BY <2>1
    <3> HIDE DEF q
    <3> QED BY <2>1, <3>1, <3>2, MadeList
  <2>3. DOMAIN padding' = DOMAIN entries /\ \A a \in Accounts : pending'[a] = None
    BY <2>1
  <2> QED BY <2>1, <2>2, <2>3 DEF PadInv
<1>6. CASE PadTransaction \/ NoPad \/ AlreadyPadded \/ PadPasses
  <2>1. UNCHANGED <<pending, padding, stage, entries>> /\ \E kinds : Visits("pad", kinds)
    BY <1>6 DEF PadTransaction, NoPad, AlreadyPadded, PadPasses, PadFrame, padVars, InForce,
       Asserts, ledgerVars
  <2>2. at # 0 /\ stage = "pad"
    BY <2>1, Visited DEF Typed
  <2> QED BY <2>1, <2>2, PadStays
<1>7. CASE RecordPad
  <2>1. Visits("pad", {"pad"})
    BY <1>7 DEF RecordPad
  <2>2. D.kind = "pad" /\ D.acct \in Accounts /\ at \in DOMAIN entries /\ at \in Nat
        /\ stage = "pad" /\ at # 0
    BY <2>1, Visited DEF Typed
  <2>3. /\ pending \in [Accounts -> PendingPad \cup {None}]
        /\ DOMAIN padding = DOMAIN entries /\ padding \in Seq(Seq(TransactionType))
        /\ \A a \in Accounts : pending[a] # None =>
                  /\ pending[a].at \in DOMAIN entries
                  /\ entries[pending[a].at].dir.kind = "pad"
                  /\ entries[pending[a].at].dir.acct = a
    BY <2>2 DEF Typed, PadInv
  <2> DEFINE v == [at |-> at, padded |-> {}, used |-> FALSE]
  <2>4. pending' = [pending EXCEPT ![D.acct] = v] /\ padding' = padding /\ entries' = entries
    BY <1>7 DEF RecordPad, PadFrame, ledgerVars
  <2>5. v \in PendingPad /\ v.at = at
    BY <2>2 DEF PendingPad
  <2> HIDE DEF v
  <2>6. pending' \in [Accounts -> PendingPad \cup {None}]
    BY <2>2, <2>3, <2>4, <2>5
  <2>7. ASSUME NEW a \in Accounts, pending'[a] # None
        PROVE  /\ pending'[a].at \in DOMAIN entries /\ entries[pending'[a].at].dir.kind = "pad"
               /\ entries[pending'[a].at].dir.acct = a
    BY <2>2, <2>3, <2>4, <2>5, <2>7 DEF D
  <2> QED BY <2>3, <2>4, <2>6, <2>7 DEF PadInv
<1>8. CASE NothingMissing \/ HeldAtCost
  <2>1. InForce /\ Answer /\ padding' = padding /\ UNCHANGED <<stage, ledgerVars>>
    BY <1>8 DEF NothingMissing, HeldAtCost, InForce, Asserts, PadFrame
  <2>2. padding \in Seq(Seq(TransactionType))
    BY DEF Typed, PadInv
  <2> QED BY <2>1, <2>2, AnswerKeeps
<1>9. CASE InsertPadding
  <2> DEFINE j == pending[D.acct].at
             p == entries[j].dir
             legs == <<Leg(p.acct, Delta), Leg(p.from, -Delta)>>
             t == [kind |-> "txn", date |-> p.date, file |-> p.file, off |-> p.off,
                   padding |-> TRUE, tags |-> {}, posts |-> legs]
  <2>1. t \in TransactionType
    BY <1>9, InsertedTypes
  <2>2. InForce /\ Answer /\ UNCHANGED <<stage, ledgerVars>>
    BY <1>9 DEF InsertPadding, InForce, Asserts, PadFrame
  <2>3. padding' = [padding EXCEPT ![j] = Append(@, t)]
    BY <1>9 DEF InsertPadding
  <2> HIDE DEF t, j
  <2>4. padding \in Seq(Seq(TransactionType))
    BY DEF Typed, PadInv
  <2>5. padding' \in Seq(Seq(TransactionType)) /\ DOMAIN padding' = DOMAIN padding
    <3>1. ASSUME NEW k \in DOMAIN padding PROVE padding'[k] \in Seq(TransactionType)
      <4>1. padding[k] \in Seq(TransactionType)
        BY <2>4
      <4>2. Append(padding[k], t) \in Seq(TransactionType)
        BY <2>1, <4>1
      <4> QED BY <2>3, <4>1, <4>2
    <3>2. padding' = [k \in DOMAIN padding |-> padding'[k]]
      BY <2>3
    <3>3. padding' \in Seq(Seq(TransactionType))
      BY <2>4, <3>1, <3>2, MadeList
    <3>4. DOMAIN padding' = DOMAIN padding
      BY <2>3
    <3> QED BY <3>3, <3>4
  <2> QED BY <2>2, <2>5, AnswerKeeps
<1>10. CASE EndPad
  BY <1>10, PadStays DEF EndPad, Ends, padVars
<1>11. CASE Balance
  <2>1. UNCHANGED <<pending, padding>> /\ stage' # "pad"
    BY <1>11 DEF Balance, BeginBalance, BalanceTransaction, CheckBalance, BalancePasses, EndBalance,
       BalanceFrame, Begins, Visits, Ends, padVars
  <2> QED BY <2>1, PadStays
<1>12. CASE Validations
  <2>1. UNCHANGED <<pending, padding>> /\ stage' # "pad"
    BY <1>12 DEF Validations, BeginValidations, ValidateEntry, EndValidations,
       PassFrame, Begins, Visits, Ends, padVars
  <2> QED BY <2>1, PadStays
<1> QED BY <1>2, <1>3, <1>4, <1>5, <1>6, <1>7, <1>8, <1>9, <1>10, <1>11, <1>12 DEF Next, Pad, Ended
-----------------------------------------------------------------------------
\* What an assertion counts.
LEMMA ActualIsSum ==
    ASSUME SumsInv, D.acct \in Accounts, D.cur \in Currencies
    PROVE  /\ Below[D.acct] \in SUBSET Accounts /\ IsFiniteSet(Below[D.acct])
           /\ Actual = Sum(Holdings(sums, D.cur), Below[D.acct]) /\ Actual \in Int
<1>1. Below[D.acct] \in SUBSET Accounts
  BY BelowIsATree
<1>2. IsFiniteSet(Below[D.acct])
  BY <1>1, FinitelyMany, FS_Subset
<1>3. Actual = Sum(Holdings(sums, D.cur), Below[D.acct])
  BY <1>1, SumOfHoldings DEF Actual
<1>4. \A a \in Below[D.acct] : Holdings(sums, D.cur)[a] \in Int
  BY <1>1 DEF SumsInv, Balances, Holdings
<1>5. Sum(Holdings(sums, D.cur), Below[D.acct]) \in Int
  BY <1>2, <1>4, SumType
<1> QED BY <1>1, <1>2, <1>3, <1>5

LEMMA CheckedTypes ==
    ASSUME LedgerInv, SumsInv, Visits("balance", {"balance"})
    PROVE  [D EXCEPT !.diff = Actual - D.num] \in Directive
<1>1. D \in BalanceType /\ D.acct \in Accounts /\ D.cur \in Currencies /\ D.num \in Int
  BY Visited
<1>2. Actual \in Int
  BY <1>1, ActualIsSum
<1>3. Actual - D.num \in Int
  BY <1>1, <1>2
<1>4. [D EXCEPT !.diff = Actual - D.num] \in BalanceType
  BY <1>1, <1>3 DEF BalanceType
<1> QED BY <1>4 DEF Directive

LEMMA DirectiveRead ==
    ASSUME LoadInv, Typed, ReadDirective
    PROVE  directives' \in Seq(AsRead)
<1>1. /\ stage = "load" /\ todo # <<>> /\ Item.kind \in DOMAIN Rank
  BY DEF ReadDirective, Visiting
<1>2. todo \in Seq(Work)
  BY <1>1 DEF LoadInv, Asked
<1>3. Head(todo) \in Work
  BY <1>1, <1>2, AheadOfHeadAndTail
<1>4. Item \in Items /\ Head(todo).file \in FileName /\ Head(todo).off \in Nat
  BY <1>1, <1>3 DEF Work, Item, Rank
<1>5. Item \in AsRead
  BY <1>1, <1>4, ItemsAreDirectives
<1> DEFINE d == [Item EXCEPT !.file = Head(todo).file, !.off = Head(todo).off]
<1>6. d \in AsRead
  BY <1>4, <1>5, PlacedRead
<1>7. directives' = Append(directives, d) /\ directives \in Seq(AsRead)
  BY DEF ReadDirective, Typed, ListsInv
<1> HIDE DEF d
<1> QED BY <1>6, <1>7

LEMMA DirectivesKept ==
    ASSUME LoadInv, Typed, [Next]_vars
    PROVE  directives' \in Seq(AsRead)
<1>1. directives \in Seq(AsRead)
  BY DEF Typed, ListsInv
<1>2. CASE UNCHANGED directives
  BY <1>1, <1>2
<1>3. CASE ReadDirective
  BY <1>3, DirectiveRead
<1>4. CASE IncludeFile \/ ExpandGlob \/ IncludeMatch \/ FinishLoading \/ Cancel \/ Canceled
           \/ VerifyDocuments \/ Book \/ BookingHalts \/ UNCHANGED vars
  BY <1>2, <1>4 DEF IncludeFile, ExpandGlob, IncludeMatch, FinishLoading, Cancel, Canceled, Fail,
     VerifyDocuments, Book, BookingHalts, PassFrame, vars, loadVars
<1>5. CASE RunPlugins
  BY <1>2, <1>5 DEF RunPlugins, UnknownPlugin, RunPlugin, PluginCanceled, PluginChangesNothing,
     PluginFails, EndPlugins, PluginAdds, PluginRemoves, Host, NextPlugin, Fail, PassFrame, loadVars
<1>6. CASE Pad
  BY <1>2, <1>6 DEF Pad, BeginPad, PadTransaction, RecordPad, NoPad, AlreadyPadded,
     NothingMissing, HeldAtCost, InsertPadding, PadPasses, EndPad, InForce, Asserts, PadFrame,
     WalkFrame, loadVars
<1>7. CASE Balance \/ Validations
  BY <1>2, <1>7 DEF Balance, BeginBalance, BalanceTransaction, CheckBalance, BalancePasses,
     EndBalance, BalanceFrame, WalkFrame, loadVars,
     Validations, BeginValidations, ValidateEntry, EndValidations, PassFrame
<1> QED BY <1>3, <1>4, <1>5, <1>6, <1>7 DEF Next, Loading, Ended

LEMMA QueueKept ==
    ASSUME Typed, LedgerInv', [Next]_vars
    PROVE  queue' \in Seq(PluginsRead)
<1>1. queue \in Seq(PluginsRead)
  BY DEF Typed, ListsInv
<1>2. CASE UNCHANGED queue
  BY <1>1, <1>2
<1>3. ASSUME stage' = "plugins", queue' = Named(entries') PROVE queue' \in Seq(PluginsRead)
  <2>1. entries' \in Seq(Entry) /\ \A k \in DOMAIN entries' : entries'[k].dir \in AsRead
    BY <1>3 DEF LedgerInv, Unchecked
  <2> QED BY <1>3, <2>1, NamedTypes
<1>4. CASE Loading \/ Cancel \/ Canceled \/ VerifyDocuments \/ UNCHANGED vars
  BY <1>2, <1>4 DEF Loading, ReadDirective, IncludeFile, ExpandGlob, IncludeMatch, LoadFrame,
     Cancel, Canceled, Fail, VerifyDocuments, vars
<1>5. CASE FinishLoading \/ Book \/ BookingHalts
  BY <1>2, <1>3, <1>5 DEF FinishLoading, Book, BookingHalts, ToPlugins
<1>6. CASE RunPlugins
  <2>1. queue' = queue \/ (queue # <<>> /\ queue' = Tail(queue))
    BY <1>6 DEF RunPlugins, UnknownPlugin, RunPlugin, PluginCanceled, PluginChangesNothing,
     PluginFails, EndPlugins, PluginAdds, PluginRemoves, Host, AtPlugin, NextPlugin, Fail
  <2>2. queue # <<>> => Tail(queue) \in Seq(PluginsRead)
    BY <1>1
  <2> QED BY <1>1, <2>1, <2>2
<1>7. CASE Pad
  BY <1>2, <1>7 DEF Pad, BeginPad, PadTransaction, RecordPad, NoPad, AlreadyPadded,
     NothingMissing, HeldAtCost, InsertPadding, PadPasses, EndPad, InForce, Asserts, PadFrame,
     WalkFrame
<1>8. CASE Balance \/ Validations
  BY <1>2, <1>8 DEF Balance, BeginBalance, BalanceTransaction, CheckBalance, BalancePasses,
     EndBalance, BalanceFrame, WalkFrame,
     Validations, BeginValidations, ValidateEntry, EndValidations
<1> QED BY <1>4, <1>5, <1>6, <1>7, <1>8 DEF Next, Ended

LEMMA OutKept ==
    ASSUME Typed, [Next]_vars
    PROVE  out' \in Seq(Directive)
<1>1. out \in Seq(Directive) /\ LedgerInv /\ SumsInv
  BY DEF Typed, ListsInv
<1>2. CASE UNCHANGED out
  BY <1>1, <1>2
<1>3. CASE Loading \/ FinishLoading \/ Cancel \/ Canceled
           \/ VerifyDocuments \/ Book \/ BookingHalts \/ UNCHANGED vars
  BY <1>2, <1>3 DEF Loading, ReadDirective, IncludeFile, ExpandGlob, IncludeMatch, LoadFrame,
     FinishLoading, Cancel, Canceled, Fail, VerifyDocuments, Book, BookingHalts, PassFrame, vars,
     balanceVars
<1>4. CASE RunPlugins \/ Validations
  BY <1>2, <1>4 DEF RunPlugins, UnknownPlugin, RunPlugin, PluginCanceled, PluginChangesNothing,
     PluginFails, EndPlugins, PluginAdds, PluginRemoves, Host, NextPlugin, Fail, PassFrame,
     balanceVars, Validations, BeginValidations, ValidateEntry, EndValidations
<1>5. CASE Pad
  BY <1>2, <1>5 DEF Pad, BeginPad, PadTransaction, RecordPad, NoPad, AlreadyPadded,
     NothingMissing, HeldAtCost, InsertPadding, PadPasses, EndPad, InForce, Asserts, PadFrame,
     balanceVars
<1>6. CASE BeginBalance
  BY <1>6 DEF BeginBalance
<1>7. CASE BalanceTransaction \/ BalancePasses
  <2>1. out' = Append(out, D) /\ \E kinds : Visits("balance", kinds)
    BY <1>7 DEF BalanceTransaction, BalancePasses
  <2>2. D \in Directive
    BY <1>1, <2>1, Visited
  <2> QED BY <1>1, <2>1, <2>2
<1>8. CASE CheckBalance
  <2> DEFINE e == [D EXCEPT !.diff = Actual - D.num]
  <2>1. D \in Directive /\ e \in Directive
    BY <1>1, <1>8, Visited, CheckedTypes DEF CheckBalance
  <2>2. out' = Append(out, D) \/ out' = Append(out, e)
    BY <1>8 DEF CheckBalance
  <2> HIDE DEF e
  <2> QED BY <1>1, <2>1, <2>2
<1>9. CASE EndBalance
  BY <1>2, <1>9 DEF EndBalance, balanceVars
<1> QED BY <1>3, <1>4, <1>5, <1>6, <1>7, <1>8, <1>9 DEF Next, Balance, Ended

LEMMA TypesKept ==
    ASSUME LoadInv, Typed, [Next]_vars
    PROVE  Typed'
<1>1. LedgerInv'
  BY LedgerKept
<1>2. PlaceInv' /\ SumsInv' /\ PadInv'
  BY <1>1, PlaceKept, SumsKept, PadKept
<1>3. ListsInv'
  BY <1>1, DirectivesKept, QueueKept, OutKept DEF ListsInv
<1> QED BY <1>1, <1>2, <1>3 DEF Typed

LEMMA TypesStart ==
    ASSUME Init
    PROVE  Typed
<1>1. LedgerInv
  BY DEF Init, LedgerInv, InOrder
<1>2. PlaceInv
  BY DEF Init, PlaceInv, Stages
<1>3. SumsInv
  <2>1. sums = Zero /\ costs = Zero
    BY DEF Init, Zero
  <2> QED BY <2>1, ZeroTypes DEF SumsInv
<1>4. PadInv
  <2>1. pending \in [Accounts -> PendingPad \cup {None}] /\ padding = <<>> /\ at = 0
    BY DEF Init
  <2> QED BY <2>1 DEF PadInv
<1>5. ListsInv
  BY DEF Init, ListsInv
<1> QED BY <1>1, <1>2, <1>3, <1>4, <1>5 DEF Typed

LEMMA TypesHold ==
    ASSUME LoadInv, Typed
    PROVE  TypeOK
<1>1. visited \subseteq Files /\ files \in Seq(Files)
  BY ReachableIsLeast DEF LoadInv, Loaded
<1>2. /\ stage \in Stages /\ raw \in BOOLEAN /\ live \in BOOLEAN
      /\ at \in 0 .. Len(entries) + 1
  BY DEF Typed, PlaceInv
<1>3. directives \in Seq(Directive) /\ queue \in Seq(PluginType) /\ out \in Seq(Directive)
  <2>1. PluginsRead \subseteq PluginType
    BY KindIsType, ReadIsDirective DEF PluginsRead
  <2> QED BY <2>1, ReadIsDirective DEF Typed, ListsInv
<1>4. entries \in Seq([dir : Directive, seq : Nat]) /\ next \in Nat
      /\ \A k \in DOMAIN entries : entries[k].seq < next
  BY DEF Typed, LedgerInv, Entry
<1>5. \A k \in 2 .. Len(entries) : Before(entries[k - 1], entries[k])
  <2>1. DOMAIN entries = 1 .. Len(entries) /\ Len(entries) \in Nat
    BY <1>4
  <2>2. \A k \in 2 .. Len(entries) : k - 1 \in DOMAIN entries /\ k \in DOMAIN entries /\ k - 1 < k
    BY <2>1
  <2> QED BY <2>2 DEF Typed, LedgerInv, InOrder
<1>6. /\ sums \in [Accounts -> [Currencies -> Int]]
      /\ costs \in [Accounts -> [Currencies -> Int]]
  BY DEF Typed, SumsInv, Balances
<1>7. /\ pending \in [Accounts -> PendingPad \cup {None}]
      /\ padding \in Seq(Seq(TransactionType))
  BY DEF Typed, PadInv
<1> QED BY <1>1, <1>2, <1>3, <1>4, <1>5, <1>6, <1>7 DEF TypeOK

THEOREM Typing == Spec => []TypeOK
<1> DEFINE Inv == LoadInv /\ Typed
<1>1. Init => Inv
  BY Starting, TypesStart
<1>2. Inv /\ [Next]_vars => Inv'
  BY Stepping, TypesKept
<1>3. Inv => TypeOK
  BY TypesHold
<1> QED BY <1>1, <1>2, <1>3, PTL DEF Spec
-----------------------------------------------------------------------------
(* Which accounts findings refuse, and where: those about a directive d    *)
(* blame the accounts A.                                                   *)
Refuses(fs, s, a) ==
    \E f \in ToSet(fs) : f.code \in Refusals /\ f.span = s /\ f.about = a
Blames(fs, d, A) ==
    fs \in Seq(ToSet(fs)) /\ \A s, a : Refuses(fs, s, a) <=> s = Span(d) /\ a \in A

LEMMA RefusesBoth ==
    ASSUME NEW fs, NEW gs, fs \in Seq(ToSet(fs)), gs \in Seq(ToSet(gs))
    PROVE  /\ fs \o gs \in Seq(ToSet(fs \o gs))
           /\ \A s, a : Refuses(fs \o gs, s, a) <=> Refuses(fs, s, a) \/ Refuses(gs, s, a)
<1> DEFINE A == ToSet(fs)
           B == ToSet(gs)
<1>1. fs \in Seq(A) /\ gs \in Seq(B)
  OBVIOUS
<1> HIDE DEF A, B
<1>2. fs \o gs \in Seq(A \cup B) /\ ToSet(fs \o gs) = ToSet(fs) \cup ToSet(gs)
  BY ONLY <1>1, Joined
<1>3. fs \o gs \in Seq(ToSet(fs \o gs))
  BY <1>2, Itemized
<1> QED BY <1>2, <1>3 DEF Refuses

LEMMA TellingBlamesNone ==
    ASSUME NEW fs, Tells(fs)
    PROVE  fs \in Seq(ToSet(fs)) /\ \A s, a : ~Refuses(fs, s, a)
BY DEF Tells, Refuses

LEMMA BlamesNone ==
    ASSUME NEW fs, Tells(fs), NEW d
    PROVE  Blames(fs, d, {})
BY TellingBlamesNone DEF Blames

LEMMA BlamesOne ==
    ASSUME NEW code \in Refusals, NEW d, NEW a
    PROVE  Blames(<<Finding(code, d, a)>>, d, {a})
<1> DEFINE f == Finding(code, d, a)
<1>1. f.code = code /\ f.span = Span(d) /\ f.about = a
  BY DEF Finding
<1> HIDE DEF f
<1>2. ToSet(<<f>>) = {f} /\ <<f>> \in Seq({f})
  BY DEF ToSet
<1>3. Blames(<<f>>, d, {a})
  BY <1>1, <1>2 DEF Blames, Refuses
<1> QED BY <1>3 DEF f

LEMMA BlamesBoth ==
    ASSUME NEW fs, NEW gs, NEW d, NEW A, NEW B, Blames(fs, d, A), Blames(gs, d, B)
    PROVE  Blames(fs \o gs, d, A \cup B)
BY RefusesBoth DEF Blames

LEMMA BlamesAll ==
    ASSUME NEW S, NEW s \in Seq(S), NEW ss, ss = [k \in DOMAIN s |-> ss[k]], NEW d, NEW A,
           \A k \in DOMAIN s : Blames(ss[k], d, A[k])
    PROVE  Blames(FlattenSeq(ss), d, UNION {A[k] : k \in DOMAIN s})
<1> DEFINE F == UNION {ToSet(ss[k]) : k \in DOMAIN s}
           fs == FlattenSeq(ss)
<1>1. ASSUME NEW k \in DOMAIN s PROVE ss[k] \in Seq(F)
  <2>1. ss[k] \in Seq(ToSet(ss[k])) /\ ToSet(ss[k]) \subseteq F
    BY DEF Blames
  <2> HIDE DEF F
  <2> QED BY <2>1
<1> HIDE DEF F
<1>2. ss \in Seq(Seq(F)) /\ DOMAIN ss = DOMAIN s
  BY <1>1, MadeList
<1>3. /\ fs \in Seq(F)
      /\ \A x : x \in ToSet(fs) <=> \E i \in DOMAIN ss : x \in ToSet(ss[i])
  BY <1>2, FlattenHolds
<1> HIDE DEF fs
<1>4. fs \in Seq(ToSet(fs))
  BY <1>3, Itemized
<1>5. \A t, a : Refuses(fs, t, a) <=> \E k \in DOMAIN s : Refuses(ss[k], t, a)
  BY <1>2, <1>3 DEF Refuses
<1>6. \A k \in DOMAIN s : \A t, a : Refuses(ss[k], t, a) <=> t = Span(d) /\ a \in A[k]
  BY DEF Blames
<1>7. \A t, a : Refuses(fs, t, a) <=> t = Span(d) /\ a \in UNION {A[k] : k \in DOMAIN s}
  BY <1>5, <1>6
<1> QED BY <1>4, <1>7 DEF Blames, fs

-----------------------------------------------------------------------------
\* The first open of an account, and the first close behind it.
LEMMA EntriesInOrder ==
    ASSUME LedgerInv, NEW i \in DOMAIN entries, NEW j \in DOMAIN entries
    PROVE  /\ i \in Nat /\ j \in Nat /\ entries[i] \in Entry /\ entries[j] \in Entry
           /\ entries[i].dir \in Directive /\ entries[i].dir.date \in Nat
           /\ entries[j].dir \in Directive /\ entries[j].dir.date \in Nat
           /\ i <= j => entries[i].dir.date <= entries[j].dir.date
           /\ i < j /\ entries[i].dir.date = entries[j].dir.date =>
                 Rank[entries[i].dir.kind] <= Rank[entries[j].dir.kind]
<1>1. entries \in Seq(Entry) /\ \A k, l \in DOMAIN entries : k < l => Before(entries[k], entries[l])
  BY DEF LedgerInv, InOrder
<1>2. i \in Nat /\ j \in Nat /\ entries[i] \in Entry /\ entries[j] \in Entry
  BY <1>1
<1>3. entries[i].dir \in Directive /\ entries[j].dir \in Directive
  BY <1>2 DEF Entry
<1>4. /\ entries[i].dir.date \in Nat /\ entries[j].dir.date \in Nat
      /\ Rank[entries[i].dir.kind] \in Nat /\ Rank[entries[j].dir.kind] \in Nat
  BY <1>2, BeforeIsLexical
<1>5. CASE i < j
  <2>1. Before(entries[i], entries[j])
    BY <1>1, <1>5
  <2>2. \/ entries[i].dir.date < entries[j].dir.date
        \/ /\ entries[i].dir.date = entries[j].dir.date
           /\ \/ Rank[entries[i].dir.kind] < Rank[entries[j].dir.kind]
              \/ Rank[entries[i].dir.kind] = Rank[entries[j].dir.kind]
    BY <1>2, <2>1, BeforeIsLexical
  <2> QED BY <1>2, <1>3, <1>4, <2>2
<1>6. CASE i = j
  BY <1>2, <1>3, <1>4, <1>6
<1>7. CASE j < i
  BY <1>2, <1>3, <1>4, <1>7
<1> QED BY <1>2, <1>5, <1>6, <1>7

LEMMA OpeningIsFirst ==
    ASSUME LedgerInv, NEW a, Opening(a) # {}
    PROVE  \E o \in Of("open", a) :
              /\ Opening(a) = {o}
              /\ \A j \in Of("open", a) : entries[o].dir.date <= entries[j].dir.date
<1>1. PICK o \in Opening(a) : TRUE
  OBVIOUS
<1>2. o \in Of("open", a) /\ (\A j \in Of("open", a) : o <= j)
  BY <1>1 DEF Opening
<1>3. \A j \in Of("open", a) : j \in DOMAIN entries
  BY DEF Of
<1>4. \A j \in Opening(a) : j = o
  <2> SUFFICES ASSUME NEW j \in Opening(a) PROVE j = o
    OBVIOUS
  <2>1. j \in Of("open", a) /\ j <= o /\ o <= j
    BY <1>2 DEF Opening
  <2> QED BY <1>2, <1>3, <2>1, EntriesInOrder
<1>5. \A j \in Of("open", a) : entries[o].dir.date <= entries[j].dir.date
  BY <1>2, <1>3, EntriesInOrder
<1> QED BY <1>1, <1>2, <1>4, <1>5

\* The first of some places of the ledger.
LEMMA FirstPlace ==
    ASSUME LedgerInv, NEW K \in SUBSET DOMAIN entries, K # {}
    PROVE  \E k \in K : \A j \in K : k <= j
<1>1. \A k \in DOMAIN entries : k \in Nat
  BY EntriesInOrder
<1>2. K \in SUBSET Nat
  BY <1>1
<1> QED BY <1>2, LeastOf

LEMMA OpenedIsOpened ==
    ASSUME LedgerInv, NEW a, NEW d \in Directive
    PROVE  Blames(OpenedFinding(a, d), d, IF OpenedBy(a, d.date) THEN {} ELSE {a})
           /\ (OpenedFinding(a, d) = <<>> <=> OpenedBy(a, d.date))
<1>1. d.date \in Nat
  BY DirectiveHas
<1>2. CASE Opening(a) = {}
  <2>1. Of("open", a) = {}
    <3>1. Of("open", a) \in SUBSET DOMAIN entries
      BY DEF Of
    <3> QED BY <1>2, <3>1, FirstPlace DEF Opening
  <2>2. ~OpenedBy(a, d.date)
    BY <2>1 DEF OpenedBy
  <2>3. OpenedFinding(a, d) = <<Finding("account-not-open", d, a)>>
    BY <1>2 DEF OpenedFinding
  <2>4. Blames(<<Finding("account-not-open", d, a)>>, d, {a})
    BY BlamesOne DEF Refusals
  <2>5. OpenedFinding(a, d) # <<>>
    BY <2>3
  <2> QED BY <2>2, <2>3, <2>4, <2>5
<1>3. CASE Opening(a) # {}
  <2>1. PICK o \in Of("open", a) :
              /\ Opening(a) = {o}
              /\ \A j \in Of("open", a) : entries[o].dir.date <= entries[j].dir.date
    BY <1>3, OpeningIsFirst
  <2>2. \A j \in Of("open", a) : entries[j].dir.date \in Nat
    BY EntriesInOrder DEF Of
  <2>3. OpenedBy(a, d.date) <=> entries[o].dir.date <= d.date
    BY <1>1, <2>1, <2>2 DEF OpenedBy
  <2>4. CASE OpenedBy(a, d.date)
    <3>1. ~\E p \in Opening(a) : d.date < entries[p].dir.date
      BY <1>1, <2>1, <2>2, <2>3, <2>4
    <3>2. OpenedFinding(a, d) = <<>>
      BY <1>3, <3>1 DEF OpenedFinding
    <3>3. Blames(<<>>, d, {})
      BY TellsNothing, BlamesNone
    <3> QED BY <2>4, <3>2, <3>3
  <2>5. CASE ~OpenedBy(a, d.date)
    <3>1. \E p \in Opening(a) : d.date < entries[p].dir.date
      BY <1>1, <2>1, <2>2, <2>3, <2>5
    <3>2. OpenedFinding(a, d) = <<Finding("account-not-yet-open", d, a)>>
      BY <1>3, <3>1 DEF OpenedFinding
    <3>3. Blames(<<Finding("account-not-yet-open", d, a)>>, d, {a})
      BY BlamesOne DEF Refusals
    <3>4. OpenedFinding(a, d) # <<>>
      BY <3>2
    <3> QED BY <2>5, <3>2, <3>3, <3>4
  <2> QED BY <2>4, <2>5
<1> QED BY <1>2, <1>3

LEMMA ClosingIsFirst ==
    ASSUME LedgerInv, NEW a, NEW date \in Nat, OpenedBy(a, date)
    PROVE  (\E c \in Closing(a) : entries[c].dir.date < date) <=> ClosedBefore(a, date)
<1>1. PICK p \in Of("open", a) : entries[p].dir.date <= date
  BY DEF OpenedBy
<1>2. Of("open", a) \in SUBSET DOMAIN entries /\ Of("close", a) \in SUBSET DOMAIN entries
  BY DEF Of
<1>3. Opening(a) # {}
  BY <1>1, <1>2, FirstPlace DEF Opening
<1>4. PICK o \in Of("open", a) :
              /\ Opening(a) = {o}
              /\ \A j \in Of("open", a) : entries[o].dir.date <= entries[j].dir.date
  BY <1>3, OpeningIsFirst
<1>5. ASSUME NEW c \in Of("close", a)
      PROVE  o < c <=> OpenedBy(a, entries[c].dir.date)
  <2>1. c \in DOMAIN entries /\ o \in DOMAIN entries
    BY <1>2, <1>4
  <2>2. entries[c].dir.kind = "close" /\ entries[o].dir.kind = "open"
    BY <1>4, <1>5 DEF Of
  <2>3. /\ c \in Nat /\ o \in Nat /\ entries[c].dir.date \in Nat /\ entries[o].dir.date \in Nat
        /\ o <= c => entries[o].dir.date <= entries[c].dir.date
        /\ c <= o => entries[c].dir.date <= entries[o].dir.date
        /\ c < o /\ entries[c].dir.date = entries[o].dir.date => Rank["close"] <= Rank["open"]
    BY <2>1, <2>2, EntriesInOrder
  <2>4. Rank["close"] = 6 /\ Rank["open"] = 1
    BY DEF Rank
  <2>5. c # o
    BY <2>2
  <2>6. o < c => OpenedBy(a, entries[c].dir.date)
    BY <1>4, <2>3 DEF OpenedBy
  <2>7. ASSUME OpenedBy(a, entries[c].dir.date) PROVE o < c
    <3>1. PICK j \in Of("open", a) : entries[j].dir.date <= entries[c].dir.date
      BY <2>7 DEF OpenedBy
    <3>2. entries[j].dir.date \in Nat
      BY <1>2, EntriesInOrder
    <3>3. entries[o].dir.date <= entries[c].dir.date
      BY <1>4, <2>3, <3>1, <3>2
    <3> QED BY <2>3, <2>4, <2>5, <3>3
  <2> QED BY <2>6, <2>7
<1>6. Behind(a) = {c \in Of("close", a) : OpenedBy(a, entries[c].dir.date)}
  BY <1>4, <1>5 DEF Behind
<1>7. ASSUME NEW c \in Closing(a), entries[c].dir.date < date PROVE ClosedBefore(a, date)
  BY <1>6, <1>7 DEF Closing, ClosedBefore
<1>8. ASSUME ClosedBefore(a, date) PROVE \E c \in Closing(a) : entries[c].dir.date < date
  <2>1. PICK c \in Of("close", a) : entries[c].dir.date < date /\ OpenedBy(a, entries[c].dir.date)
    BY <1>8 DEF ClosedBefore
  <2>2. c \in Behind(a) /\ Behind(a) \in SUBSET DOMAIN entries
    BY <1>2, <1>6, <2>1
  <2>3. PICK b \in Behind(a) : \A j \in Behind(a) : b <= j
    BY <2>2, FirstPlace
  <2>4. b \in Closing(a)
    BY <2>3 DEF Closing
  <2>5. /\ entries[b].dir.date <= entries[c].dir.date
        /\ entries[b].dir.date \in Nat /\ entries[c].dir.date \in Nat
    BY <2>2, <2>3, EntriesInOrder
  <2>6. entries[b].dir.date < date
    BY <2>1, <2>5
  <2> QED BY <2>4, <2>6
<1> QED BY <1>7, <1>8

LEMMA ActiveIsActive ==
    ASSUME LedgerInv, NEW a, NEW d \in Directive
    PROVE  Blames(ActiveFinding(a, d), d,
                  IF OpenedBy(a, d.date) /\ ~ClosedBefore(a, d.date) THEN {} ELSE {a})
<1>1. d.date \in Nat
  BY DirectiveHas
<1>2. CASE ~OpenedBy(a, d.date)
  <2>1. OpenedFinding(a, d) # <<>> /\ Blames(OpenedFinding(a, d), d, {a})
    BY <1>2, OpenedIsOpened
  <2>2. ActiveFinding(a, d) = OpenedFinding(a, d)
    BY <2>1 DEF ActiveFinding
  <2> QED BY <1>2, <2>1, <2>2
<1>3. CASE OpenedBy(a, d.date)
  <2>1. OpenedFinding(a, d) = <<>>
    BY <1>3, OpenedIsOpened
  <2>2. (\E c \in Closing(a) : entries[c].dir.date < d.date) <=> ClosedBefore(a, d.date)
    BY <1>1, <1>3, ClosingIsFirst
  <2>3. Blames(<<>>, d, {})
    BY TellsNothing, BlamesNone
  <2>4. Blames(<<Finding("account-closed", d, a)>>, d, {a})
    BY BlamesOne DEF Refusals
  <2>5. ActiveFinding(a, d) = IF ClosedBefore(a, d.date)
                              THEN <<Finding("account-closed", d, a)>> ELSE <<>>
    BY <2>1, <2>2 DEF ActiveFinding
  <2> QED BY <1>3, <2>3, <2>4, <2>5
<1> QED BY <1>2, <1>3
-----------------------------------------------------------------------------
\* What the passes report besides.
LEMMA UnresolvedTells ==
    ASSUME NEW d \in Directive, d.kind = "txn"
    PROVE  Tells(Unresolved(d))
<1> DEFINE K == {k \in DOMAIN d.posts : ~HasAmount(d.posts[k])}
           autos == Those(d.posts, K)
           fs == [k \in DOMAIN autos |-> Finding("auto-unresolved", d, autos[k].acct)]
<1>1. d.posts \in Seq(Posting) /\ \A k \in K : k \in DOMAIN d.posts
  BY PostsOfTransaction
<1>2. fs = Unresolved(d)
  BY DEF Unresolved
<1> HIDE DEF K
<1>3. autos \in Seq(Posting)
  BY <1>1, ThoseAreListed
<1> HIDE DEF autos
<1>4. \A k \in DOMAIN autos : fs[k].code \notin Refusals
  BY DEF Finding, Refusals
<1>5. fs = [k \in DOMAIN autos |-> fs[k]]
  OBVIOUS
<1> HIDE DEF fs
<1>6. Tells(fs)
  BY <1>3, <1>4, <1>5, TellsOfEach
<1> QED BY <1>2, <1>6

LEMMA TellsAbout ==
    ASSUME NEW code, code \notin Refusals, NEW d, NEW a
    PROVE  Tells(<<Finding(code, d, a)>>)
<1>1. Finding(code, d, a).code \notin Refusals
  BY DEF Finding
<1> QED BY <1>1, TellsOne

LEMMA CurrencyTells ==
    ASSUME NEW p, NEW d
    PROVE  Tells(CurrencyFinding(p, d))
<1>1. Tells(<<Finding("auto-unresolved", d, p.acct)>>)
      /\ Tells(<<Finding("currency-not-allowed", d, p.acct)>>) /\ Tells(<<>>)
  BY TellsAbout, TellsNothing DEF Refusals
<1> QED BY <1>1 DEF CurrencyFinding

LEMMA BalanceTells ==
    ASSUME NEW d \in Directive, d.kind = "txn"
    PROVE  Tells(BalanceFinding(d))
<1> DEFINE rest == IF \A c \in Currencies : Residual(d.posts, c) = 0 THEN <<>>
                   ELSE <<Finding("unbalanced", d, None)>>
<1>1. Tells(<<Finding("unbalanced", d, None)>>) /\ Tells(<<>>)
  BY TellsAbout, TellsNothing DEF Refusals
<1>2. Tells(rest)
  BY <1>1
<1>3. BalanceFinding(d) = Unresolved(d) \o rest
  BY DEF BalanceFinding
<1> HIDE DEF rest
<1> QED BY <1>2, <1>3, UnresolvedTells, TellsBoth

\* What a directive is reported for are the accounts it may not use.
LEMMA TransactionBlames ==
    ASSUME LedgerInv, NEW d \in Directive, d.kind = "txn"
    PROVE  Blames(EntryFindings(d), d, NotOpen(d))
<1> DEFINE acts == [k \in DOMAIN d.posts |-> ActiveFinding(d.posts[k].acct, d)]
           curs == [k \in DOMAIN d.posts |-> CurrencyFinding(d.posts[k], d)]
           A == [k \in DOMAIN d.posts |->
                   LET a == d.posts[k].acct
                   IN  IF OpenedBy(a, d.date) /\ ~ClosedBefore(a, d.date) THEN {} ELSE {a}]
           B == UNION {A[k] : k \in DOMAIN d.posts}
<1>1. d.posts \in Seq(Posting)
  BY PostsOfTransaction
<1>2. EntryFindings(d) = FlattenSeq(acts) \o FlattenSeq(curs) \o BalanceFinding(d)
  BY DEF EntryFindings
<1>3. ASSUME NEW k \in DOMAIN d.posts PROVE Blames(acts[k], d, A[k])
  BY ActiveIsActive
<1>4. acts = [k \in DOMAIN d.posts |-> acts[k]] /\ curs = [k \in DOMAIN d.posts |-> curs[k]]
  OBVIOUS
<1>5. \A k \in DOMAIN d.posts : Tells(curs[k])
  BY CurrencyTells
<1>6. B = NotOpen(d)
  <2>1. \A a : a \in B <=> \E k \in DOMAIN d.posts :
                  a = d.posts[k].acct /\ ~(OpenedBy(a, d.date) /\ ~ClosedBefore(a, d.date))
    OBVIOUS
  <2>2. References(d) = {d.posts[k].acct : k \in DOMAIN d.posts}
    BY DEF References, ToSet
  <2>3. NotOpen(d) = {a \in References(d) : ~OpenedBy(a, d.date) \/ ClosedBefore(a, d.date)}
    BY DEF NotOpen
  <2> HIDE DEF B
  <2> QED BY <2>1, <2>2, <2>3
<1>7. Tells(FlattenSeq(curs))
  <2> HIDE DEF curs
  <2> QED BY <1>1, <1>4, <1>5, TellsOfAll
<1>8. Blames(FlattenSeq(acts), d, B)
  <2>1. B = UNION {A[k] : k \in DOMAIN d.posts}
    OBVIOUS
  <2>2. acts = [k \in DOMAIN d.posts |-> acts[k]]
    OBVIOUS
  <2> DEFINE ps == d.posts
  <2>4. ps \in Seq(Posting) /\ acts = [k \in DOMAIN ps |-> acts[k]]
        /\ \A k \in DOMAIN ps : Blames(acts[k], d, A[k])
    BY <1>1, <1>3, <2>2
  <2>5. UNION {A[k] : k \in DOMAIN d.posts} = UNION {A[k] : k \in DOMAIN ps}
    OBVIOUS
  <2> HIDE DEF acts, A, B, ps
  <2>6. Blames(FlattenSeq(acts), d, UNION {A[k] : k \in DOMAIN ps})
    BY ONLY <2>4, BlamesAll
  <2>3. Blames(FlattenSeq(acts), d, UNION {A[k] : k \in DOMAIN d.posts})
    BY <2>5, <2>6
  <2> QED BY <2>1, <2>3
<1>9. Blames(FlattenSeq(curs), d, {}) /\ Blames(BalanceFinding(d), d, {})
  BY <1>7, BalanceTells, BlamesNone
<1> HIDE DEF acts, curs, B
<1>10. Blames(FlattenSeq(acts) \o FlattenSeq(curs), d, B \cup {})
  BY <1>8, <1>9, BlamesBoth
<1>11. Blames(FlattenSeq(acts) \o FlattenSeq(curs) \o BalanceFinding(d), d, (B \cup {}) \cup {})
  BY <1>9, <1>10, BlamesBoth
<1>12. (B \cup {}) \cup {} = NotOpen(d)
  BY <1>6
<1> QED BY <1>2, <1>11, <1>12

LEMMA EntryBlames ==
    ASSUME LedgerInv, NEW d \in Directive
    PROVE  Blames(EntryFindings(d), d, NotOpen(d))
<1>1. CASE d.kind = "txn"
  BY <1>1, TransactionBlames
<1>2. CASE d.kind = "pad"
  <2> DEFINE W(a) == IF OpenedBy(a, d.date) /\ ~ClosedBefore(a, d.date) THEN {} ELSE {a}
             A == W(d.acct)
             B == W(d.from)
  <2>1. EntryFindings(d) = ActiveFinding(d.acct, d) \o ActiveFinding(d.from, d)
    BY <1>2 DEF EntryFindings
  <2>2. Blames(ActiveFinding(d.acct, d), d, A) /\ Blames(ActiveFinding(d.from, d), d, B)
    BY ActiveIsActive
  <2>3. A \cup B = NotOpen(d)
    <3>1. References(d) = {d.acct, d.from}
      BY <1>2 DEF References
    <3>2. NotOpen(d) = {a \in {d.acct, d.from} : ~OpenedBy(a, d.date) \/ ClosedBefore(a, d.date)}
      BY <1>2, <3>1 DEF NotOpen
    <3> QED BY <3>2
  <2> HIDE DEF A, B
  <2>4. Blames(ActiveFinding(d.acct, d) \o ActiveFinding(d.from, d), d, A \cup B)
    BY <2>2, BlamesBoth
  <2> QED BY <2>1, <2>3, <2>4
<1>3. CASE d.kind \in {"balance", "document"}
  <2>1. EntryFindings(d) = OpenedFinding(d.acct, d)
    BY <1>3 DEF EntryFindings
  <2>2. References(d) = {d.acct}
    BY <1>3 DEF References
  <2>3. NotOpen(d) = IF OpenedBy(d.acct, d.date) THEN {} ELSE {d.acct}
    BY <1>3, <2>2 DEF NotOpen
  <2>4. Blames(OpenedFinding(d.acct, d), d, IF OpenedBy(d.acct, d.date) THEN {} ELSE {d.acct})
    BY OpenedIsOpened
  <2> QED BY <2>1, <2>3, <2>4
<1>4. CASE d.kind \notin {"txn", "pad", "balance", "document"}
  <2>1. EntryFindings(d) = <<>> /\ NotOpen(d) = {}
    BY <1>4 DEF EntryFindings, NotOpen
  <2> QED BY <2>1, TellsNothing, BlamesNone
<1> QED BY <1>1, <1>2, <1>3, <1>4

-----------------------------------------------------------------------------
(* Up to the validations no finding is a refusal; while they run, those    *)
(* there are stand for the directives visited.                             *)
Seen(j) == stage = "done" \/ j < at
Reason(s, a) ==
    \E j \in DOMAIN entries :
       Seen(j) /\ Span(entries[j].dir) = s /\ a \in NotOpen(entries[j].dir)
FindingsInv ==
    /\ stage \in Unchecked => Tells(findings)
    /\ Checked => /\ findings \in Seq(ToSet(findings))
                  /\ \A s, a : Refuses(findings, s, a) <=> Reason(s, a)

\* Findings are only added.
Told == Tells(findings') /\ ToSet(findings) \subseteq ToSet(findings')

LEMMA Telling ==
    ASSUME FindingsInv, NEW fs, Tells(fs), Report(fs), stage \in Unchecked
    PROVE  Told
<1>1. findings' = findings \o fs /\ Tells(findings)
  BY DEF FindingsInv, Report
<1>2. ToSet(findings \o fs) = ToSet(findings) \cup ToSet(fs)
  <2> DEFINE S == ToSet(findings)
             R == ToSet(fs)
  <2>1. findings \in Seq(S) /\ fs \in Seq(R)
    BY <1>1 DEF Tells
  <2> HIDE DEF S, R
  <2> QED BY <2>1, Joined
<1> QED BY <1>1, <1>2, TellsBoth DEF Told

LEMMA TellingNothing ==
    ASSUME FindingsInv, UNCHANGED findings, stage \in Unchecked
    PROVE  Told
BY DEF FindingsInv, Told

LEMMA TellingLoading ==
    ASSUME FindingsInv, Loading
    PROVE  Told
<1>1. stage = "load"
  BY DEF Loading, ReadDirective, IncludeFile, ExpandGlob, IncludeMatch, Visiting
<1>2. Tells(findings) /\ stage \in Unchecked
  BY <1>1 DEF FindingsInv, Unchecked
<1>3. ASSUME NEW f, LoadFile(f) PROVE Told
  <2>1. Tells(<<Finding("unreadable", NoSpan, f)>>)
    BY TellsAbout DEF Refusals
  <2>2. findings' = findings \/ Report(<<Finding("unreadable", NoSpan, f)>>)
    BY <1>3 DEF LoadFile
  <2> QED BY <1>2, <2>1, <2>2, Telling, TellingNothing
<1>4. ASSUME NEW code, code \notin Refusals, NEW d, NEW a, Skip(Finding(code, d, a))
      PROVE  Told
  <2>1. Report(<<Finding(code, d, a)>>)
    BY <1>4 DEF Skip
  <2> QED BY <1>2, <1>4, <2>1, TellsAbout, Telling
<1>5. CASE ReadDirective
  BY <1>2, <1>5, TellingNothing DEF ReadDirective
<1>6. CASE IncludeFile
  <2>1. \/ Skip(Finding("circular", NoSpan, Item.path)) \/ LoadFile(Item.path)
    BY <1>6 DEF IncludeFile
  <2>2. "circular" \notin Refusals
    BY DEF Refusals
  <2> QED BY <1>3, <1>4, <2>1, <2>2
<1>7. CASE IncludeMatch
  <2>1. \/ Skip(Finding("matched-again", Head(todo), Item.path)) \/ LoadFile(Item.path)
    BY <1>7 DEF IncludeMatch
  <2>2. "matched-again" \notin Refusals
    BY DEF Refusals
  <2> QED BY <1>3, <1>4, <2>1, <2>2
<1>8. CASE ExpandGlob
  <2>1. Report(<<>>) \/ Report(<<Finding("no-match", Head(todo), None)>>)
    BY <1>8 DEF ExpandGlob
  <2>2. Tells(<<>>) /\ Tells(<<Finding("no-match", Head(todo), None)>>)
    BY TellsNothing, TellsAbout DEF Refusals
  <2> QED BY <1>2, <2>1, <2>2, Telling
<1> QED BY <1>5, <1>6, <1>7, <1>8 DEF Loading

LEMMA TellingDocuments ==
    ASSUME Typed, FindingsInv, VerifyDocuments
    PROVE  Told
<1> DEFINE K == {k \in Kinds(All, "document") : ~All[k].exists}
           missing == Those(All, K)
           fs == [k \in DOMAIN missing |-> Finding("document-missing", missing[k], None)]
<1>1. stage \in Unchecked /\ Report(fs)
  BY DEF VerifyDocuments, Unchecked
<1>2. All \in Seq(Directive) /\ \A k \in K : k \in DOMAIN All
  BY AllTypes DEF Typed, Kinds
<1> HIDE DEF K
<1>3. missing \in Seq(Directive)
  BY <1>2, ThoseAreListed
<1> HIDE DEF missing
<1>4. (\A k \in DOMAIN missing : fs[k].code \notin Refusals) /\ fs = [k \in DOMAIN missing |-> fs[k]]
  BY DEF Finding, Refusals
<1> HIDE DEF fs
<1>5. Tells(fs)
  BY <1>3, <1>4, TellsOfEach
<1> QED BY <1>1, <1>5, Telling

LEMMA TellingPlugins ==
    ASSUME Typed, FindingsInv, RunPlugins
    PROVE  Told
<1>1. stage = "plugins"
  BY DEF RunPlugins, UnknownPlugin, RunPlugin, PluginCanceled, PluginChangesNothing, PluginFails,
     EndPlugins, PluginAdds, PluginRemoves, Host, AtPlugin
<1>2. Tells(findings) /\ stage \in Unchecked
  BY <1>1 DEF FindingsInv, Unchecked
<1>3. CASE UnknownPlugin
  <2>1. Report(<<Finding("plugin-not-registered", Head(queue), None)>>)
    BY <1>3 DEF UnknownPlugin
  <2>2. Tells(<<Finding("plugin-not-registered", Head(queue), None)>>)
    BY TellsAbout DEF Refusals
  <2> QED BY <1>2, <2>1, <2>2, Telling
<1>4. CASE RunPlugin
  <2> DEFINE p == Head(queue)
             r == Apply(p, All)
  <2>1. queue # <<>> /\ p.name \in Standard
    BY <1>4 DEF RunPlugin, AtPlugin
  <2>2. p \in PluginsRead
    BY <2>1 DEF Typed, ListsInv
  <2>3. All \in Seq(AsRead)
    BY <1>2, AllTypes DEF Typed
  <2>4. Serves(r)
    BY <2>1, <2>2, <2>3, ApplyServes DEF PluginsRead
  <2>5. Report(r.findings)
    BY <1>4 DEF RunPlugin
  <2> HIDE DEF r
  <2> QED BY <1>2, <2>4, <2>5, Telling DEF Serves
<1>5. CASE PluginCanceled \/ PluginChangesNothing \/ PluginFails \/ EndPlugins
           \/ (\E d \in Additions : PluginAdds(d)) \/ (\E k \in DOMAIN entries : PluginRemoves(k))
  BY <1>2, <1>5, TellingNothing DEF PluginCanceled, PluginChangesNothing, PluginFails, EndPlugins, PluginAdds,
     PluginRemoves, Fail
<1> QED BY <1>3, <1>4, <1>5 DEF RunPlugins

LEMMA TellingPad ==
    ASSUME Typed, FindingsInv, Pad
    PROVE  Told
<1>1. stage = "pad"
  BY DEF Pad, BeginPad, PadTransaction, RecordPad, NoPad, AlreadyPadded, NothingMissing,
     HeldAtCost, InsertPadding, PadPasses, EndPad, InForce, Asserts, Begins, Visits, Ends
<1>2. Tells(findings) /\ stage \in Unchecked
  BY <1>1 DEF FindingsInv, Unchecked
<1>3. CASE BeginPad \/ NoPad \/ AlreadyPadded \/ NothingMissing \/ InsertPadding \/ PadPasses
  BY <1>2, <1>3, TellingNothing DEF BeginPad, NoPad, AlreadyPadded, NothingMissing, InsertPadding, PadPasses
<1>4. CASE PadTransaction
  <2>1. D \in Directive /\ D.kind = "txn"
    BY <1>4, Visited DEF PadTransaction, Typed
  <2>2. Report(Unresolved(D))
    BY <1>4 DEF PadTransaction
  <2> QED BY <1>2, <2>1, <2>2, UnresolvedTells, Telling
<1>5. CASE RecordPad
  <2> DEFINE pp == pending[D.acct]
             fs == <<Finding("pad-unresolved", entries[pp.at].dir, None)>>
  <2>1. Report(<<>>) \/ Report(fs)
    BY <1>5 DEF RecordPad
  <2>2. Tells(<<>>) /\ Tells(fs)
    BY TellsNothing, TellsAbout DEF Refusals
  <2> QED BY <1>2, <2>1, <2>2, Telling
<1>6. CASE HeldAtCost
  <2> DEFINE fs == <<Finding("pad-target-has-cost", entries[pending[D.acct].at].dir, None)>>
  <2>1. Report(fs)
    BY <1>6 DEF HeldAtCost
  <2>2. Tells(fs)
    BY TellsAbout DEF Refusals
  <2> QED BY <1>2, <2>1, <2>2, Telling
<1>7. CASE EndPad
  <2> DEFINE idle == {a \in Accounts : pending[a] # None /\ ~pending[a].used}
             order == SetToSeq(idle)
             fs == [k \in DOMAIN order |->
                      Finding("pad-unresolved", entries[pending[order[k]].at].dir, None)]
  <2>1. Report(fs)
    BY <1>7 DEF EndPad
  <2>2. IsFiniteSet(idle)
    BY FinitelyMany, FS_Subset
  <2> HIDE DEF idle
  <2>3. order \in Seq(idle)
    BY <2>2, SetsAreListed
  <2> HIDE DEF order
  <2>4. (\A k \in DOMAIN order : fs[k].code \notin Refusals) /\ fs = [k \in DOMAIN order |-> fs[k]]
    BY DEF Finding, Refusals
  <2> HIDE DEF fs
  <2>5. Tells(fs)
    BY <2>3, <2>4, TellsOfEach
  <2> QED BY <1>2, <2>1, <2>5, Telling
<1> QED BY <1>3, <1>4, <1>5, <1>6, <1>7 DEF Pad

LEMMA TellingBalance ==
    ASSUME Typed, FindingsInv, Balance
    PROVE  Told
<1>1. stage = "balance"
  BY DEF Balance, BeginBalance, BalanceTransaction, CheckBalance, BalancePasses, EndBalance,
     Begins, Visits, Ends
<1>2. Tells(findings) /\ stage \in Unchecked
  BY <1>1 DEF FindingsInv, Unchecked
<1>3. CASE BeginBalance \/ BalancePasses \/ EndBalance
  BY <1>2, <1>3, TellingNothing DEF BeginBalance, BalancePasses, EndBalance
<1>4. CASE BalanceTransaction
  <2>1. D \in Directive /\ D.kind = "txn"
    BY <1>4, Visited DEF BalanceTransaction, Typed
  <2>2. Report(Unresolved(D))
    BY <1>4 DEF BalanceTransaction
  <2> QED BY <1>2, <2>1, <2>2, UnresolvedTells, Telling
<1>5. CASE CheckBalance
  <2> DEFINE off == <<Finding("balance-mismatch", D, None)>>
             dup == <<Finding("duplicate-balance", D, None)>>
  <2>1. Tells(off) /\ Tells(dup) /\ Tells(<<>>)
    BY TellsAbout, TellsNothing DEF Refusals
  <2>2. \E s \in {<<>>, off}, t \in {<<>>, dup} : Report(s \o t)
    BY <1>5 DEF CheckBalance
  <2> HIDE DEF off, dup
  <2>3. \A s \in {<<>>, off}, t \in {<<>>, dup} : Tells(s \o t)
    BY <2>1, TellsBoth
  <2> QED BY <1>2, <2>2, <2>3, Telling
<1> QED BY <1>3, <1>4, <1>5 DEF Balance
-----------------------------------------------------------------------------
\* No reason yet, the reasons of one more directive, and all of them.
LEMMA NoReasonYet ==
    ASSUME LedgerInv, stage # "done", at \in {0, 1}
    PROVE  \A s, a : ~Reason(s, a)
<1>1. \A j \in DOMAIN entries : j \in Nat /\ j # 0
  BY DEF LedgerInv
<1>2. \A j \in DOMAIN entries : ~Seen(j)
  BY <1>1 DEF Seen
<1> QED BY <1>2 DEF Reason

LEMMA SameReasons ==
    ASSUME entries' = entries
    PROVE  \A d : NotOpen(d)' = NotOpen(d)
BY DEF NotOpen, OpenedBy, ClosedBefore, Of

LEMMA FindingsStay ==
    ASSUME FindingsInv, UNCHANGED <<raw, stage, findings, entries, at>>
    PROVE  FindingsInv'
<1>1. \A d : NotOpen(d)' = NotOpen(d)
  BY SameReasons
<1>2. \A s, a : Reason(s, a)' <=> Reason(s, a)
  BY <1>1 DEF Reason, Seen
<1> QED BY <1>2 DEF FindingsInv, Checked, Tells, Refuses

LEMMA BalanceEnds ==
    ASSUME Typed, LedgerInv', FindingsInv, EndBalance
    PROVE  FindingsInv'
<1>1. stage' = "validations" /\ at' = 0
  BY DEF EndBalance, Ends
<1>2. Tells(findings')
  BY TellingBalance DEF Balance, Told
<1>3. \A s, a : ~Reason(s, a)'
  <2>1. \A j \in DOMAIN entries' : j \in Nat /\ j # 0
    BY DEF LedgerInv
  <2>2. \A j \in DOMAIN entries' : ~Seen(j)'
    BY <1>1, <2>1 DEF Seen
  <2> QED BY <2>2 DEF Reason
<1>4. findings' \in Seq(ToSet(findings')) /\ \A s, a : ~Refuses(findings', s, a)
  BY <1>2, TellingBlamesNone
<1>5. \A s, a : Refuses(findings, s, a)' <=> Refuses(findings', s, a)
  BY DEF Refuses
<1> QED BY <1>2, <1>3, <1>4, <1>5 DEF FindingsInv, Tells

LEMMA ValidationsBegin ==
    ASSUME Typed, FindingsInv, BeginValidations
    PROVE  FindingsInv'
<1>1. /\ stage = "validations" /\ at = 0 /\ at' = 1
      /\ UNCHANGED <<stage, entries, findings, raw>>
  BY DEF BeginValidations, Begins, ledgerVars, PassFrame, inputs
<1>2. \A s, a : ~Reason(s, a)
  BY <1>1, NoReasonYet DEF Typed
<1>3. \A j \in DOMAIN entries' : ~Seen(j)'
  <2>1. \A j \in DOMAIN entries' : j \in Nat /\ j # 0
    BY <1>1 DEF Typed, LedgerInv
  <2> QED BY <1>1, <2>1 DEF Seen
<1>4. \A s, a : ~Reason(s, a)'
  BY <1>3 DEF Reason
<1>5. \A s, a : Reason(s, a)' <=> Reason(s, a)
  BY <1>2, <1>4
<1> QED BY <1>1, <1>5 DEF FindingsInv, Checked, Unchecked, Refuses

LEMMA EntryValidated ==
    ASSUME Typed, FindingsInv, ValidateEntry
    PROVE  FindingsInv'
<1>1. /\ Visits("validations", DOMAIN Rank) /\ Report(EntryFindings(D))
      /\ UNCHANGED <<stage, entries, raw>>
  BY DEF ValidateEntry, ledgerVars, PassFrame, inputs
<1>2. /\ D \in Directive /\ at \in DOMAIN entries /\ at' = at + 1 /\ stage = "validations"
      /\ at \in Nat
  BY <1>1, Visited DEF Typed
<1>3. Blames(EntryFindings(D), D, NotOpen(D))
  BY <1>2, EntryBlames DEF Typed
<1>4. \A d : NotOpen(d)' = NotOpen(d)
  BY <1>1, SameReasons
<1>5. \A s, a : Reason(s, a)' <=> Reason(s, a) \/ (s = Span(D) /\ a \in NotOpen(D))
  <2>1. \A j \in DOMAIN entries : j \in Nat
    BY DEF Typed, LedgerInv
  <2>2. \A j \in DOMAIN entries : j < at + 1 <=> j < at \/ j = at
    BY <1>2, <2>1
  <2>3. stage # "done" /\ stage' # "done"
    BY <1>1, <1>2
  <2>4. \A s, a : Reason(s, a)' <=> \E j \in DOMAIN entries :
                 /\ j < at + 1 /\ Span(entries[j].dir) = s /\ a \in NotOpen(entries[j].dir)
    BY <1>1, <1>2, <1>4, <2>3 DEF Reason, Seen
  <2>5. \A s, a : Reason(s, a) <=> \E j \in DOMAIN entries :
                 /\ j < at /\ Span(entries[j].dir) = s /\ a \in NotOpen(entries[j].dir)
    BY <2>3 DEF Reason, Seen
  <2> QED BY <1>2, <2>2, <2>4, <2>5 DEF D
<1>6. ASSUME Checked'
      PROVE  /\ findings' \in Seq(ToSet(findings'))
             /\ \A s, a : Refuses(findings', s, a) <=> Reason(s, a)'
  <2>1. Checked
    BY <1>1, <1>6 DEF Checked
  <2>2. /\ findings \in Seq(ToSet(findings))
        /\ \A s, a : Refuses(findings, s, a) <=> Reason(s, a)
    BY <2>1 DEF FindingsInv
  <2>3. findings' = findings \o EntryFindings(D)
    BY <1>1 DEF Report
  <2> DEFINE fs == EntryFindings(D)
  <2>4. fs \in Seq(ToSet(fs)) /\ \A s, a : Refuses(fs, s, a) <=> s = Span(D) /\ a \in NotOpen(D)
    BY <1>3 DEF Blames
  <2> HIDE DEF fs
  <2>5. /\ findings \o fs \in Seq(ToSet(findings \o fs))
        /\ \A s, a : Refuses(findings \o fs, s, a) <=> Refuses(findings, s, a) \/ Refuses(fs, s, a)
    BY <2>2, <2>4, RefusesBoth
  <2>6. findings' = findings \o fs
    BY <2>3 DEF fs
  <2> QED BY <1>5, <2>2, <2>4, <2>5, <2>6
<1>7. \A s, a : Refuses(findings, s, a)' <=> Refuses(findings', s, a)
  BY DEF Refuses
<1>8. stage' \notin Unchecked
  BY <1>1, <1>2 DEF Unchecked
<1> QED BY <1>6, <1>7, <1>8 DEF FindingsInv

LEMMA ValidationsEnd ==
    ASSUME Typed, FindingsInv, EndValidations
    PROVE  FindingsInv'
<1> DEFINE K == {k \in Kinds(All, "open") : k \notin Opening(All[k].acct)}
           again == Those(All, K)
           fs == [k \in DOMAIN again |-> Finding("duplicate-open", again[k], None)]
<1>1. /\ stage = "validations" /\ stage' = "done" /\ at = Len(entries) + 1 /\ Report(fs)
      /\ UNCHANGED <<entries, raw>>
  BY DEF EndValidations, Ends, ledgerVars, PassFrame, inputs
<1>2. All \in Seq(Directive) /\ \A k \in K : k \in DOMAIN All
  BY AllTypes DEF Typed, Kinds
<1>3. Tells(fs)
  <2> HIDE DEF K
  <2>1. again \in Seq(Directive)
    BY <1>2, ThoseAreListed
  <2> HIDE DEF again
  <2>2. (\A k \in DOMAIN again : fs[k].code \notin Refusals) /\ fs = [k \in DOMAIN again |-> fs[k]]
    BY DEF Finding, Refusals
  <2> HIDE DEF fs
  <2> QED BY <2>1, <2>2, TellsOfEach
<1> HIDE DEF fs
<1>4. \A d : NotOpen(d)' = NotOpen(d)
  BY <1>1, SameReasons
<1>5. \A j \in DOMAIN entries : Seen(j) /\ Seen(j)'
  <2>1. \A j \in DOMAIN entries : j < Len(entries) + 1
    BY DEF Typed, LedgerInv
  <2> QED BY <1>1, <2>1 DEF Seen
<1>6. \A s, a : Reason(s, a)' <=> Reason(s, a)
  BY <1>1, <1>4, <1>5 DEF Reason
<1>7. ASSUME Checked'
      PROVE  /\ findings' \in Seq(ToSet(findings'))
             /\ \A s, a : Refuses(findings', s, a) <=> Reason(s, a)'
  <2>1. Checked
    BY <1>1, <1>7 DEF Checked
  <2>2. /\ findings \in Seq(ToSet(findings))
        /\ \A s, a : Refuses(findings, s, a) <=> Reason(s, a)
    BY <2>1 DEF FindingsInv
  <2>3. fs \in Seq(ToSet(fs)) /\ \A s, a : ~Refuses(fs, s, a)
    BY <1>3, TellingBlamesNone
  <2>4. /\ findings \o fs \in Seq(ToSet(findings \o fs))
        /\ \A s, a : Refuses(findings \o fs, s, a) <=> Refuses(findings, s, a) \/ Refuses(fs, s, a)
    BY <2>2, <2>3, RefusesBoth
  <2>5. findings' = findings \o fs
    BY <1>1 DEF Report
  <2> QED BY <1>6, <2>2, <2>3, <2>4, <2>5
<1>8. \A s, a : Refuses(findings, s, a)' <=> Refuses(findings', s, a)
  BY DEF Refuses
<1>9. stage' \notin Unchecked
  BY <1>1 DEF Unchecked
<1> QED BY <1>7, <1>8, <1>9 DEF FindingsInv

LEMMA FindingsKept ==
    ASSUME Typed, FindingsInv, [Next]_vars
    PROVE  FindingsInv'
<1>1. LedgerInv'
  BY LedgerKept
<1>2. ASSUME Tells(findings'), ~Checked' PROVE FindingsInv'
  BY <1>2 DEF FindingsInv, Tells
<1>3. CASE Loading
  <2>1. stage = "load" /\ stage' = stage
    BY <1>3 DEF Loading, ReadDirective, IncludeFile, ExpandGlob, IncludeMatch, Visiting, LoadFrame
  <2> QED BY <1>2, <1>3, <2>1, TellingLoading DEF Checked, Told
<1>4. CASE FinishLoading \/ Book \/ BookingHalts \/ VerifyDocuments
  <2>1. stage \in Unchecked /\ ~Checked'
    BY <1>4 DEF FinishLoading, Book, BookingHalts, VerifyDocuments, ToPlugins, Checked, Unchecked
  <2>2. Tells(findings')
    <3>1. CASE FinishLoading \/ Book
      BY <2>1, <3>1 DEF FinishLoading, Book, FindingsInv
    <3>2. CASE BookingHalts
      <4>1. Report(<<Finding("booking-halted", NoSpan, None)>>)
        BY <3>2 DEF BookingHalts
      <4>2. Tells(<<Finding("booking-halted", NoSpan, None)>>)
        BY TellsAbout DEF Refusals
      <4> QED BY <2>1, <4>1, <4>2, Telling DEF Told
    <3> QED BY <1>4, <3>1, <3>2, TellingDocuments DEF Told
  <2> QED BY <1>2, <2>1, <2>2
<1>5. CASE Cancel \/ UNCHANGED vars
  BY <1>5, FindingsStay DEF Cancel, inputs, ledgerVars, vars
<1>6. CASE Canceled
  <2>1. stage' = "failed"
    BY <1>6 DEF Canceled, Fail
  <2> QED BY <2>1 DEF FindingsInv, Checked, Unchecked
<1>7. CASE RunPlugins
  <2>1. ~Checked'
    BY <1>7 DEF RunPlugins, UnknownPlugin, RunPlugin, PluginCanceled, PluginChangesNothing,
       PluginFails, EndPlugins, PluginAdds, PluginRemoves, Host, AtPlugin, NextPlugin, Fail,
       Checked, PassFrame, inputs
  <2> QED BY <1>2, <1>7, <2>1, TellingPlugins DEF Told
<1>8. CASE Pad
  <2>1. ~Checked'
    BY <1>8 DEF Pad, BeginPad, PadTransaction, RecordPad, NoPad, AlreadyPadded, NothingMissing,
       HeldAtCost, InsertPadding, PadPasses, EndPad, InForce, Asserts, PadFrame, Begins, Visits,
       Ends, Checked
  <2> QED BY <1>2, <1>8, <2>1, TellingPad DEF Told
<1>9. CASE Balance /\ ~EndBalance
  <2>1. ~Checked'
    BY <1>9 DEF Balance, BeginBalance, BalanceTransaction, CheckBalance, BalancePasses,
       BalanceFrame, Begins, Visits, Checked
  <2> QED BY <1>2, <1>9, <2>1, TellingBalance DEF Told
<1>10. CASE EndBalance \/ Validations
  BY <1>1, <1>10, BalanceEnds, ValidationsBegin, EntryValidated, ValidationsEnd DEF Validations
<1> QED BY <1>3, <1>4, <1>5, <1>6, <1>7, <1>8, <1>9, <1>10 DEF Next, Ended

\* Whatever the ledger and the plugins, when the validations end an account is
\* reported at a place exactly if a directive of that place uses it while it
\* is not open (checkOpened, checkActive, Build).
THEOREM Lifetimes == Spec => []LifetimesAreRespected
<1> DEFINE Inv == LoadInv /\ Typed /\ FindingsInv
<1>1. Init => Inv
  <2> SUFFICES ASSUME Init PROVE Inv
    OBVIOUS
  <2>1. stage = "load" /\ findings = <<>>
    BY DEF Init
  <2>2. FindingsInv
    BY <2>1, TellsNothing DEF FindingsInv, Checked
  <2> QED BY <2>2, Starting, TypesStart
<1>2. Inv /\ [Next]_vars => Inv'
  BY Stepping, TypesKept, FindingsKept
<1>3. Inv => LifetimesAreRespected
  <2> SUFFICES ASSUME Typed, FindingsInv, ~raw, stage = "done", NEW k \in DOMAIN entries,
                      NEW a \in References(entries[k].dir)
               PROVE  LET d == entries[k].dir
                      IN  Refused(a, d) <=>
                            \E e \in ToSet(All) : Span(e) = Span(d) /\ a \in NotOpen(e)
    BY DEF LifetimesAreRespected
  <2> DEFINE d == entries[k].dir
  <2>1. Refused(a, d) <=> Refuses(findings, Span(d), a)
    BY DEF Refused, Refuses, Refusals
  <2>2. Refuses(findings, Span(d), a) <=> Reason(Span(d), a)
    BY DEF FindingsInv, Checked
  <2>3. Reason(Span(d), a) <=> \E j \in DOMAIN entries :
               Span(entries[j].dir) = Span(d) /\ a \in NotOpen(entries[j].dir)
    BY DEF Reason, Seen
  <2>4. ToSet(All) = {entries[j].dir : j \in DOMAIN entries}
    BY DEF All, ToSet
  <2> QED BY <2>1, <2>2, <2>3, <2>4
<1> QED BY <1>1, <1>2, <1>3, PTL DEF Spec
-----------------------------------------------------------------------------
(* What the entries es hold before entry k, and what the balance pass      *)
(* makes of an assertion.                                                  *)
TxnsOf(es, k) == {j \in 1 .. k - 1 : es[j].dir.kind = "txn"}
Holds(es, k, A, c) == Sum(Moves(es, A, c), TxnsOf(es, k))
Off(es, k) == LET b == es[k].dir IN Holds(es, k, Below[b.acct], b.cur) - b.num
Judged(es, k) ==
    LET b == es[k].dir
    IN  IF b.kind = "balance" /\ ~Within(Off(es, k), b.tol) THEN [b EXCEPT !.diff = Off(es, k)]
        ELSE b

LEMMA EntryHas ==
    ASSUME NEW es \in Seq(Entry), NEW j \in DOMAIN es
    PROVE  /\ j \in Nat /\ j # 0 /\ j <= Len(es) /\ es[j] \in Entry /\ es[j].dir \in Directive
           /\ es[j].dir.kind = "txn" => es[j].dir.posts \in Seq(Posting)
           /\ es[j].dir.kind = "balance" =>
                /\ es[j].dir \in BalanceType /\ es[j].dir.acct \in Accounts
                /\ es[j].dir.cur \in Currencies /\ es[j].dir.num \in Int /\ es[j].dir.tol \in Int
<1>1. j \in Nat /\ j # 0 /\ j <= Len(es) /\ es[j] \in Entry
  OBVIOUS
<1>2. es[j].dir \in Directive
  BY <1>1 DEF Entry
<1>3. es[j].dir.kind = "txn" => es[j].dir.posts \in Seq(Posting)
  BY <1>2, PostsOfTransaction
<1>4. es[j].dir.kind = "balance" => es[j].dir \in BalanceType
  BY <1>2, KindIsType
<1>5. es[j].dir \in BalanceType => /\ es[j].dir.acct \in Accounts /\ es[j].dir.cur \in Currencies
                                   /\ es[j].dir.num \in Int /\ es[j].dir.tol \in Int
  BY DEF BalanceType
<1> QED BY <1>1, <1>2, <1>3, <1>4, <1>5

LEMMA TxnsOfTypes ==
    ASSUME NEW es \in Seq(Entry), NEW k \in 1 .. Len(es) + 1
    PROVE  /\ TxnsOf(es, k) \in SUBSET DOMAIN es /\ IsFiniteSet(TxnsOf(es, k))
           /\ \A j \in TxnsOf(es, k) : /\ j < k /\ j \in Nat /\ es[j].dir.kind = "txn"
                                       /\ es[j].dir.posts \in Seq(Posting)
           /\ \A A, c : \A j \in TxnsOf(es, k) :
                 Moves(es, A, c)[j] = Put(es[j].dir.posts, A, c) /\ Moves(es, A, c)[j] \in Int
<1>1. DOMAIN es = 1 .. Len(es) /\ Len(es) \in Nat /\ k \in Nat
  OBVIOUS
<1>2. TxnsOf(es, k) \in SUBSET DOMAIN es
  BY <1>1 DEF TxnsOf
<1>3. IsFiniteSet(1 .. k - 1)
  BY <1>1, FS_Interval
<1>4. IsFiniteSet(TxnsOf(es, k))
  BY <1>3, FS_Subset DEF TxnsOf
<1>5. \A j \in TxnsOf(es, k) : j < k /\ j \in Nat /\ es[j].dir.kind = "txn"
  BY <1>1 DEF TxnsOf
<1>6. \A j \in TxnsOf(es, k) : es[j].dir.posts \in Seq(Posting)
  BY <1>2, <1>5, EntryHas
<1>7. ASSUME NEW A, NEW c, NEW j \in TxnsOf(es, k)
      PROVE  Moves(es, A, c)[j] = Put(es[j].dir.posts, A, c) /\ Moves(es, A, c)[j] \in Int
  <2>1. Moves(es, A, c)[j] = Put(es[j].dir.posts, A, c)
    BY <1>2 DEF Moves
  <2>2. Put(es[j].dir.posts, A, c) \in Int
    BY <1>6, PutIsSum
  <2> QED BY <2>1, <2>2
<1> QED BY <1>2, <1>4, <1>5, <1>6, <1>7

LEMMA HoldsType ==
    ASSUME NEW es \in Seq(Entry), NEW k \in 1 .. Len(es) + 1, NEW A, NEW c
    PROVE  Holds(es, k, A, c) \in Int
BY TxnsOfTypes, SumType DEF Holds

LEMMA HoldsFirst ==
    ASSUME NEW es, NEW A, NEW c
    PROVE  Holds(es, 1, A, c) = 0
<1>1. TxnsOf(es, 1) = {}
  BY DEF TxnsOf
<1> QED BY <1>1, SumEmpty DEF Holds

LEMMA HoldsNext ==
    ASSUME NEW es \in Seq(Entry), NEW k \in DOMAIN es, NEW A, NEW c
    PROVE  Holds(es, k + 1, A, c) = IF es[k].dir.kind = "txn"
                                    THEN Holds(es, k, A, c) + Put(es[k].dir.posts, A, c)
                                    ELSE Holds(es, k, A, c)
<1>1. k \in 1 .. Len(es) + 1 /\ k + 1 \in 1 .. Len(es) + 1 /\ k \in Nat /\ k # 0
  OBVIOUS
<1>2. \A j : j \in 1 .. (k + 1) - 1 <=> j \in 1 .. k - 1 \/ j = k
  BY <1>1
<1>3. CASE es[k].dir.kind = "txn"
  <2> DEFINE S == TxnsOf(es, k)
             f == Moves(es, A, c)
  <2>1. TxnsOf(es, k + 1) = More(S, k)
    BY <1>2, <1>3 DEF TxnsOf, More
  <2>2. k \notin S
    BY <1>1 DEF TxnsOf
  <2>3. \A j \in More(S, k) : f[j] \in Int
    BY <1>1, <2>1, TxnsOfTypes
  <2>4. IsFiniteSet(S)
    BY <1>1, TxnsOfTypes
  <2>5. f[k] = Put(es[k].dir.posts, A, c)
    BY DEF Moves
  <2>6. Sum(f, S) \in Int
    BY <1>1, HoldsType DEF Holds
  <2>7. f[k] \in Int
    BY <2>3 DEF More
  <2> HIDE DEF S, f
  <2>8. Sum(f, More(S, k)) = f[k] + Sum(f, S)
    BY <2>2, <2>3, <2>4, SumMore
  <2>9. Sum(f, More(S, k)) = Sum(f, S) + f[k]
    BY <2>6, <2>7, <2>8
  <2>10. Holds(es, k + 1, A, c) = Sum(f, More(S, k)) /\ Holds(es, k, A, c) = Sum(f, S)
    BY <2>1 DEF Holds, f, S
  <2> QED BY <1>3, <2>5, <2>9, <2>10
<1>4. CASE es[k].dir.kind # "txn"
  <2>1. TxnsOf(es, k + 1) = TxnsOf(es, k)
    BY <1>2, <1>4 DEF TxnsOf
  <2> QED BY <1>4, <2>1 DEF Holds
<1> QED BY <1>3, <1>4

LEMMA HoldsApart ==
    ASSUME NEW es \in Seq(Entry), NEW k \in 1 .. Len(es) + 1, NEW A, NEW B, A \cap B = {}, NEW c
    PROVE  Holds(es, k, A \cup B, c) = Holds(es, k, A, c) + Holds(es, k, B, c)
<1> DEFINE S == TxnsOf(es, k)
           W == A \cup B
           f == Moves(es, A, c)
           g == Moves(es, B, c)
           h == Moves(es, W, c)
<1>1. IsFiniteSet(S)
  BY TxnsOfTypes
<1>2. ASSUME NEW j \in S PROVE f[j] \in Int /\ g[j] \in Int /\ h[j] = f[j] + g[j]
  <2>1. /\ es[j].dir.posts \in Seq(Posting)
        /\ f[j] = Put(es[j].dir.posts, A, c) /\ f[j] \in Int
        /\ g[j] = Put(es[j].dir.posts, B, c) /\ g[j] \in Int
        /\ h[j] = Put(es[j].dir.posts, W, c)
    <3> HIDE DEF W
    <3> QED BY TxnsOfTypes
  <2>2. Put(es[j].dir.posts, W, c) = Put(es[j].dir.posts, A, c) + Put(es[j].dir.posts, B, c)
    BY <2>1, PutApart
  <2> QED BY <2>1, <2>2
<1> HIDE DEF S, f, g, h, W
<1>3. Sum(h, S) = Sum(f, S) + Sum(g, S)
  BY <1>1, <1>2, SumOfSums
<1> QED BY <1>3 DEF Holds, S, f, g, h, W

LEMMA HoldsNowhere ==
    ASSUME NEW es \in Seq(Entry), NEW k \in 1 .. Len(es) + 1, NEW c
    PROVE  Holds(es, k, {}, c) = 0
<1> DEFINE S == TxnsOf(es, k)
           f == Moves(es, {}, c)
<1>1. IsFiniteSet(S) /\ \A j \in S : f[j] = Put(es[j].dir.posts, {}, c)
  BY TxnsOfTypes
<1>2. \A j \in S : f[j] = 0
  BY <1>1, PutNowhere
<1>3. {} \in SUBSET S /\ (\A j \in S : f[j] \in Int) /\ (\A j \in S \ {} : f[j] = 0)
  BY <1>2
<1> HIDE DEF S, f
<1>4. Sum(f, S) = Sum(f, {})
  BY <1>1, <1>3, SumOfZeros
<1> QED BY <1>4, SumEmpty DEF Holds, S, f

\* What accounts hold together is what they hold one by one.
OneByOne(es, k, c, f, S) == \A a \in S : f[a] = Holds(es, k, {a}, c)
LEMMA HoldsEach ==
    ASSUME NEW es \in Seq(Entry), NEW k \in 1 .. Len(es) + 1, NEW c, NEW f,
           NEW S \in SUBSET Accounts, OneByOne(es, k, c, f, S)
    PROVE  Holds(es, k, S, c) = Sum(f, S)
<1>0. IsFiniteSet(S)
  BY FinitelyMany, FS_Subset
<1> DEFINE T == {n \in Nat : \A Q : Q \subseteq S /\ OfSize(Q, n) => Holds(es, k, Q, c) = Sum(f, Q)}
<1>1. 0 \in T
  BY SizeZero, SumEmpty, HoldsNowhere
<1>2. ASSUME NEW n \in Nat, n \in T PROVE n + 1 \in T
  <2>1. ASSUME NEW Q, Q \subseteq S, OfSize(Q, n + 1)
        PROVE  Holds(es, k, Q, c) = Sum(f, Q)
    <3> DEFINE x == Picked(Q)
               q == Less(Q, x)
               one == {x}
    <3>1. x \in Q /\ IsFiniteSet(Q) /\ Q # {}
      BY <2>1, NotEmpty
    <3>2. OfSize(q, n) /\ q \subseteq S
      BY <2>1, <3>1, OneLess DEF Less
    <3>3. Holds(es, k, q, c) = Sum(f, q)
      BY <1>2, <3>2
    <3>4. Sum(f, Q) = f[x] + Sum(f, q)
      BY <3>1, SumRecurs
    <3>5. f[x] = Holds(es, k, one, c)
      BY <2>1, <3>1 DEF OneByOne
    <3>6. one \cup q = Q /\ one \cap q = {}
      BY <3>1 DEF Less
    <3> HIDE DEF x, q, one
    <3>7. Holds(es, k, one \cup q, c) = Holds(es, k, one, c) + Holds(es, k, q, c)
      BY <3>6, HoldsApart
    <3> QED BY <3>3, <3>4, <3>5, <3>6, <3>7
  <2> QED BY <2>1
<1>3. \A n \in Nat : n \in T => n + 1 \in T
  BY <1>2
<1> HIDE DEF T
<1>4. Cardinality(S) \in T
  BY <1>0, <1>1, <1>3, HasSize, SetInduction
<1> QED BY <1>0, <1>4, HasSize DEF T

\* Entries that move the same hold the same.
LEMMA HoldsSame ==
    ASSUME NEW es \in Seq(Entry), NEW fs \in Seq(Entry), Len(es) = Len(fs),
           \A j \in DOMAIN es : /\ es[j].dir.kind = fs[j].dir.kind
                                /\ es[j].dir.kind = "txn" => es[j].dir.posts = fs[j].dir.posts,
           NEW k \in 1 .. Len(es) + 1, NEW A, NEW c
    PROVE  Holds(es, k, A, c) = Holds(fs, k, A, c)
<1>1. TxnsOf(es, k) \subseteq DOMAIN es /\ DOMAIN es = DOMAIN fs /\ IsFiniteSet(TxnsOf(es, k))
  BY TxnsOfTypes
<1>2. 1 .. k - 1 \subseteq DOMAIN es
  OBVIOUS
<1>3. TxnsOf(fs, k) = TxnsOf(es, k)
  BY <1>2 DEF TxnsOf
<1>4. \A j \in TxnsOf(es, k) : Moves(es, A, c)[j] = Moves(fs, A, c)[j]
  BY <1>1 DEF Moves, TxnsOf
<1>5. Sum(Moves(es, A, c), TxnsOf(es, k)) = Sum(Moves(fs, A, c), TxnsOf(es, k))
  BY <1>1, <1>4, SumSame
<1> QED BY <1>3, <1>5 DEF Holds

LEMMA OffType ==
    ASSUME NEW es \in Seq(Entry), NEW k \in DOMAIN es, es[k].dir.kind = "balance"
    PROVE  Off(es, k) \in Int
<1>1. k \in 1 .. Len(es) + 1 /\ es[k].dir.num \in Int
  BY EntryHas
<1>2. Holds(es, k, Below[es[k].dir.acct], es[k].dir.cur) \in Int
  BY <1>1, HoldsType
<1> QED BY <1>1, <1>2 DEF Off

-----------------------------------------------------------------------------
\* Entries in order are sorted already.
LEMMA SortedStays ==
    ASSUME NEW es \in Seq(Entry), InOrder(es)
    PROVE  Sorted(es) = es
<1> DEFINE keys == [i \in DOMAIN es |-> Key(es[i])]
           ahead == [i \in DOMAIN es |->
                       Cardinality({j \in DOMAIN es : Earlier(keys[j], keys[i])})]
<1>1. DOMAIN es = 1 .. Len(es) /\ Len(es) \in Nat /\ \A i \in DOMAIN es : es[i] \in Entry
  OBVIOUS
<1>2. ASSUME NEW i \in DOMAIN es, NEW j \in DOMAIN es
      PROVE  Earlier(keys[j], keys[i]) <=> j < i
  <2>1. Earlier(keys[j], keys[i]) <=> Before(es[j], es[i])
    BY DEF Before
  <2>2. j < i => Before(es[j], es[i])
    BY DEF InOrder
  <2>3. i < j => Before(es[i], es[j])
    BY DEF InOrder
  <2>4. /\ ~Before(es[i], es[i])
        /\ Before(es[i], es[j]) /\ Before(es[j], es[i]) => Before(es[i], es[i])
    BY <1>1, BeforeIsOrder
  <2> QED BY <1>1, <2>1, <2>2, <2>3, <2>4
<1>3. ASSUME NEW i \in DOMAIN es PROVE ahead[i] = i - 1
  <2>1. {j \in DOMAIN es : Earlier(keys[j], keys[i])} = {j \in DOMAIN es : j < i}
    BY <1>2
  <2>2. {j \in DOMAIN es : j < i} = 1 .. i - 1
    BY <1>1
  <2>3. Cardinality(1 .. i - 1) = i - 1
    BY <1>1, FS_Interval
  <2> QED BY <2>1, <2>2, <2>3
<1>4. Sorted(es) = [k \in DOMAIN es |-> es[CHOOSE i \in DOMAIN es : ahead[i] = k - 1]]
  BY DEF Sorted
<1> HIDE DEF ahead
<1>5. ASSUME NEW k \in DOMAIN es PROVE (CHOOSE i \in DOMAIN es : ahead[i] = k - 1) = k
  <2>1. ahead[k] = k - 1
    BY <1>3
  <2>2. \A i \in DOMAIN es : ahead[i] = k - 1 => i = k
    BY <1>1, <1>3
  <2> QED BY <2>1, <2>2
<1>6. Sorted(es) = [k \in DOMAIN es |-> es[k]]
  BY <1>4, <1>5
<1> QED BY <1>6

\* The numbers decide nothing between directives of different places.
LEMMA PlacesDecide ==
    ASSUME NEW e \in Entry, NEW f \in Entry, NEW g \in Entry, NEW h \in Entry,
           g.dir.date = e.dir.date, g.dir.kind = e.dir.kind, g.dir.file = e.dir.file,
           g.dir.off = e.dir.off, h.dir.date = f.dir.date, h.dir.kind = f.dir.kind,
           h.dir.file = f.dir.file, h.dir.off = f.dir.off,
           Before(e, f), g.seq < h.seq
    PROVE  Before(g, h)
<1>1. \/ e.dir.date < f.dir.date
      \/ /\ e.dir.date = f.dir.date
         /\ \/ Rank[e.dir.kind] < Rank[f.dir.kind]
            \/ /\ Rank[e.dir.kind] = Rank[f.dir.kind]
               /\ \/ e.dir.file < f.dir.file
                  \/ /\ e.dir.file = f.dir.file
                     /\ e.dir.off < f.dir.off \/ e.dir.off = f.dir.off
  BY BeforeIsLexical
<1>2. \/ g.dir.date < h.dir.date
      \/ /\ g.dir.date = h.dir.date
         /\ \/ Rank[g.dir.kind] < Rank[h.dir.kind]
            \/ /\ Rank[g.dir.kind] = Rank[h.dir.kind]
               /\ \/ g.dir.file < h.dir.file
                  \/ /\ g.dir.file = h.dir.file
                     /\ \/ g.dir.off < h.dir.off
                        \/ g.dir.off = h.dir.off /\ g.seq < h.seq
  BY <1>1
<1> QED BY <1>2, BeforeIsLexical

\* Directives with the places of entries in order are in order when numbered.
LEMMA NumbersInOrder ==
    ASSUME NEW es \in Seq(Entry), InOrder(es), NEW ds \in Seq(Directive), Len(ds) = Len(es),
           next \in Nat,
           \A k \in DOMAIN es : /\ ds[k].date = es[k].dir.date /\ ds[k].kind = es[k].dir.kind
                                /\ ds[k].file = es[k].dir.file /\ ds[k].off = es[k].dir.off
    PROVE  InOrder(Numbers(ds))
<1> DEFINE fs == Numbers(ds)
<1>1. fs \in Seq(Entry) /\ Len(fs) = Len(ds) /\ DOMAIN es = DOMAIN ds /\ DOMAIN fs = DOMAIN ds
      /\ \A k \in DOMAIN ds : fs[k].dir = ds[k] /\ fs[k].seq = next + k - 1
  <2>1. Directive \in SUBSET Directive
    OBVIOUS
  <2>2. fs \in Seq(Entry) /\ Len(fs) = Len(ds)
        /\ \A k \in DOMAIN ds : fs[k].dir = ds[k] /\ fs[k].seq = next + k - 1
    BY <2>1, Numbering
  <2> HIDE DEF fs
  <2> QED BY <2>2
<1> HIDE DEF fs
<1>2. ASSUME NEW k \in DOMAIN fs, NEW l \in DOMAIN fs, k < l PROVE Before(fs[k], fs[l])
  <2>1. k \in DOMAIN es /\ l \in DOMAIN es /\ k \in Nat /\ l \in Nat
    BY <1>1
  <2>2. es[k] \in Entry /\ es[l] \in Entry /\ Before(es[k], es[l])
    BY <1>2, <2>1 DEF InOrder
  <2>3. /\ fs[k] \in Entry /\ fs[l] \in Entry
        /\ fs[k].dir.date = es[k].dir.date /\ fs[k].dir.kind = es[k].dir.kind
        /\ fs[k].dir.file = es[k].dir.file /\ fs[k].dir.off = es[k].dir.off
        /\ fs[l].dir.date = es[l].dir.date /\ fs[l].dir.kind = es[l].dir.kind
        /\ fs[l].dir.file = es[l].dir.file /\ fs[l].dir.off = es[l].dir.off
    BY <1>1, <2>1
  <2>4. fs[k].seq < fs[l].seq
    BY <1>1, <1>2, <2>1
  <2> QED BY <2>2, <2>3, <2>4, PlacesDecide
<1>3. InOrder(fs)
  BY <1>2 DEF InOrder
<1> QED BY <1>3 DEF fs

LEMMA ReplacedInPlace ==
    ASSUME LedgerInv, NEW ds \in Seq(Directive), Len(ds) = Len(entries), ReplaceEntries(ds),
           \A k \in DOMAIN entries :
              /\ ds[k].date = entries[k].dir.date /\ ds[k].kind = entries[k].dir.kind
              /\ ds[k].file = entries[k].dir.file /\ ds[k].off = entries[k].dir.off
    PROVE  /\ entries' \in Seq(Entry) /\ Len(entries') = Len(entries)
           /\ \A k \in DOMAIN entries : entries'[k].dir = ds[k]
<1>1. entries \in Seq(Entry) /\ InOrder(entries) /\ next \in Nat
  BY DEF LedgerInv
<1>2. InOrder(Numbers(ds))
  BY <1>1, NumbersInOrder
<1>3. /\ Numbers(ds) \in Seq(Entry) /\ Len(Numbers(ds)) = Len(ds)
      /\ \A k \in DOMAIN ds : Numbers(ds)[k].dir = ds[k]
  <2>1. Directive \in SUBSET Directive
    OBVIOUS
  <2> QED BY <1>1, <2>1, Numbering
<1>4. entries' = Sorted(<<>> \o Numbers(ds))
  BY DEF ReplaceEntries, InsertAll, Numbers
<1>5. <<>> \o Numbers(ds) = Numbers(ds)
  BY <1>3
<1>6. entries' = Numbers(ds)
  BY <1>2, <1>3, <1>4, <1>5, SortedStays
<1>7. DOMAIN ds = DOMAIN entries
  BY <1>1
<1> QED BY <1>3, <1>6, <1>7
-----------------------------------------------------------------------------
(* While the balance pass runs, its sums are what the entries behind it    *)
(* hold, and what it has passed on is judged; when it ends, every          *)
(* assertion of the ledger is exact.                                       *)
Summed == \A a \in Accounts, c \in Currencies : sums[a][c] = Holds(entries, at, {a}, c)
Passed == Len(out) = at - 1 /\ \A k \in 1 .. at - 1 : out[k] = Judged(entries, k)
Exact(es) ==
    \A k \in DOMAIN es : es[k].dir.kind = "balance" =>
        es[k].dir.diff = IF Within(Off(es, k), es[k].dir.tol) THEN None ELSE Off(es, k)
ExactInv ==
    /\ stage = "balance" /\ at # 0 => Summed /\ Passed
    /\ Checked => Exact(entries)

LEMMA WithinEither ==
    ASSUME NEW x \in Int, NEW t \in Int
    PROVE  Within(-x, t) <=> Within(x, t)
BY DEF Within

LEMMA ExactStays ==
    ASSUME ExactInv, UNCHANGED <<raw, stage, entries, at, sums, out>>
    PROVE  ExactInv'
<1>2. Exact(entries)' <=> Exact(entries)
  BY DEF Exact, Off, Holds, TxnsOf, Moves
<1>3. Summed' <=> Summed
  BY DEF Summed, Holds, TxnsOf, Moves
<1>4. Passed' <=> Passed
  BY DEF Passed, Judged, Off, Holds, TxnsOf, Moves
<1> QED BY <1>2, <1>3, <1>4 DEF ExactInv, Checked

LEMMA BalanceBegins ==
    ASSUME Typed, BeginBalance
    PROVE  ExactInv'
<1>1. /\ stage' = "balance" /\ at' = 1 /\ sums' = Zero /\ out' = <<>> /\ entries' = entries
  BY DEF BeginBalance, Begins, ledgerVars
<1>2. \A a \in Accounts, c \in Currencies : sums'[a][c] = Holds(entries', at', {a}, c)
  BY <1>1, HoldsFirst DEF Zero
<1>3. Len(out') = at' - 1 /\ 1 .. at' - 1 = {}
  BY <1>1
<1> QED BY <1>1, <1>2, <1>3 DEF ExactInv, Summed, Passed, Checked

\* One more directive is judged.
LEMMA OneMorePassed ==
    ASSUME Typed, ExactInv, NEW kinds, Visits("balance", kinds),
           UNCHANGED <<stage, entries>>, out' = Append(out, Judged(entries, at)),
           \A a \in Accounts, c \in Currencies : sums'[a][c] = Holds(entries, at + 1, {a}, c)
    PROVE  ExactInv'
<1>1. /\ stage = "balance" /\ at \in Nat /\ at # 0 /\ at' = at + 1
  BY Visited DEF Typed
<1>2. /\ out \in Seq(Directive) /\ Len(out) = at - 1
      /\ \A k \in 1 .. at - 1 : out[k] = Judged(entries, k)
  BY <1>1 DEF ExactInv, Passed, Typed, ListsInv
<1>3. Len(out') = at' - 1 /\ \A k \in 1 .. at' - 1 : out'[k] = Judged(entries, k)
  BY <1>1, <1>2
<1>5. entries' = entries /\ stage' = "balance"
  BY <1>1
<1>6. Passed'
  BY <1>3, <1>5 DEF Passed, Judged, Off, Holds, TxnsOf, Moves
<1>7. Summed'
  BY <1>1, <1>5 DEF Summed
<1> QED BY <1>5, <1>6, <1>7 DEF ExactInv, Checked

LEMMA TransactionCounted ==
    ASSUME Typed, ExactInv, BalanceTransaction
    PROVE  ExactInv'
<1>1. /\ Visits("balance", {"txn"}) /\ sums' = Added(sums, D.posts) /\ out' = Append(out, D)
      /\ UNCHANGED <<stage, entries>>
  BY DEF BalanceTransaction, BalanceFrame, ledgerVars
<1>2. /\ D.kind = "txn" /\ D.posts \in Seq(Posting) /\ at \in DOMAIN entries /\ at # 0
      /\ stage = "balance" /\ D = entries[at].dir /\ entries \in Seq(Entry)
  BY <1>1, Visited DEF Typed, D, LedgerInv
<1>3. D = Judged(entries, at)
  BY <1>2 DEF Judged
<1>4. ASSUME NEW a \in Accounts, NEW c \in Currencies
      PROVE  sums'[a][c] = Holds(entries, at + 1, {a}, c)
  <2>1. sums'[a][c] = sums[a][c] + Put(D.posts, {a}, c)
    BY <1>1 DEF Added
  <2>2. sums[a][c] = Holds(entries, at, {a}, c)
    BY <1>2 DEF ExactInv, Summed
  <2>3. Holds(entries, at + 1, {a}, c) = Holds(entries, at, {a}, c) + Put(entries[at].dir.posts, {a}, c)
    BY <1>2, HoldsNext
  <2> QED BY <1>2, <2>1, <2>2, <2>3
<1> QED BY <1>1, <1>3, <1>4, OneMorePassed

\* Other directives move nothing.
LEMMA NothingCounted ==
    ASSUME Typed, ExactInv, NEW kinds, Visits("balance", kinds), "txn" \notin kinds,
           UNCHANGED sums
    PROVE  \A a \in Accounts, c \in Currencies : sums'[a][c] = Holds(entries, at + 1, {a}, c)
<1>1. /\ D.kind # "txn" /\ at \in DOMAIN entries /\ at # 0
      /\ stage = "balance" /\ D = entries[at].dir /\ entries \in Seq(Entry)
  BY Visited DEF Typed, D, LedgerInv
<1>2. ASSUME NEW a \in Accounts, NEW c \in Currencies
      PROVE  sums'[a][c] = Holds(entries, at + 1, {a}, c)
  <2>1. sums[a][c] = Holds(entries, at, {a}, c)
    BY <1>1 DEF ExactInv, Summed
  <2>2. Holds(entries, at + 1, {a}, c) = Holds(entries, at, {a}, c)
    BY <1>1, HoldsNext
  <2> QED BY <2>1, <2>2
<1> QED BY <1>2

LEMMA OthersPassed ==
    ASSUME Typed, ExactInv, BalancePasses
    PROVE  ExactInv'
<1> DEFINE kinds == DOMAIN Rank \ {"txn", "balance"}
<1>1. /\ Visits("balance", kinds) /\ UNCHANGED <<stage, entries, sums>> /\ out' = Append(out, D)
  BY DEF BalancePasses, BalanceFrame, ledgerVars
<1>2. D.kind \in kinds
  BY <1>1, Visited DEF Typed
<1>3. D = Judged(entries, at)
  BY <1>2 DEF Judged, D
<1> HIDE DEF kinds
<1>4. "txn" \notin kinds
  BY DEF kinds
<1>5. \A a \in Accounts, c \in Currencies : sums'[a][c] = Holds(entries, at + 1, {a}, c)
  BY <1>1, <1>4, NothingCounted
<1> QED BY <1>1, <1>3, <1>5, OneMorePassed

LEMMA AssertionJudged ==
    ASSUME Typed, ExactInv, CheckBalance
    PROVE  ExactInv'
<1>1. /\ Visits("balance", {"balance"}) /\ UNCHANGED <<stage, entries, sums>>
      /\ out' = Append(out, IF Within(D.num - Actual, D.tol) THEN D
                            ELSE [D EXCEPT !.diff = Actual - D.num])
  BY DEF CheckBalance, BalanceFrame, ledgerVars
<1>2. /\ D.kind = "balance" /\ D.acct \in Accounts /\ D.cur \in Currencies /\ D.num \in Int
      /\ D.tol \in Int /\ at \in DOMAIN entries /\ at # 0 /\ stage = "balance"
      /\ D = entries[at].dir /\ entries \in Seq(Entry)
  BY <1>1, Visited DEF Typed, D, LedgerInv
<1>3. /\ Below[D.acct] \in SUBSET Accounts /\ Actual \in Int
      /\ Actual = Sum(Holdings(sums, D.cur), Below[D.acct])
  BY <1>2, ActualIsSum DEF Typed
<1>4. \A a \in Below[D.acct] : Holdings(sums, D.cur)[a] = Holds(entries, at, {a}, D.cur)
  BY <1>2, <1>3 DEF Holdings, ExactInv, Summed
<1>5. at \in 1 .. Len(entries) + 1
  BY <1>2
<1>6. Actual = Holds(entries, at, Below[D.acct], D.cur)
  <2> DEFINE S == Below[D.acct]
             c == D.cur
             f == Holdings(sums, c)
  <2>1. S \in SUBSET Accounts /\ OneByOne(entries, at, c, f, S)
    BY <1>3, <1>4 DEF OneByOne
  <2> HIDE DEF S, c, f
  <2>2. entries \in Seq(Entry) /\ at \in 1 .. Len(entries) + 1
    BY <1>2, <1>5
  <2>3. Holds(entries, at, S, c) = Sum(f, S)
    BY ONLY <2>1, <2>2, HoldsEach
  <2> QED BY <1>3, <2>3 DEF S, c, f
<1>7. Off(entries, at) = Actual - D.num
  BY <1>2, <1>6 DEF Off
<1>8. Within(D.num - Actual, D.tol) <=> Within(Off(entries, at), D.tol)
  <2>1. Actual - D.num \in Int /\ D.num - Actual = -(Actual - D.num)
    BY <1>2, <1>3
  <2> QED BY <1>2, <1>7, <2>1, WithinEither
<1>9. out' = Append(out, Judged(entries, at))
  BY <1>1, <1>2, <1>7, <1>8 DEF Judged
<1>10. \A a \in Accounts, c \in Currencies : sums'[a][c] = Holds(entries, at + 1, {a}, c)
  BY <1>1, NothingCounted
<1> QED BY <1>1, <1>9, <1>10, OneMorePassed

\* The difference found is recorded, and recording it moves nothing.
LEMMA JudgedIsExact ==
    ASSUME NEW es \in Seq(Entry), NEW fs \in Seq(Entry), Len(fs) = Len(es),
           \A k \in DOMAIN es : fs[k].dir = Judged(es, k),
           \A k \in DOMAIN es : es[k].dir \in AsRead
    PROVE  Exact(fs)
<1>1. DOMAIN es = DOMAIN fs /\ DOMAIN es = 1 .. Len(es)
  OBVIOUS
<1>2. ASSUME NEW k \in DOMAIN es
      PROVE  /\ fs[k].dir.kind = es[k].dir.kind
             /\ es[k].dir.kind = "txn" => fs[k].dir.posts = es[k].dir.posts
             /\ es[k].dir.kind = "balance" =>
                  /\ fs[k].dir.acct = es[k].dir.acct /\ fs[k].dir.cur = es[k].dir.cur
                  /\ fs[k].dir.num = es[k].dir.num /\ fs[k].dir.tol = es[k].dir.tol
                  /\ fs[k].dir.diff = IF Within(Off(es, k), es[k].dir.tol) THEN None ELSE Off(es, k)
  <2>1. fs[k].dir = Judged(es, k) /\ es[k].dir \in AsRead /\ es[k].dir \in Directive
    BY EntryHas
  <2>2. CASE es[k].dir.kind = "balance" /\ ~Within(Off(es, k), es[k].dir.tol)
    <3>1. es[k].dir \in BalanceType
      BY <2>2, EntryHas
    <3>2. fs[k].dir = [es[k].dir EXCEPT !.diff = Off(es, k)]
      BY <2>1, <2>2 DEF Judged
    <3> QED BY <2>2, <3>1, <3>2 DEF BalanceType
  <2>3. CASE ~(es[k].dir.kind = "balance" /\ ~Within(Off(es, k), es[k].dir.tol))
    <3>1. fs[k].dir = es[k].dir
      BY <2>1, <2>3 DEF Judged
    <3>2. es[k].dir.kind = "balance" => es[k].dir.diff = None
      BY <2>1 DEF AsRead
    <3> QED BY <2>3, <3>1, <3>2
  <2> QED BY <2>2, <2>3
<1>3. ASSUME NEW k \in DOMAIN es, es[k].dir.kind = "balance" PROVE Off(fs, k) = Off(es, k)
  <2>1. k \in 1 .. Len(es) + 1
    BY <1>1
  <2>2. \A j \in DOMAIN es : /\ es[j].dir.kind = fs[j].dir.kind
                             /\ es[j].dir.kind = "txn" => es[j].dir.posts = fs[j].dir.posts
    BY <1>2
  <2>3. \A A, c : Holds(es, k, A, c) = Holds(fs, k, A, c)
    BY <2>1, <2>2, HoldsSame
  <2> QED BY <1>2, <1>3, <2>3 DEF Off
<1> QED BY <1>1, <1>2, <1>3 DEF Exact

\* The balance pass leaves the directives where they are, judged.
LEMMA BalanceJudges ==
    ASSUME Typed, ExactInv, EndBalance
    PROVE  /\ entries \in Seq(Entry) /\ entries' \in Seq(Entry) /\ Len(entries') = Len(entries)
           /\ \A k \in DOMAIN entries : /\ entries'[k].dir = Judged(entries, k)
                                        /\ entries[k].dir \in AsRead
           /\ stage = "balance" /\ stage' = "validations"
<1>1. /\ stage = "balance" /\ stage' = "validations" /\ at = Len(entries) + 1
      /\ \/ out # All /\ ReplaceEntries(out)
         \/ out = All /\ entries' = entries
  <2>1. stage = "balance" /\ stage' = "validations" /\ at = Len(entries) + 1
    BY DEF EndBalance, Ends
  <2>2. IF out # All THEN ReplaceEntries(out) ELSE entries' = entries
    BY DEF EndBalance, ledgerVars
  <2> QED BY <2>1, <2>2
<1>2. /\ entries \in Seq(Entry) /\ out \in Seq(Directive) /\ DOMAIN entries = 1 .. Len(entries)
      /\ Len(entries) \in Nat /\ \A k \in DOMAIN entries : entries[k].dir \in AsRead
  BY <1>1 DEF Typed, LedgerInv, ListsInv, Unchecked
<1>3. Passed
  BY <1>1, <1>2 DEF ExactInv
<1>4. Len(out) = Len(entries) /\ \A k \in DOMAIN entries : out[k] = Judged(entries, k)
  BY <1>1, <1>2, <1>3 DEF Passed
<1>5. ASSUME NEW k \in DOMAIN entries
      PROVE  /\ out[k].date = entries[k].dir.date /\ out[k].kind = entries[k].dir.kind
             /\ out[k].file = entries[k].dir.file /\ out[k].off = entries[k].dir.off
  <2>1. entries[k].dir.kind = "balance" => entries[k].dir \in BalanceType
    BY <1>2, EntryHas
  <2> QED BY <1>4, <2>1 DEF Judged, BalanceType
<1>6. /\ entries' \in Seq(Entry) /\ Len(entries') = Len(entries)
      /\ \A k \in DOMAIN entries : entries'[k].dir = out[k]
  <2>1. CASE out # All /\ ReplaceEntries(out)
    BY <1>2, <1>4, <1>5, <2>1, ReplacedInPlace DEF Typed
  <2>2. CASE out = All /\ entries' = entries
    BY <1>2, <2>2 DEF All
  <2> QED BY <1>1, <2>1, <2>2
<1> QED BY <1>1, <1>2, <1>4, <1>6

LEMMA BalanceIsExact ==
    ASSUME Typed, ExactInv, EndBalance
    PROVE  ExactInv'
<1>1. /\ entries \in Seq(Entry) /\ entries' \in Seq(Entry) /\ Len(entries') = Len(entries)
      /\ \A k \in DOMAIN entries : /\ entries'[k].dir = Judged(entries, k)
                                   /\ entries[k].dir \in AsRead
      /\ stage = "balance" /\ stage' = "validations"
  BY BalanceJudges
<1>2. Exact(entries')
  BY <1>1, JudgedIsExact
<1>3. Exact(entries)' <=> Exact(entries')
  BY DEF Exact, Off, Holds, TxnsOf, Moves
<1> QED BY <1>1, <1>2, <1>3 DEF ExactInv

-----------------------------------------------------------------------------
LEMMA ExactKept ==
    ASSUME Typed, ExactInv, [Next]_vars
    PROVE  ExactInv'
<1>1. ASSUME ~Checked', stage' = "balance" => at' = 0 PROVE ExactInv'
  BY <1>1 DEF ExactInv
<1>2. at \in 0 .. Len(entries) + 1 /\ (stage \notin Walks => at = 0)
  BY DEF Typed, PlaceInv
<1>3. CASE Loading
  BY <1>1, <1>3 DEF Loading, ReadDirective, IncludeFile, ExpandGlob, IncludeMatch, Visiting,
     LoadFrame, Checked
<1>4. CASE FinishLoading \/ Book \/ BookingHalts \/ VerifyDocuments
  BY <1>1, <1>4 DEF FinishLoading, Book, BookingHalts, VerifyDocuments, ToPlugins, Checked
<1>5. CASE Cancel \/ UNCHANGED vars
  BY <1>5, ExactStays DEF Cancel, inputs, ledgerVars, balanceVars, vars
<1>6. CASE Canceled
  BY <1>1, <1>6 DEF Canceled, Fail, Checked
<1>7. CASE RunPlugins
  <2>1. ~Checked' /\ stage' # "balance"
    BY <1>7 DEF RunPlugins, UnknownPlugin, RunPlugin, PluginCanceled, PluginChangesNothing,
       PluginFails, EndPlugins, PluginAdds, PluginRemoves, Host, AtPlugin, NextPlugin, Fail,
       Checked, PassFrame, inputs
  <2> QED BY <1>1, <2>1
<1>8. CASE Pad
  <2>1. ~Checked' /\ (stage' = "balance" => at' = 0)
    BY <1>8 DEF Pad, BeginPad, PadTransaction, RecordPad, NoPad, AlreadyPadded, NothingMissing,
       HeldAtCost, InsertPadding, PadPasses, EndPad, InForce, Asserts, PadFrame, Begins, Visits,
       Ends, Checked
  <2> QED BY <1>1, <2>1
<1>9. CASE Balance
  BY <1>9, BalanceBegins, TransactionCounted, OthersPassed, AssertionJudged, BalanceIsExact
     DEF Balance
<1>10. CASE Validations
  <2>1. /\ stage = "validations" /\ stage' \in {"validations", "done"} /\ entries' = entries
        /\ raw' = raw
    BY <1>10 DEF Validations, BeginValidations, ValidateEntry, EndValidations, Begins, Visits, Ends,
       ledgerVars, PassFrame, inputs
  <2>2. Exact(entries)' <=> Exact(entries)
    BY <2>1 DEF Exact, Off, Holds, TxnsOf, Moves
  <2> QED BY <2>1, <2>2 DEF ExactInv, Checked
<1> QED BY <1>3, <1>4, <1>5, <1>6, <1>7, <1>8, <1>9, <1>10 DEF Next, Ended

\* Whatever the ledger and the plugins, the difference the balance pass leaves
\* on an assertion is what the account and those below it hold before it in
\* the ledger it leaves, beyond the amount asserted; and none within the
\* tolerance (checkBalance, EndBalance's commit).
THEOREM BalancesAreExact == Spec => []AssertionsAreExact
<1> DEFINE Inv == LoadInv /\ Typed /\ ExactInv
<1>1. Init => Inv
  <2> SUFFICES ASSUME Init PROVE Inv
    OBVIOUS
  <2>1. ExactInv
    BY DEF Init, ExactInv, Checked
  <2> QED BY <2>1, Starting, TypesStart
<1>2. Inv /\ [Next]_vars => Inv'
  BY Stepping, TypesKept, ExactKept
<1>3. Inv => AssertionsAreExact
  <2> SUFFICES ASSUME Typed, ExactInv, Checked, NEW k \in DOMAIN entries,
                      entries[k].dir.kind = "balance"
               PROVE  LET b == entries[k].dir
                          off == HeldBefore(k, Below[b.acct], b.cur) - b.num
                      IN  b.diff = IF Within(off, b.tol) THEN None ELSE off
    BY DEF AssertionsAreExact
  <2> DEFINE S == Below[entries[k].dir.acct]
             c == entries[k].dir.cur
  <2>1. entries \in Seq(Entry) /\ k \in 1 .. Len(entries) + 1
    BY DEF Typed, LedgerInv
  <2>2. TxnsBefore(k) = TxnsOf(entries, k)
    BY DEF TxnsBefore, TxnsOf
  <2>3. TxnsOf(entries, k) \in SUBSET DOMAIN entries /\ IsFiniteSet(TxnsOf(entries, k))
    BY <2>1, TxnsOfTypes
  <2>4. HeldBefore(k, S, c) = Holds(entries, k, S, c)
    <3> HIDE DEF S, c
    <3> QED BY <2>2, <2>3, SumOfMoves DEF HeldBefore, Holds
  <2>5. HeldBefore(k, S, c) - entries[k].dir.num = Off(entries, k)
    BY <2>4 DEF Off
  <2> QED BY <2>5 DEF ExactInv, Exact
<1> QED BY <1>1, <1>2, <1>3, PTL DEF Spec
-----------------------------------------------------------------------------
(* What plugins leave behind is followed as a set of directives: no pass   *)
(* or plugin drops one other than a transaction, and what is left of a     *)
(* transaction moves and implies no more than before.                      *)
Dirs(es) == {es[k].dir : k \in DOMAIN es}
Plugs(S) == {d \in S : d.kind = "plugin"}
\* Plugin directives run in this order.
Leads(p, q) ==
    \/ p.date < q.date
    \/ /\ p.date = q.date
       /\ \/ p.file < q.file
          \/ p.file = q.file /\ p.off < q.off

\* The balance pass changes an assertion in its difference only.
Same(d, e) ==
    \/ e = d
    \/ /\ d.kind = "balance" /\ e.kind = "balance" /\ e.acct = d.acct /\ e.cur = d.cur
       /\ e.date = d.date /\ e.num = d.num /\ e.tol = d.tol /\ e.file = d.file

\* What a transaction moves, and the rates it implies.
Moved(t) == {<<t.posts[k].acct, t.posts[k].cur>> : k \in {j \in DOMAIN t.posts : HasAmount(t.posts[j])}}
Rates(t) ==
    {<<t.date, t.posts[k].cur, PerUnit(t.posts[k]).cur, PerUnit(t.posts[k]).num>> :
        k \in {j \in DOMAIN t.posts : HasPrice(t.posts[j])}}
Remains(t, u) ==
    u.kind = "txn" /\ u.padding = t.padding /\ Rates(t) \subseteq Rates(u) /\ Moved(t) \subseteq Moved(u)

\* T has what S has, and besides directives of these kinds.
Follows(S, T, kinds) ==
    /\ \A d \in S : d.kind # "txn" => \E e \in T : Same(d, e)
    /\ \A e \in T : e.kind # "txn" => e.kind \in kinds \/ \E d \in S : Same(d, e)
    /\ \A t \in T : t.kind = "txn" => \/ t.padding /\ Rates(t) = {}
                                      \/ \E u \in S : Remains(t, u)
    /\ \A e \in T : e.kind # "open" => \E d \in S : d.kind # "open" /\ d.file = e.file

Sited(S) == \A d \in S : d.kind # "open" => d.file # NoFile
Drained(S) ==
    \A c \in S, t \in S :
       c.kind = "close" /\ c.acct \in BalanceSheet /\ t.kind = "txn" /\ ~t.padding =>
          \A m \in Moved(t) : m[1] = c.acct =>
             \E b \in S : /\ b.kind = "balance" /\ b.acct = c.acct /\ b.cur = m[2]
                          /\ \/ b.date = c.date
                             \/ b.date = c.date + 1 /\ b.num = 0 /\ b.tol = 0
Trees(S) ==
    \A c \in S : c.kind = "close" => \A a \in Below[c.acct] \ {c.acct} :
       (\E o \in S : o.kind = "open" /\ o.acct = a /\ o.date <= c.date) =>
          \E b \in S : b.kind = "close" /\ b.acct = a /\ b.date <= c.date
Priced(S) ==
    \A t \in S : t.kind = "txn" => \A r \in Rates(t) :
       \E x \in S : x.kind = "price" /\ Rate(x) = r
Mentions(F, S, r) ==
    \E f \in F, x \in S : /\ x.kind = "price" /\ f.code = "duplicate-price" /\ f.span = Span(x)
                          /\ x.date = r[1] /\ x.com = r[2] /\ x.cur = r[3]
Compared(S, F) ==
    \A t \in S, u \in S : t.kind = "txn" /\ u.kind = "txn" =>
       \A r \in Rates(t), s \in Rates(u) :
          r[1] = s[1] /\ r[2] = s[2] /\ r[3] = s[3] /\ r[4] # s[4] => Mentions(F, S, r)

LEMMA FollowsItself == \A S : Follows(S, S, {})
<1>1. ASSUME NEW S PROVE Follows(S, S, {})
  <2>1. \A d : Same(d, d)
    BY DEF Same
  <2>2. \A t \in S : t.kind = "txn" => Remains(t, t)
    BY DEF Remains
  <2> QED BY <2>1, <2>2 DEF Follows
<1> QED BY <1>1

LEMMA SameIsSame ==
    ASSUME NEW d, NEW e, Same(d, e)
    PROVE  e.kind = d.kind /\ (d.kind # "balance" => e = d)
BY DEF Same

\* Directives that are neither transactions nor assertions are the same.
LEMMA FollowsKeeps ==
    ASSUME NEW S, NEW T, NEW kinds, Follows(S, T, kinds)
    PROVE  /\ \A d \in S : d.kind \notin {"txn", "balance"} => d \in T
           /\ \A e \in T : e.kind \notin {"txn", "balance"} /\ e.kind \notin kinds => e \in S
<1>1. ASSUME NEW d \in S, d.kind \notin {"txn", "balance"} PROVE d \in T
  <2>1. PICK e \in T : Same(d, e)
    BY <1>1 DEF Follows
  <2> QED BY <1>1, <2>1, SameIsSame
<1>2. ASSUME NEW e \in T, e.kind \notin {"txn", "balance"}, e.kind \notin kinds PROVE e \in S
  <2>1. PICK d \in S : Same(d, e)
    BY <1>2 DEF Follows
  <2>2. d.kind = e.kind /\ (d.kind # "balance" => e = d)
    BY <2>1, SameIsSame
  <2> QED BY <1>2, <2>2
<1> QED BY <1>1, <1>2

LEMMA SitedKept ==
    ASSUME NEW S, NEW T, NEW kinds, Follows(S, T, kinds), Sited(S)
    PROVE  Sited(T)
BY DEF Follows, Sited

LEMMA PlugsKept ==
    ASSUME NEW S, NEW T, NEW kinds, Follows(S, T, kinds), "plugin" \notin kinds
    PROVE  Plugs(T) = Plugs(S)
<1>1. \A d \in S : d.kind = "plugin" => d \in T
  BY FollowsKeeps
<1>2. \A d \in T : d.kind = "plugin" => d \in S
  BY FollowsKeeps
<1> QED BY <1>1, <1>2 DEF Plugs

LEMMA PricedKept ==
    ASSUME NEW S, NEW T, NEW kinds, Follows(S, T, kinds), Priced(S)
    PROVE  Priced(T)
<1>1. ASSUME NEW t \in T, t.kind = "txn", NEW r \in Rates(t)
      PROVE  \E x \in T : x.kind = "price" /\ Rate(x) = r
  <2>1. PICK u \in S : Remains(t, u)
    BY <1>1 DEF Follows
  <2>2. r \in Rates(u) /\ u.kind = "txn"
    BY <1>1, <2>1 DEF Remains
  <2>3. PICK x \in S : x.kind = "price" /\ Rate(x) = r
    BY <2>2 DEF Priced
  <2>4. x \in T
    BY <2>3, FollowsKeeps
  <2> QED BY <2>3, <2>4
<1> QED BY <1>1 DEF Priced

LEMMA ComparedKept ==
    ASSUME NEW S, NEW T, NEW kinds, Follows(S, T, kinds), NEW F, NEW G, F \subseteq G,
           Compared(S, F)
    PROVE  Compared(T, G)
<1>1. ASSUME NEW t \in T, NEW u \in T, t.kind = "txn", u.kind = "txn",
             NEW r \in Rates(t), NEW s \in Rates(u),
             r[1] = s[1] /\ r[2] = s[2] /\ r[3] = s[3] /\ r[4] # s[4]
      PROVE  Mentions(G, T, r)
  <2>1. PICK t1 \in S : Remains(t, t1)
    BY <1>1 DEF Follows
  <2>2. PICK u1 \in S : Remains(u, u1)
    BY <1>1 DEF Follows
  <2>3. r \in Rates(t1) /\ s \in Rates(u1) /\ t1.kind = "txn" /\ u1.kind = "txn"
    BY <1>1, <2>1, <2>2 DEF Remains
  <2>4. Mentions(F, S, r)
    BY <1>1, <2>3 DEF Compared
  <2>5. \A x \in S : x.kind = "price" => x \in T
    BY FollowsKeeps
  <2> QED BY <2>4, <2>5 DEF Mentions
<1> QED BY <1>1 DEF Compared

LEMMA DrainedKept ==
    ASSUME NEW S, NEW T, NEW kinds, Follows(S, T, kinds), "close" \notin kinds, Drained(S)
    PROVE  Drained(T)
<1>1. ASSUME NEW c \in T, NEW t \in T, c.kind = "close", c.acct \in BalanceSheet,
             t.kind = "txn", ~t.padding, NEW m \in Moved(t), m[1] = c.acct
      PROVE  \E b \in T : /\ b.kind = "balance" /\ b.acct = c.acct /\ b.cur = m[2]
                          /\ \/ b.date = c.date
                             \/ b.date = c.date + 1 /\ b.num = 0 /\ b.tol = 0
  <2>1. c \in S
    BY <1>1, FollowsKeeps
  <2>2. PICK u \in S : Remains(t, u)
    BY <1>1 DEF Follows
  <2>3. u.kind = "txn" /\ ~u.padding /\ m \in Moved(u)
    BY <1>1, <2>2 DEF Remains
  <2>4. PICK b \in S : /\ b.kind = "balance" /\ b.acct = c.acct /\ b.cur = m[2]
                       /\ \/ b.date = c.date
                          \/ b.date = c.date + 1 /\ b.num = 0 /\ b.tol = 0
    BY <1>1, <2>1, <2>3 DEF Drained
  <2>5. PICK e \in T : Same(b, e)
    BY <2>4 DEF Follows
  <2>6. e.kind = "balance" /\ e.acct = b.acct /\ e.cur = b.cur /\ e.date = b.date
        /\ e.num = b.num /\ e.tol = b.tol
    BY <2>4, <2>5 DEF Same
  <2> QED BY <2>4, <2>6
<1> QED BY <1>1 DEF Drained

LEMMA TreesKept ==
    ASSUME NEW S, NEW T, NEW kinds, Follows(S, T, kinds), "close" \notin kinds,
           "open" \notin kinds, Trees(S)
    PROVE  Trees(T)
<1>1. \A d \in T : d.kind \in {"open", "close"} => d \in S
  BY FollowsKeeps
<1>2. \A d \in S : d.kind \in {"open", "close"} => d \in T
  BY FollowsKeeps
<1>3. ASSUME NEW c \in T, c.kind = "close", NEW a \in Below[c.acct] \ {c.acct},
             NEW o \in T, o.kind = "open", o.acct = a, o.date <= c.date
      PROVE  \E b \in T : b.kind = "close" /\ b.acct = a /\ b.date <= c.date
  <2>1. c \in S /\ o \in S
    BY <1>1, <1>3
  <2>2. PICK b \in S : b.kind = "close" /\ b.acct = a /\ b.date <= c.date
    BY <1>3, <2>1 DEF Trees
  <2> QED BY <1>2, <2>2
<1> QED BY <1>3 DEF Trees

-----------------------------------------------------------------------------
(* The plugins behind that have run, Q those still to run.                 *)
LastTo(S, p, m) == \A q \in Plugs(S) : q.name = m => Leads(q, p)
EffectsDrained(S, Q) ==
    (\E p \in Plugs(S) \ Q : p.name = "check_drained" /\ LastTo(S, p, "close_tree")) => Drained(S)
EffectsTrees(S, Q) ==
    (\E p \in Plugs(S) \ Q : p.name = "close_tree" /\ LastTo(S, p, "auto_accounts")) => Trees(S)
EffectsPriced(S, Q) ==
    (\E p \in Plugs(S) \ Q : p.name = "implicit_prices") => Priced(S)
EffectsCompared(S, F, Q) ==
    (\E p \in Plugs(S) \ Q, q \in Plugs(S) \ Q :
        p.name = "implicit_prices" /\ q.name = "unique_prices" /\ Leads(p, q)) => Compared(S, F)
Effects(S, F, Q) ==
    EffectsDrained(S, Q) /\ EffectsTrees(S, Q) /\ EffectsPriced(S, Q) /\ EffectsCompared(S, F, Q)

\* What is still to run is in order, and nothing behind it has run.
Lined(S, qs) ==
    /\ ToSet(qs) \subseteq Plugs(S)
    /\ \A k, l \in DOMAIN qs : k < l => ~Leads(qs[l], qs[k])
    /\ \A p \in ToSet(qs), q \in Plugs(S) : Leads(p, q) => q \in ToSet(qs)

LEMMA EffectsStay ==
    ASSUME NEW S, NEW T, NEW kinds, Follows(S, T, kinds), "plugin" \notin kinds,
           "close" \notin kinds, "open" \notin kinds, NEW F, NEW G, F \subseteq G, NEW Q,
           Effects(S, F, Q)
    PROVE  Effects(T, G, Q)
<1>1. Plugs(T) = Plugs(S)
  BY PlugsKept
<1>2. EffectsDrained(T, Q)
  BY <1>1, DrainedKept DEF Effects, EffectsDrained, LastTo
<1>3. EffectsTrees(T, Q)
  BY <1>1, TreesKept DEF Effects, EffectsTrees, LastTo
<1>4. EffectsPriced(T, Q)
  BY <1>1, PricedKept DEF Effects, EffectsPriced
<1>5. EffectsCompared(T, G, Q)
  BY <1>1, ComparedKept DEF Effects, EffectsCompared
<1> QED BY <1>2, <1>3, <1>4, <1>5 DEF Effects

LEMMA TailOf ==
    ASSUME NEW R, NEW qs \in Seq(R), qs # <<>>
    PROVE  /\ Head(qs) \in ToSet(qs) /\ Tail(qs) \in Seq(R)
           /\ ToSet(qs) = {Head(qs)} \cup ToSet(Tail(qs))
           /\ \A k \in DOMAIN Tail(qs) : k + 1 \in DOMAIN qs /\ Tail(qs)[k] = qs[k + 1]
           /\ 1 \in DOMAIN qs /\ Head(qs) = qs[1]
           /\ \A k \in DOMAIN Tail(qs) : k \in Nat /\ k > 0
<1>1. /\ Tail(qs) \in Seq(R) /\ Len(qs) \in Nat /\ Len(qs) > 0 /\ DOMAIN qs = 1 .. Len(qs)
      /\ DOMAIN Tail(qs) = 1 .. Len(qs) - 1 /\ Head(qs) = qs[1]
      /\ \A k \in DOMAIN Tail(qs) : Tail(qs)[k] = qs[k + 1]
  OBVIOUS
<1>2. ASSUME NEW k \in DOMAIN qs, k # 1
      PROVE  k - 1 \in DOMAIN Tail(qs) /\ Tail(qs)[k - 1] = qs[k]
  BY <1>1, <1>2
<1>3. \A k \in DOMAIN Tail(qs) : k + 1 \in DOMAIN qs /\ k \in Nat /\ k > 0
  BY <1>1
<1>4. 1 \in DOMAIN qs
  BY <1>1
<1>5. \A x \in ToSet(qs) : x = Head(qs) \/ x \in ToSet(Tail(qs))
  BY <1>1, <1>2 DEF ToSet
<1>6. \A x \in ToSet(Tail(qs)) : x \in ToSet(qs)
  BY <1>1, <1>3 DEF ToSet
<1>7. Head(qs) \in ToSet(qs)
  BY <1>1, <1>4 DEF ToSet
<1> QED BY <1>1, <1>3, <1>4, <1>5, <1>6, <1>7

LEMMA LinedTail ==
    ASSUME NEW S, NEW T, NEW R, NEW qs \in Seq(R), qs # <<>>, Lined(S, qs), Plugs(T) = Plugs(S)
    PROVE  Lined(T, Tail(qs))
<1> DEFINE ts == Tail(qs)
<1>1. /\ ToSet(qs) = {Head(qs)} \cup ToSet(ts)
      /\ \A k \in DOMAIN ts : k + 1 \in DOMAIN qs /\ ts[k] = qs[k + 1] /\ k \in Nat /\ k > 0
      /\ 1 \in DOMAIN qs /\ Head(qs) = qs[1]
  BY TailOf
<1> HIDE DEF ts
<1>2. ASSUME NEW k \in DOMAIN ts, NEW l \in DOMAIN ts, k < l PROVE ~Leads(ts[l], ts[k])
  <2>1. k + 1 < l + 1
    BY <1>1, <1>2
  <2> QED BY <1>1, <2>1 DEF Lined
<1>3. ASSUME NEW p \in ToSet(ts), NEW q \in Plugs(T), Leads(p, q) PROVE q \in ToSet(ts)
  <2>1. q \in ToSet(qs)
    BY <1>1, <1>3 DEF Lined
  <2>2. PICK k \in DOMAIN ts : ts[k] = p
    BY DEF ToSet
  <2>3. 1 < k + 1 /\ k + 1 \in DOMAIN qs /\ p = qs[k + 1]
    BY <1>1, <2>2
  <2>4. ~Leads(p, Head(qs))
    BY <1>1, <2>3 DEF Lined
  <2> QED BY <1>1, <1>3, <2>1, <2>4
<1> QED BY <1>1, <1>2, <1>3 DEF Lined, ts

\* The first of the queue runs.
LEMMA EffectsRun ==
    ASSUME NEW S, NEW T, NEW kinds, Follows(S, T, kinds), "plugin" \notin kinds,
           NEW F, NEW G, F \subseteq G,
           NEW R, NEW qs \in Seq(R), qs # <<>>, Lined(S, qs), Effects(S, F, ToSet(qs)),
           NEW h, h = Head(qs),
           "close" \in kinds => h.name = "close_tree",
           "open" \in kinds => h.name = "auto_accounts",
           h.name = "check_drained" => Drained(T),
           h.name = "close_tree" => Trees(T),
           h.name = "implicit_prices" => Priced(T),
           h.name = "unique_prices" /\ Priced(S) => Compared(T, G)
    PROVE  Effects(T, G, ToSet(Tail(qs))) /\ Lined(T, Tail(qs)) /\ Plugs(T) = Plugs(S)
<1> DEFINE Q == ToSet(qs)
           V == ToSet(Tail(qs))
<1>1. Q = {h} \cup V /\ h \in Q
  BY TailOf
<1> HIDE DEF Q, V
<1>2. Plugs(T) = Plugs(S)
  BY PlugsKept
<1>3. Lined(T, Tail(qs))
  BY <1>2, LinedTail
<1>4. \A p \in Plugs(T) \ V : p = h \/ p \in Plugs(S) \ Q
  BY <1>1, <1>2
<1>5. \A p \in Plugs(S) \ Q : ~Leads(h, p)
  BY <1>1 DEF Lined, Q
<1>6. Q \subseteq Plugs(S)
  BY DEF Lined, Q
<1>7. EffectsDrained(T, V)
  <2> SUFFICES ASSUME NEW p \in Plugs(T) \ V, p.name = "check_drained", LastTo(T, p, "close_tree")
               PROVE  Drained(T)
    BY DEF EffectsDrained
  <2>1. CASE p = h
    BY <2>1
  <2>2. CASE p \in Plugs(S) \ Q
    <3>1. LastTo(S, p, "close_tree")
      BY <1>2 DEF LastTo
    <3>2. Drained(S)
      BY <2>2, <3>1 DEF Effects, EffectsDrained, Q
    <3>3. h.name # "close_tree"
      BY <1>1, <1>5, <1>6, <2>2, <3>1 DEF LastTo
    <3> QED BY <3>2, <3>3, DrainedKept
  <2> QED BY <1>4, <2>1, <2>2
<1>8. EffectsTrees(T, V)
  <2> SUFFICES ASSUME NEW p \in Plugs(T) \ V, p.name = "close_tree", LastTo(T, p, "auto_accounts")
               PROVE  Trees(T)
    BY DEF EffectsTrees
  <2>1. CASE h.name = "close_tree"
    BY <2>1
  <2>2. CASE h.name # "close_tree"
    <3>1. p \in Plugs(S) \ Q
      BY <1>4, <2>2
    <3>2. LastTo(S, p, "auto_accounts")
      BY <1>2 DEF LastTo
    <3>3. Trees(S)
      BY <3>1, <3>2 DEF Effects, EffectsTrees, Q
    <3>4. h.name # "auto_accounts"
      BY <1>1, <1>5, <1>6, <3>1, <3>2 DEF LastTo
    <3> QED BY <2>2, <3>3, <3>4, TreesKept
  <2> QED BY <2>1, <2>2
<1>9. EffectsPriced(T, V)
  <2> SUFFICES ASSUME NEW p \in Plugs(T) \ V, p.name = "implicit_prices"
               PROVE  Priced(T)
    BY DEF EffectsPriced
  <2>1. CASE p = h
    BY <2>1
  <2>2. CASE p \in Plugs(S) \ Q
    <3>1. Priced(S)
      BY <2>2 DEF Effects, EffectsPriced, Q
    <3> QED BY <3>1, PricedKept
  <2> QED BY <1>4, <2>1, <2>2
<1>10. EffectsCompared(T, G, V)
  <2> SUFFICES ASSUME NEW p \in Plugs(T) \ V, NEW q \in Plugs(T) \ V,
                      p.name = "implicit_prices", q.name = "unique_prices", Leads(p, q)
               PROVE  Compared(T, G)
    BY DEF EffectsCompared
  <2>1. CASE q \in Plugs(S) \ Q
    <3>1. p \in Plugs(S) \ Q
      BY <1>4, <1>5, <2>1
    <3>2. Compared(S, F)
      BY <2>1, <3>1 DEF Effects, EffectsCompared, Q
    <3> QED BY <3>2, ComparedKept
  <2>2. CASE q = h
    <3>1. p \in Plugs(S) \ Q
      BY <1>4, <2>2
    <3>2. Priced(S)
      BY <3>1 DEF Effects, EffectsPriced, Q
    <3> QED BY <2>2, <3>2
  <2> QED BY <1>4, <2>1, <2>2
<1> QED BY <1>2, <1>3, <1>7, <1>8, <1>9, <1>10 DEF Effects, V
-----------------------------------------------------------------------------
(* Each standard plugin follows what it is given.                          *)
After(r, S) == IF r.dirs = None THEN S ELSE ToSet(r.dirs)

LEMMA AfterChanges ==
    ASSUME NEW ds \in Seq(AsRead), NEW S
    PROVE  After(Changes(ds), S) = ToSet(ds)
<1>1. ds \in Seq(Directive)
  BY ReadIsDirective
<1>2. ds # None
  BY <1>1, NoneIsNoLedger
<1> QED BY <1>2 DEF After, Changes

LEMMA AfterReports == \A fs, S : After(Reports(fs), S) = S
BY DEF After, Reports

LEMMA Growing ==
    ASSUME NEW S, NEW N, NEW kinds,
           \A e \in N : \/ e.kind # "txn" /\ e.kind \in kinds
                        \/ e.kind = "txn" /\ e.padding /\ Rates(e) = {},
           \A e \in N : e.kind # "open" => \E d \in S : d.kind # "open" /\ d.file = e.file
    PROVE  Follows(S, S \cup N, kinds)
<1> DEFINE T == S \cup N
<1>1. \A d : Same(d, d)
  BY DEF Same
<1>2. \A t \in S : t.kind = "txn" => Remains(t, t)
  BY DEF Remains
<1>3. \A d \in S : d.kind # "txn" => \E e \in T : Same(d, e)
  BY <1>1
<1>4. \A e \in T : e.kind # "txn" => e.kind \in kinds \/ \E d \in S : Same(d, e)
  BY <1>1
<1>5. \A t \in T : t.kind = "txn" => (t.padding /\ Rates(t) = {}) \/ \E u \in S : Remains(t, u)
  BY <1>2
<1>6. \A e \in T : e.kind # "open" => \E d \in S : d.kind # "open" /\ d.file = e.file
  OBVIOUS
<1> QED BY <1>3, <1>4, <1>5, <1>6 DEF Follows

\* New directives in front of each or behind.
Woven(R, ds, new, ss) ==
    /\ ss = [k \in DOMAIN ds |-> ss[k]]
    /\ \A k \in DOMAIN ds : /\ new[k] \in Seq(R)
                            /\ \/ ss[k] = <<ds[k]>> \o new[k]
                               \/ ss[k] = new[k] \o <<ds[k]>>
LEMMA Interleaved ==
    ASSUME NEW R, NEW ds \in Seq(R), NEW new, NEW ss, Woven(R, ds, new, ss)
    PROVE  /\ FlattenSeq(ss) \in Seq(R)
           /\ ToSet(FlattenSeq(ss)) = ToSet(ds) \cup UNION {ToSet(new[k]) : k \in DOMAIN ds}
<1>1. ASSUME NEW k \in DOMAIN ds
      PROVE  ss[k] \in Seq(R) /\ ToSet(ss[k]) = {ds[k]} \cup ToSet(new[k])
  <2> DEFINE one == <<ds[k]>>
             n == new[k]
  <2>1. one \in Seq(R) /\ n \in Seq(R) /\ ToSet(one) = {ds[k]}
    BY DEF ToSet, Woven
  <2>2. ss[k] = one \o n \/ ss[k] = n \o one
    BY DEF Woven
  <2> HIDE DEF one, n
  <2>3. /\ ToSet(one \o n) = ToSet(one) \cup ToSet(n) /\ one \o n \in Seq(R)
        /\ ToSet(n \o one) = ToSet(n) \cup ToSet(one) /\ n \o one \in Seq(R)
    BY <2>1, Joined
  <2> QED BY <2>1, <2>2, <2>3 DEF n
<1>2. ss \in Seq(Seq(R)) /\ DOMAIN ss = DOMAIN ds
  BY <1>1, MadeList DEF Woven
<1>3. \A x : x \in ToSet(FlattenSeq(ss)) <=> \E i \in DOMAIN ss : x \in ToSet(ss[i])
  BY <1>2, FlattenHolds
<1>4. \A x : x \in ToSet(ds) <=> \E i \in DOMAIN ds : x = ds[i]
  BY DEF ToSet
<1>5. \A x : x \in ToSet(FlattenSeq(ss)) <=>
               \E i \in DOMAIN ds : x = ds[i] \/ x \in ToSet(new[i])
  <2>1. ASSUME NEW i \in DOMAIN ds, NEW x
        PROVE  x \in ToSet(ss[i]) <=> x = ds[i] \/ x \in ToSet(new[i])
    BY <1>1
  <2> QED BY <1>2, <1>3, <2>1
<1>6. \A x : x \in ToSet(FlattenSeq(ss)) <=>
               x \in ToSet(ds) \cup UNION {ToSet(new[k]) : k \in DOMAIN ds}
  <2> DEFINE N == UNION {ToSet(new[k]) : k \in DOMAIN ds}
  <2>1. \A x : x \in N <=> \E k \in DOMAIN ds : x \in ToSet(new[k])
    OBVIOUS
  <2> HIDE DEF N
  <2>2. ASSUME NEW x \in ToSet(FlattenSeq(ss)) PROVE x \in ToSet(ds) \cup N
    <3>1. PICK i \in DOMAIN ds : x = ds[i] \/ x \in ToSet(new[i])
      BY <1>5, <2>2
    <3> QED BY <1>4, <2>1, <3>1
  <2>3. ASSUME NEW x \in ToSet(ds) \cup N PROVE x \in ToSet(FlattenSeq(ss))
    <3>1. \E i \in DOMAIN ds : x = ds[i] \/ x \in ToSet(new[i])
      BY <1>4, <2>1, <2>3
    <3> QED BY <1>5, <3>1
  <2> QED BY <2>2, <2>3 DEF N
<1> QED BY <1>2, <1>6, FlattenHolds

\* check_drained: what each close adds.
LEMMA BalancesMade ==
    ASSUME NEW ds \in Seq(AsRead), NEW c \in AsRead, c.kind = "close"
    PROVE  LET bs == SynthesizeBalances(ds, c)
           IN  /\ bs \in Seq(AsRead)
               /\ \A b \in ToSet(bs) : b.kind = "balance" /\ b.file = c.file
               /\ \A cur \in Held(ds, c.acct) : ~Asserted(ds, c.acct, cur, c.date) =>
                     \E b \in ToSet(bs) : /\ b.kind = "balance" /\ b.acct = c.acct /\ b.cur = cur
                                          /\ b.date = c.date + 1 /\ b.num = 0 /\ b.tol = 0
<1> DEFINE C == {cur \in Held(ds, c.acct) : ~Asserted(ds, c.acct, cur, c.date)}
           curs == SetToSeq(C)
           bs == [j \in DOMAIN curs |-> Nothing(c.acct, curs[j], c.date + 1, c)]
<1>1. c \in Directive /\ c.acct \in Accounts /\ c.date + 1 \in Nat
  BY ReadIsDirective, AccountOf, DirectiveHas
<1>2. C \subseteq Currencies
  BY CurrenciesHeld
<1>3. bs = SynthesizeBalances(ds, c)
  BY DEF SynthesizeBalances
<1>4. \A cur \in Held(ds, c.acct) : ~Asserted(ds, c.acct, cur, c.date) => cur \in C
  OBVIOUS
<1> HIDE DEF C
<1>5. IsFiniteSet(C)
  BY <1>2, FinitelyMany, FS_Subset
<1>6. curs \in Seq(C) /\ \A x \in C : \E j \in DOMAIN curs : curs[j] = x
  BY <1>5, SetsAreListed
<1>7. DOMAIN bs = DOMAIN curs /\ bs = [j \in DOMAIN curs |-> bs[j]]
      /\ \A j \in DOMAIN curs : bs[j] = Nothing(c.acct, curs[j], c.date + 1, c)
  OBVIOUS
<1> HIDE DEF curs, bs
<1>8. \A j \in DOMAIN curs : curs[j] \in Currencies
  BY <1>2, <1>6
<1>9. \A j \in DOMAIN curs : bs[j] \in AsRead
  BY <1>1, <1>7, <1>8, MadeBalance
<1>10. bs \in Seq(AsRead)
  BY <1>6, <1>7, <1>9, MadeList
<1>11. ASSUME NEW b \in ToSet(bs) PROVE b.kind = "balance" /\ b.file = c.file
  <2>1. PICK j \in DOMAIN curs : b = bs[j]
    BY <1>7 DEF ToSet
  <2> QED BY <1>7, <2>1 DEF Nothing
<1>12. ASSUME NEW cur \in Held(ds, c.acct), ~Asserted(ds, c.acct, cur, c.date)
       PROVE  \E b \in ToSet(bs) : /\ b.kind = "balance" /\ b.acct = c.acct /\ b.cur = cur
                                   /\ b.date = c.date + 1 /\ b.num = 0 /\ b.tol = 0
  <2>1. PICK j \in DOMAIN curs : curs[j] = cur
    BY <1>4, <1>6, <1>12
  <2>2. bs[j] \in ToSet(bs)
    BY <1>7, <2>1 DEF ToSet
  <2>3. bs[j] = Nothing(c.acct, cur, c.date + 1, c)
    BY <1>7, <2>1
  <2> QED BY <2>2, <2>3 DEF Nothing
<1> QED BY <1>3, <1>10, <1>11, <1>12

\* What a transaction moves is held by its account.
LEMMA MovedIsHeld ==
    ASSUME NEW ds \in Seq(AsRead), NEW t \in ToSet(ds), t.kind = "txn", NEW m \in Moved(t)
    PROVE  m[2] \in Held(ds, m[1])
<1>1. PICK k \in DOMAIN ds : t = ds[k]
  BY DEF ToSet
<1>2. PICK j \in DOMAIN t.posts : HasAmount(t.posts[j]) /\ m = <<t.posts[j].acct, t.posts[j].cur>>
  BY DEF Moved
<1>3. t.posts[j] \in ToSet(ds[k].posts) /\ k \in Kinds(ds, "txn")
  BY <1>1, <1>2 DEF ToSet, Kinds
<1>4. t.posts[j] \in Amounts(ds)
  BY <1>2, <1>3 DEF Amounts, Postings
<1> QED BY <1>2, <1>4 DEF Held

LEMMA DrainedFollows ==
    ASSUME NEW ds \in Seq(AsRead), NEW T, T = After(CheckDrained(ds), ToSet(ds))
    PROVE  Follows(ToSet(ds), T, {"balance"}) /\ Drained(T)
<1> DEFINE new == [k \in DOMAIN ds |-> IF ds[k].kind = "close" /\ ds[k].acct \in BalanceSheet
                                       THEN SynthesizeBalances(ds, ds[k]) ELSE <<>>]
           ss == [k \in DOMAIN ds |-> new[k] \o <<ds[k]>>]
           N == UNION {ToSet(new[k]) : k \in DOMAIN ds}
           S == ToSet(ds)
<1>1. \A k \in DOMAIN ds : ds[k] \in AsRead /\ ds[k] \in S
  BY DEF ToSet
<1>2. CheckDrained(ds) = Changes(FlattenSeq(ss))
  BY DEF CheckDrained
<1>3. ASSUME NEW k \in DOMAIN ds
      PROVE  /\ new[k] \in Seq(AsRead)
             /\ \A b \in ToSet(new[k]) : b.kind = "balance" /\ b.file = ds[k].file /\ ds[k].kind = "close"
             /\ ds[k].kind = "close" /\ ds[k].acct \in BalanceSheet =>
                   \A cur \in Held(ds, ds[k].acct) : ~Asserted(ds, ds[k].acct, cur, ds[k].date) =>
                     \E b \in ToSet(new[k]) :
                        /\ b.kind = "balance" /\ b.acct = ds[k].acct /\ b.cur = cur
                        /\ b.date = ds[k].date + 1 /\ b.num = 0 /\ b.tol = 0
  <2>1. CASE ds[k].kind = "close" /\ ds[k].acct \in BalanceSheet
    <3> DEFINE c == ds[k]
               bs == new[k]
    <3>1. bs = SynthesizeBalances(ds, c) /\ c \in AsRead /\ c.kind = "close"
      BY <1>1, <2>1
    <3> HIDE DEF new, c, bs
    <3>2. /\ bs \in Seq(AsRead)
          /\ \A b \in ToSet(bs) : b.kind = "balance" /\ b.file = c.file
          /\ \A cur \in Held(ds, c.acct) : ~Asserted(ds, c.acct, cur, c.date) =>
                \E b \in ToSet(bs) : /\ b.kind = "balance" /\ b.acct = c.acct /\ b.cur = cur
                                     /\ b.date = c.date + 1 /\ b.num = 0 /\ b.tol = 0
      BY <3>1, BalancesMade
    <3> QED BY <3>1, <3>2 DEF c, bs
  <2>2. CASE ~(ds[k].kind = "close" /\ ds[k].acct \in BalanceSheet)
    <3>1. new[k] = <<>>
      BY <2>2
    <3> HIDE DEF new
    <3> QED BY <2>2, <3>1 DEF ToSet
  <2> QED BY <2>1, <2>2
<1>4. ss = [k \in DOMAIN ds |-> ss[k]] /\ \A k \in DOMAIN ds : ss[k] = new[k] \o <<ds[k]>>
  OBVIOUS
<1>5. \A x : x \in N <=> \E k \in DOMAIN ds : x \in ToSet(new[k])
  OBVIOUS
<1> HIDE DEF ss, new
<1>11. Woven(AsRead, ds, new, ss)
  BY <1>3, <1>4 DEF Woven
<1>6. FlattenSeq(ss) \in Seq(AsRead) /\ ToSet(FlattenSeq(ss)) = S \cup N
  <2>1. /\ FlattenSeq(ss) \in Seq(AsRead)
        /\ ToSet(FlattenSeq(ss)) = ToSet(ds) \cup UNION {ToSet(new[k]) : k \in DOMAIN ds}
    BY <1>11, Interleaved
  <2> QED BY <2>1
<1>7. T = S \cup N
  BY <1>2, <1>6, AfterChanges
<1> HIDE DEF N, S
<1>8. \A e \in N : e.kind = "balance" /\ \E d \in S : d.kind # "open" /\ d.file = e.file
  BY <1>1, <1>3, <1>5
<1>9. Follows(S, S \cup N, {"balance"})
  BY <1>8, Growing
<1>10. Drained(T)
  <2> SUFFICES ASSUME NEW c \in T, NEW t \in T, c.kind = "close", c.acct \in BalanceSheet,
                      t.kind = "txn", ~t.padding, NEW m \in Moved(t), m[1] = c.acct
               PROVE  \E b \in T : /\ b.kind = "balance" /\ b.acct = c.acct /\ b.cur = m[2]
                                   /\ \/ b.date = c.date
                                      \/ b.date = c.date + 1 /\ b.num = 0 /\ b.tol = 0
    BY DEF Drained
  <2>1. c \in S /\ t \in S
    BY <1>7, <1>8
  <2>2. m[2] \in Held(ds, c.acct)
    BY <2>1, MovedIsHeld DEF S
  <2>3. PICK k \in DOMAIN ds : c = ds[k]
    BY <2>1 DEF S, ToSet
  <2>4. CASE Asserted(ds, c.acct, m[2], c.date)
    <3>1. PICK j \in Kinds(ds, "balance") : ds[j].acct = c.acct /\ ds[j].cur = m[2] /\ ds[j].date = c.date
      BY <2>4 DEF Asserted
    <3>2. ds[j] \in T /\ ds[j].kind = "balance"
      BY <1>1, <1>7, <3>1 DEF Kinds
    <3> QED BY <3>1, <3>2
  <2>5. CASE ~Asserted(ds, c.acct, m[2], c.date)
    <3>3. /\ ds[k].kind = "close" /\ ds[k].acct \in BalanceSheet /\ m[2] \in Held(ds, ds[k].acct)
          /\ ~Asserted(ds, ds[k].acct, m[2], ds[k].date)
      BY <2>2, <2>3, <2>5
    <3>4. \E b \in ToSet(new[k]) : /\ b.kind = "balance" /\ b.acct = ds[k].acct /\ b.cur = m[2]
                                   /\ b.date = ds[k].date + 1 /\ b.num = 0 /\ b.tol = 0
      BY <1>3, <3>3
    <3>1. PICK b \in ToSet(new[k]) : /\ b.kind = "balance" /\ b.acct = c.acct /\ b.cur = m[2]
                                     /\ b.date = c.date + 1 /\ b.num = 0 /\ b.tol = 0
      BY <2>3, <3>4
    <3>2. b \in T
      BY <1>5, <1>7, <3>1
    <3> QED BY <3>1, <3>2
  <2> QED BY <2>4, <2>5
<1> QED BY <1>7, <1>9, <1>10 DEF S
-----------------------------------------------------------------------------
LEMMA JoinedItems ==
    ASSUME NEW s, NEW r, s \in Seq(ToSet(s)), r \in Seq(ToSet(r))
    PROVE  ToSet(s \o r) = ToSet(s) \cup ToSet(r)
<1>1. \A S, R : s \in Seq(S) /\ r \in Seq(R) => ToSet(s \o r) = ToSet(s) \cup ToSet(r)
  <2> SUFFICES ASSUME NEW S, NEW R, s \in Seq(S), r \in Seq(R)
               PROVE  ToSet(s \o r) = ToSet(s) \cup ToSet(r)
    OBVIOUS
  <2> QED BY ONLY s \in Seq(S), r \in Seq(R), Joined
<1> QED BY <1>1

LEMMA AutoAccountsFollows ==
    ASSUME NEW ds \in Seq(AsRead), NEW T, T = After(AutoAccounts(ds), ToSet(ds))
    PROVE  Follows(ToSet(ds), T, {"open"})
<1> DEFINE open == {a \in Referenced(ds) : FirstOpen(ds, a) = {}}
           missing == SetToSeq(open)
           opens == [k \in DOMAIN missing |->
                        [kind |-> "open", date |-> FirstUse(ds, missing[k]),
                         file |-> NoFile, off |-> 0, acct |-> missing[k],
                         curs |-> {}, single |-> TRUE]]
           S == ToSet(ds)
           N == ToSet(opens)
<1>1. AutoAccounts(ds) = IF missing = <<>> THEN NoChange ELSE Changes(opens \o ds)
  BY DEF AutoAccounts
<1>2. \A e \in N : e.kind = "open"
  <2> HIDE DEF missing
  <2> QED BY DEF ToSet
<1>4. CASE missing = <<>>
  <2>1. T = S
    BY <1>1, <1>4, AfterReports DEF NoChange
  <2>2. Follows(S, S \cup {}, {"open"})
    BY Growing
  <2> QED BY <2>1, <2>2
<1>5. CASE missing # <<>>
  <2>1. AutoAccounts(ds) = Changes(opens \o ds)
    BY <1>1, <1>5
  <2>2. opens \in Seq(ToSet(opens))
    <3>1. open \subseteq Referenced(ds) /\ IsFiniteSet(open)
      <4>1. open \subseteq Referenced(ds) /\ ds \in Seq(Directive)
        BY ReadIsDirective
      <4> HIDE DEF open
      <4> QED BY <4>1, ReferencedAreAccounts, FS_Subset
    <3> HIDE DEF open
    <3>2. missing \in Seq(open)
      BY <3>1, SetsAreListed
    <3>3. opens = [k \in DOMAIN missing |-> opens[k]] /\ \A k \in DOMAIN missing : opens[k] \in N
      BY DEF ToSet
    <3> HIDE DEF missing, opens
    <3>4. opens \in Seq(N)
      BY <3>2, <3>3, MadeList
    <3> QED BY <3>4
  <2> HIDE DEF missing, opens
  <2>3. ToSet(opens \o ds) = N \cup S
    <3>1. ds \in Seq(ToSet(ds))
      BY Itemized
    <3> QED BY <2>2, <3>1, JoinedItems
  <2>4. T = S \/ T = N \cup S
    BY <2>1, <2>3 DEF After, Changes
  <2> HIDE DEF N, S
  <2>5. Follows(S, S \cup N, {"open"}) /\ Follows(S, S \cup {}, {"open"})
    BY <1>2, Growing
  <2> QED BY <2>4, <2>5 DEF S
<1> QED BY <1>4, <1>5

\* check_closing: what is left of a transaction.
LEMMA ExpandLeaves ==
    ASSUME NEW t \in AsRead, t.kind = "txn", NEW x \in ToSet(Expand(t))
    PROVE  /\ x.file = t.file
           /\ x.kind = "balance" \/ (x.kind = "txn" /\ Remains(x, t))
<1> DEFINE K == {k \in DOMAIN t.posts : ClosingPost(t.posts[k])}
           marked == Those(t.posts, K)
           bs == [k \in DOMAIN marked |-> Nothing(marked[k].acct, marked[k].cur, t.date + 1, t)]
           ps == [k \in DOMAIN t.posts |->
                    IF ClosingPost(t.posts[k]) THEN [t.posts[k] EXCEPT !.closing = FALSE]
                    ELSE t.posts[k]]
           u == [t EXCEPT !.posts = ps]
<1>1. /\ t \in Directive /\ t \in TransactionType /\ t.posts \in Seq(Posting)
      /\ \A k \in DOMAIN t.posts : t.posts[k] \in Posting
  BY PostsOfTransaction, ReadIsDirective
<1>2. Expand(t) = bs \o <<u>>
  BY DEF Expand
<1>3. marked \in Seq(Posting)
  <2>1. K \in SUBSET DOMAIN t.posts
    OBVIOUS
  <2> HIDE DEF K
  <2> QED BY <1>1, <2>1, ThoseHold
<1>4. \A y \in ToSet(bs) : y.kind = "balance" /\ y.file = t.file
  <2> HIDE DEF marked
  <2> QED BY DEF ToSet, Nothing
<1>5. ASSUME NEW k \in DOMAIN t.posts
      PROVE  /\ ps[k].acct = t.posts[k].acct /\ ps[k].cur = t.posts[k].cur
             /\ HasAmount(ps[k]) <=> HasAmount(t.posts[k])
             /\ HasPrice(ps[k]) <=> HasPrice(t.posts[k])
             /\ PerUnit(ps[k]) = PerUnit(t.posts[k])
  <2> DEFINE p == t.posts[k]
             q == ps[k]
  <2>1. q = p \/ q = [p EXCEPT !.closing = FALSE]
    OBVIOUS
  <2>2. p \in Posting
    BY <1>1
  <2> HIDE DEF p, q
  <2>3. q.acct = p.acct /\ q.cur = p.cur /\ q.num = p.num /\ q.cost = p.cost /\ q.price = p.price
    BY <2>1, <2>2 DEF Posting
  <2> QED BY <2>3 DEF p, q, HasAmount, HasPrice, PerUnit
<1>6. u.kind = "txn" /\ u.file = t.file /\ u.padding = t.padding /\ u.date = t.date /\ u.posts = ps
  BY <1>1 DEF TransactionType
<1>7. DOMAIN ps = DOMAIN t.posts
  OBVIOUS
<1> HIDE DEF ps
<1>8. Moved(u) \subseteq Moved(t)
  BY <1>5, <1>6, <1>7 DEF Moved
<1>9. Rates(u) \subseteq Rates(t)
  BY <1>5, <1>6, <1>7 DEF Rates
<1>10. ToSet(bs \o <<u>>) = ToSet(bs) \cup {u}
  <2>1. DOMAIN bs = DOMAIN marked /\ bs = [k \in DOMAIN marked |-> bs[k]]
        /\ \A k \in DOMAIN marked : bs[k] \in ToSet(bs)
    BY DEF ToSet
  <2> HIDE DEF bs, marked, u
  <2>2. bs \in Seq(ToSet(bs))
    BY <1>3, <2>1, MadeList
  <2>3. <<u>> \in Seq(ToSet(<<u>>)) /\ ToSet(<<u>>) = {u}
    BY DEF ToSet
  <2> QED BY <2>2, <2>3, JoinedItems
<1>11. x \in ToSet(bs) \/ x = u
  <2> HIDE DEF bs, u
  <2> QED BY <1>2, <1>10
<1> HIDE DEF bs, u
<1> QED BY <1>4, <1>6, <1>8, <1>9, <1>11 DEF Remains

LEMMA CheckClosingFollows ==
    ASSUME NEW ds \in Seq(AsRead), NEW T, T = After(CheckClosing(ds), ToSet(ds))
    PROVE  Follows(ToSet(ds), T, {"balance"})
<1> DEFINE ss == [k \in DOMAIN ds |-> IF ds[k].kind = "txn" THEN Expand(ds[k]) ELSE <<ds[k]>>]
           S == ToSet(ds)
           V == ToSet(FlattenSeq(ss))
<1>1. \A k \in DOMAIN ds : ds[k] \in AsRead /\ ds[k] \in S
  BY DEF ToSet
<1>2. ASSUME NEW k \in DOMAIN ds
      PROVE  /\ ss[k] \in Seq(AsRead)
             /\ ds[k].kind # "txn" => ToSet(ss[k]) = {ds[k]}
             /\ ds[k].kind = "txn" => ss[k] = Expand(ds[k])
  <2>1. <<ds[k]>> \in Seq(AsRead) /\ ToSet(<<ds[k]>>) = {ds[k]}
    BY <1>1 DEF ToSet
  <2>2. ds[k].kind = "txn" => Expand(ds[k]) \in Seq(AsRead)
    BY <1>1, ExpandTypes
  <2> QED BY <2>1, <2>2
<1>3. ss = [k \in DOMAIN ds |-> ss[k]] /\ DOMAIN ss = DOMAIN ds /\ CheckClosing(ds) = Changes(FlattenSeq(ss))
  BY DEF CheckClosing
<1> HIDE DEF ss
<1>4. ss \in Seq(Seq(AsRead))
  BY <1>2, <1>3, MadeList
<1>5. FlattenSeq(ss) \in Seq(AsRead)
      /\ \A x : x \in V <=> \E i \in DOMAIN ds : x \in ToSet(ss[i])
  BY <1>3, <1>4, FlattenHolds
<1>6. T = V
  BY <1>3, <1>5, AfterChanges
<1>7. \A d \in S : \E k \in DOMAIN ds : d = ds[k]
  BY DEF ToSet
<1> HIDE DEF S, V
<1>8. ASSUME NEW d \in S, d.kind # "txn" PROVE d \in V
  <2>1. PICK k \in DOMAIN ds : d = ds[k]
    BY <1>7
  <2>2. d \in ToSet(ss[k])
    BY <1>2, <1>8, <2>1
  <2> QED BY <1>5, <2>2
<1>9. ASSUME NEW x \in V
      PROVE  \/ x \in S /\ x.kind # "txn"
             \/ \E t \in S : /\ t.kind = "txn" /\ x.file = t.file
                             /\ x.kind = "balance" \/ (x.kind = "txn" /\ Remains(x, t))
  <2>1. PICK k \in DOMAIN ds : x \in ToSet(ss[k])
    BY <1>5
  <2>2. CASE ds[k].kind # "txn"
    BY <1>1, <1>2, <2>1, <2>2
  <2>3. CASE ds[k].kind = "txn"
    BY <1>1, <1>2, <2>1, <2>3, ExpandLeaves
  <2> QED BY <2>2, <2>3
<1>10. \A d : Same(d, d)
  BY DEF Same
<1>11. Follows(S, V, {"balance"})
  <2>1. \A d \in S : d.kind # "txn" => \E e \in V : Same(d, e)
    BY <1>8, <1>10
  <2>2. \A e \in V : e.kind # "txn" => e.kind \in {"balance"} \/ \E d \in S : Same(d, e)
    BY <1>9, <1>10
  <2>3. \A t \in V : t.kind = "txn" => \E u \in S : Remains(t, u)
    BY <1>9
  <2>4. \A e \in V : e.kind # "open" => \E d \in S : d.kind # "open" /\ d.file = e.file
    BY <1>9
  <2> QED BY <2>1, <2>2, <2>3, <2>4 DEF Follows
<1> QED BY <1>6, <1>11 DEF S

LEMMA ExcludeTagFollows ==
    ASSUME NEW ds \in Seq(AsRead), NEW p, NEW T, T = After(ExcludeTag(p, ds), ToSet(ds))
    PROVE  Follows(ToSet(ds), T, {})
<1> DEFINE tag == IF p.config = None THEN "virtual" ELSE p.config.tag
           K == {k \in DOMAIN ds : ~(ds[k].kind = "txn" /\ tag \in ds[k].tags)}
           kept == Those(ds, K)
           S == ToSet(ds)
<1>1. ExcludeTag(p, ds) = IF kept = ds THEN NoChange ELSE Changes(kept)
  BY DEF ExcludeTag
<1>2. K \in SUBSET DOMAIN ds
  OBVIOUS
<1>3. \A k \in DOMAIN ds : ds[k].kind # "txn" => k \in K
  OBVIOUS
<1> HIDE DEF K
<1>4. kept \in Seq(AsRead) /\ ToSet(kept) = {ds[k] : k \in K}
  BY <1>2, ThoseHold
<1> HIDE DEF kept
<1>5. T = S \/ T = ToSet(kept)
  BY <1>1, <1>4, AfterChanges, AfterReports DEF NoChange
<1>6. ToSet(kept) \subseteq S /\ \A d \in S : d.kind # "txn" => d \in ToSet(kept)
  BY <1>2, <1>3, <1>4 DEF ToSet
<1> HIDE DEF S
<1>7. (\A d : Same(d, d)) /\ \A t \in S : t.kind = "txn" => Remains(t, t)
  BY DEF Same, Remains
<1>8. Follows(S, ToSet(kept), {})
  BY <1>6, <1>7 DEF Follows
<1> QED BY <1>5, <1>8, FollowsItself DEF S
-----------------------------------------------------------------------------
\* close_tree, on a ledger in canonical order.
Canonical(ds) ==
    \A k, l \in DOMAIN ds : k < l =>
        \/ ds[k].date < ds[l].date
        \/ ds[k].date = ds[l].date /\ Rank[ds[k].kind] <= Rank[ds[l].kind]

LEMMA FirstIndex ==
    ASSUME NEW R, NEW ds \in Seq(R), NEW K \in SUBSET DOMAIN ds, K # {}
    PROVE  \E k \in K : \A j \in K : k <= j
<1>1. DOMAIN ds = 1 .. Len(ds) /\ Len(ds) \in Nat
  OBVIOUS
<1>2. K \in SUBSET Nat
  BY <1>1
<1> QED BY <1>2, LeastOf

\* An account open by the date of a close is open before it.
LEMMA OpenedBefore ==
    ASSUME NEW ds \in Seq(Directive), Canonical(ds), NEW k \in DOMAIN ds, ds[k].kind = "close",
           NEW i \in DOMAIN ds, ds[i].kind = "open", ds[i].date <= ds[k].date
    PROVE  OpenBefore(ds, k, ds[i].acct)
<1> DEFINE a == ds[i].acct
           os == {j \in Kinds(ds, "open") : ds[j].acct = a}
<1>1. i \in os /\ os \in SUBSET DOMAIN ds
  BY DEF Kinds
<1>2. FirstOpen(ds, a) = {j \in os : \A l \in os : j <= l}
  BY DEF FirstOpen
<1>3. \A j \in os : ds[j].kind = "open"
  BY DEF Kinds
<1> HIDE DEF os, a
<1>4. PICK o \in os : \A j \in os : o <= j
  BY <1>1, FirstIndex
<1>5. o \in FirstOpen(ds, a) /\ o <= i
  BY <1>1, <1>2, <1>4
<1>6. o \in Nat /\ i \in Nat /\ k \in Nat /\ o \in DOMAIN ds
  BY <1>1, <1>4
<1>7. ds[o].date \in Nat /\ ds[i].date \in Nat /\ ds[k].date \in Nat
  BY <1>6, DirectiveHas
<1>8. ds[o].date <= ds[i].date
  BY <1>5, <1>6, <1>7 DEF Canonical
<1>9. ds[o].date <= ds[k].date
  BY <1>7, <1>8
<1>10. o < k
  <2>1. ds[o].kind = "open" /\ Rank["open"] = 1 /\ Rank["close"] = 6
    BY <1>3, <1>4 DEF Rank
  <2>2. o # k
    BY <2>1
  <2>3. ~(k < o)
    BY <1>6, <1>7, <1>9, <2>1 DEF Canonical
  <2> QED BY <1>6, <2>2, <2>3
<1> QED BY <1>5, <1>9, <1>10 DEF OpenBefore, a

\* What a close takes along is closed by it or by one before it.
LEMMA TakenIsClosed ==
    ASSUME NEW ds \in Seq(Directive), Canonical(ds), NEW k \in DOMAIN ds, ds[k].kind = "close",
           NEW a \in Accounts, Takes(ds, k, a)
    PROVE  \E j \in DOMAIN ds : /\ ds[j].kind = "close" /\ ds[j].date <= ds[k].date
                                /\ ds[j].acct = a \/ a \in Descendants(ds, j)
<1> DEFINE K == {j \in Kinds(ds, "close") : ds[j].acct = a \/ Takes(ds, j, a)}
<1>1. k \in K /\ K \in SUBSET DOMAIN ds
  BY DEF Kinds
<1>2. \A j \in K : ds[j].kind = "close" /\ (ds[j].acct = a \/ Takes(ds, j, a))
  BY DEF Kinds
<1>3. \A j \in Kinds(ds, "close") : ds[j].acct = a \/ Takes(ds, j, a) => j \in K
  OBVIOUS
<1> HIDE DEF K
<1>4. PICK j \in K : \A i \in K : j <= i
  BY <1>1, FirstIndex
<1>5. j <= k /\ j \in Nat /\ k \in Nat /\ j \in DOMAIN ds
  BY <1>1, <1>4
<1>6. ds[j].date \in Nat /\ ds[k].date \in Nat
  BY <1>5, DirectiveHas
<1>7. ds[j].date <= ds[k].date
  BY <1>5, <1>6 DEF Canonical
<1>8. ds[j].acct = a \/ a \in Descendants(ds, j)
  <2>1. ASSUME NEW i \in Kinds(ds, "close"), i < j, ds[i].acct = a \/ Takes(ds, i, a)
        PROVE  FALSE
    <3>1. i \in K
      BY <1>3, <2>1
    <3>2. i \in Nat
      BY <1>1, <3>1
    <3> QED BY <1>4, <1>5, <2>1, <3>1, <3>2
  <2>2. ds[j].acct = a \/ Takes(ds, j, a)
    BY <1>2, <1>4
  <2> QED BY <2>1, <2>2 DEF Descendants
<1> QED BY <1>2, <1>4, <1>5, <1>7, <1>8

\* The closes put behind each close.
Along(ds, k) ==
    LET subs == IF ds[k].kind = "close" THEN SetToSeq(Descendants(ds, k)) ELSE <<>>
    IN  [j \in DOMAIN subs |-> [kind |-> "close", date |-> ds[k].date, acct |-> subs[j],
                                file |-> ds[k].file, off |-> ds[k].off]]

LEMMA ClosedAlong ==
    ASSUME NEW ds \in Seq(AsRead), NEW k \in DOMAIN ds
    PROVE  /\ Along(ds, k) \in Seq(AsRead)
           /\ \A x \in ToSet(Along(ds, k)) :
                 /\ x.kind = "close" /\ x.date = ds[k].date /\ x.file = ds[k].file
                 /\ ds[k].kind = "close" /\ x.acct \in Descendants(ds, k)
           /\ ds[k].kind = "close" => \A a \in Descendants(ds, k) : \E x \in ToSet(Along(ds, k)) :
                 x.kind = "close" /\ x.date = ds[k].date /\ x.acct = a
<1> DEFINE A == Descendants(ds, k)
           subs == IF ds[k].kind = "close" THEN SetToSeq(A) ELSE <<>>
           cs == [j \in DOMAIN subs |-> [kind |-> "close", date |-> ds[k].date, acct |-> subs[j],
                                         file |-> ds[k].file, off |-> ds[k].off]]
<1>1. A \subseteq Accounts
  BY DEF Descendants
<1>2. cs = Along(ds, k)
  BY DEF Along
<1> HIDE DEF A
<1>3. IsFiniteSet(A)
  BY <1>1, FinitelyMany, FS_Subset
<1>4. /\ subs \in Seq(A)
      /\ ds[k].kind # "close" => DOMAIN subs = {}
      /\ ds[k].kind = "close" => \A x \in A : \E j \in DOMAIN subs : subs[j] = x
  BY <1>3, SetsAreListed
<1> HIDE DEF subs
<1>5. /\ DOMAIN cs = DOMAIN subs /\ cs = [j \in DOMAIN subs |-> cs[j]]
      /\ \A j \in DOMAIN subs : cs[j] = [kind |-> "close", date |-> ds[k].date, acct |-> subs[j],
                                         file |-> ds[k].file, off |-> ds[k].off]
  OBVIOUS
<1> HIDE DEF cs
<1>6. \A j \in DOMAIN subs : subs[j] \in A /\ subs[j] \in Accounts
  BY <1>1, <1>4
<1>7. ds[k] \in Directive
  BY ReadIsDirective
<1>8. \A j \in DOMAIN subs : cs[j] \in AsRead
  BY <1>5, <1>6, <1>7, MadeClose
<1>9. cs \in Seq(AsRead)
  BY <1>4, <1>5, <1>8, MadeList
<1>10. ASSUME NEW x \in ToSet(cs)
       PROVE  /\ x.kind = "close" /\ x.date = ds[k].date /\ x.file = ds[k].file
              /\ ds[k].kind = "close" /\ x.acct \in A
  <2>1. PICK j \in DOMAIN subs : x = cs[j]
    BY <1>5 DEF ToSet
  <2>2. ds[k].kind = "close"
    BY <1>4, <2>1
  <2> QED BY <1>5, <1>6, <2>1, <2>2
<1>11. ASSUME ds[k].kind = "close", NEW a \in A
       PROVE  \E x \in ToSet(cs) : x.kind = "close" /\ x.date = ds[k].date /\ x.acct = a
  <2>1. PICK j \in DOMAIN subs : subs[j] = a
    BY <1>4, <1>11
  <2>2. cs[j] \in ToSet(cs)
    BY <1>5, <2>1 DEF ToSet
  <2> QED BY <1>5, <2>1, <2>2
<1> QED BY <1>2, <1>9, <1>10, <1>11 DEF A

LEMMA CloseTreeMakes ==
    ASSUME NEW ds \in Seq(AsRead), NEW T, T = After(CloseTree(ds), ToSet(ds))
    PROVE  T = ToSet(ds) \cup UNION {ToSet(Along(ds, k)) : k \in DOMAIN ds}
<1> DEFINE subs(k) == IF ds[k].kind = "close" THEN SetToSeq(Descendants(ds, k)) ELSE <<>>
           closes(k) == [j \in DOMAIN subs(k) |->
                           [kind |-> "close", date |-> ds[k].date, acct |-> subs(k)[j],
                            file |-> ds[k].file, off |-> ds[k].off]]
           ss == [k \in DOMAIN ds |-> <<ds[k]>> \o closes(k)]
           new == [k \in DOMAIN ds |-> Along(ds, k)]
<1>1. CloseTree(ds) = IF \A k \in DOMAIN ds : subs(k) = <<>> THEN NoChange
                      ELSE Changes(FlattenSeq(ss))
  BY DEF CloseTree
<1>2. \A k \in DOMAIN ds : closes(k) = Along(ds, k) /\ new[k] = Along(ds, k)
  BY DEF Along
<1>3. (\A k \in DOMAIN ds : subs(k) = <<>>) => \A k \in DOMAIN ds : Along(ds, k) = <<>>
  BY DEF Along
<1>4. ss = [k \in DOMAIN ds |-> ss[k]] /\ \A k \in DOMAIN ds : ss[k] = <<ds[k]>> \o closes(k)
  OBVIOUS
<1>5. CloseTree(ds) = Changes(FlattenSeq(ss))
      \/ (CloseTree(ds) = NoChange /\ \A k \in DOMAIN ds : Along(ds, k) = <<>>)
  BY <1>1, <1>3
<1>6. Woven(AsRead, ds, new, ss)
  <2> HIDE DEF ss, closes, new
  <2>1. \A k \in DOMAIN ds : new[k] \in Seq(AsRead) /\ ss[k] = <<ds[k]>> \o new[k]
    BY <1>2, <1>4, ClosedAlong
  <2> QED BY <1>4, <2>1 DEF Woven
<1> HIDE DEF ss, closes
<1>7. /\ FlattenSeq(ss) \in Seq(AsRead)
      /\ ToSet(FlattenSeq(ss)) = ToSet(ds) \cup UNION {ToSet(new[k]) : k \in DOMAIN ds}
  <2> HIDE DEF new
  <2> QED BY <1>6, Interleaved
<1>8. UNION {ToSet(new[k]) : k \in DOMAIN ds} = UNION {ToSet(Along(ds, k)) : k \in DOMAIN ds}
  BY <1>2
<1>9. CASE CloseTree(ds) = Changes(FlattenSeq(ss))
  BY <1>7, <1>8, <1>9, AfterChanges
<1>10. CASE CloseTree(ds) = NoChange /\ \A k \in DOMAIN ds : Along(ds, k) = <<>>
  <2>1. T = ToSet(ds)
    BY <1>10, AfterReports DEF NoChange
  <2>2. \A k \in DOMAIN ds : ToSet(Along(ds, k)) = {}
    BY <1>10 DEF ToSet
  <2>3. UNION {ToSet(Along(ds, k)) : k \in DOMAIN ds} = {}
    BY <2>2
  <2> QED BY <2>1, <2>3
<1> QED BY <1>5, <1>9, <1>10

LEMMA CloseTreeFollows ==
    ASSUME NEW ds \in Seq(AsRead), Canonical(ds), NEW T, T = After(CloseTree(ds), ToSet(ds))
    PROVE  Follows(ToSet(ds), T, {"close"}) /\ Trees(T)
<1> DEFINE N == UNION {ToSet(Along(ds, k)) : k \in DOMAIN ds}
           S == ToSet(ds)
<1>1. T = S \cup N
  BY CloseTreeMakes
<1>2. \A k \in DOMAIN ds : ds[k] \in S /\ ds[k] \in Directive
  BY ReadIsDirective DEF ToSet
<1>3. \A d \in S : \E k \in DOMAIN ds : d = ds[k]
  BY DEF ToSet
<1>4. \A x : x \in N <=> \E k \in DOMAIN ds : x \in ToSet(Along(ds, k))
  OBVIOUS
<1>5. ds \in Seq(Directive)
  BY ReadIsDirective
<1> HIDE DEF N, S
<1>6. \A x \in N : x.kind = "close" /\ \E d \in S : d.kind # "open" /\ d.file = x.file
  <2> SUFFICES ASSUME NEW k \in DOMAIN ds, NEW x \in ToSet(Along(ds, k))
               PROVE  x.kind = "close" /\ \E d \in S : d.kind # "open" /\ d.file = x.file
    BY <1>4
  <2>1. x.kind = "close" /\ x.file = ds[k].file /\ ds[k].kind = "close"
    BY ClosedAlong
  <2> QED BY <1>2, <2>1
<1>7. Follows(S, S \cup N, {"close"})
  BY <1>6, Growing
<1>8. ASSUME NEW k \in DOMAIN ds, ds[k].kind = "close", NEW a \in Below[ds[k].acct] \ {ds[k].acct},
             NEW o \in T, o.kind = "open", o.acct = a, o.date <= ds[k].date
      PROVE  \E b \in T : b.kind = "close" /\ b.acct = a /\ b.date <= ds[k].date
  <2>1. o \in S
    BY <1>1, <1>6, <1>8
  <2>2. PICK i \in DOMAIN ds : o = ds[i]
    BY <1>3, <2>1
  <2>3. OpenBefore(ds, k, a)
    BY <1>5, <1>8, <2>2, OpenedBefore
  <2>4. Takes(ds, k, a)
    BY <1>8, <2>3 DEF Takes
  <2>5. a \in Accounts
    BY <1>2, <1>8, <2>2, AccountOf
  <2>6. PICK j \in DOMAIN ds : /\ ds[j].kind = "close" /\ ds[j].date <= ds[k].date
                               /\ ds[j].acct = a \/ a \in Descendants(ds, j)
    BY <1>5, <1>8, <2>4, <2>5, TakenIsClosed
  <2>7. CASE ds[j].acct = a
    BY <1>1, <1>2, <2>6, <2>7
  <2>8. CASE a \in Descendants(ds, j)
    <3>1. PICK x \in ToSet(Along(ds, j)) : x.kind = "close" /\ x.date = ds[j].date /\ x.acct = a
      BY <2>6, <2>8, ClosedAlong
    <3>2. x \in T
      BY <1>1, <1>4, <3>1
    <3> QED BY <2>6, <3>1, <3>2
  <2> QED BY <2>6, <2>7, <2>8
<1>9. Trees(T)
  <2> SUFFICES ASSUME NEW c \in T, c.kind = "close", NEW a \in Below[c.acct] \ {c.acct},
                      NEW o \in T, o.kind = "open", o.acct = a, o.date <= c.date
               PROVE  \E b \in T : b.kind = "close" /\ b.acct = a /\ b.date <= c.date
    BY DEF Trees
  <2>1. CASE c \in S
    <3>1. PICK k \in DOMAIN ds : c = ds[k]
      BY <1>3, <2>1
    <3> QED BY <1>8, <3>1
  <2>2. CASE c \in N
    <3>1. PICK k \in DOMAIN ds : c \in ToSet(Along(ds, k))
      BY <1>4, <2>2
    <3>2. c.date = ds[k].date /\ ds[k].kind = "close" /\ c.acct \in Descendants(ds, k)
      BY <3>1, ClosedAlong
    <3>3. ds[k].acct \in Accounts /\ ds[k].date \in Nat
      BY <1>2, <3>2, AccountOf, DirectiveHas
    <3>4. c.acct \in Below[ds[k].acct]
      BY <3>2 DEF Descendants, Takes
    <3>5. a \in Below[ds[k].acct]
      BY <3>3, <3>4, BelowIsATree
    <3>6. CASE a = ds[k].acct
      <4>1. ds[k].date <= c.date
        BY <3>2, <3>3
      <4> QED BY <1>1, <1>2, <3>2, <3>6, <4>1
    <3>7. CASE a # ds[k].acct
      <4>1. /\ a \in Below[ds[k].acct] \ {ds[k].acct} /\ ds[k].kind = "close"
            /\ o \in T /\ o.kind = "open" /\ o.acct = a /\ o.date <= ds[k].date
        BY <3>2, <3>5, <3>7
      <4>2. \E b \in T : b.kind = "close" /\ b.acct = a /\ b.date <= ds[k].date
        BY <1>8, <4>1
      <4> QED BY <3>2, <4>2
    <3> QED BY <3>6, <3>7
  <2> QED BY <1>1, <2>1, <2>2
<1> QED BY <1>1, <1>7, <1>9 DEF S
-----------------------------------------------------------------------------
\* The prices a transaction implies have its rates.
LEMMA ImpliedRates ==
    ASSUME NEW t \in Directive, t.kind = "txn"
    PROVE  /\ \A x \in ToSet(Implied(t)) : /\ x.kind = "price" /\ x.file = t.file
                                           /\ Rate(x) \in Rates(t)
           /\ \A r \in Rates(t) : \E x \in ToSet(Implied(t)) : Rate(x) = r
<1> DEFINE K == {k \in DOMAIN t.posts : HasPrice(t.posts[k])}
           ps == Those(t.posts, K)
           prices == [k \in DOMAIN ps |-> [kind |-> "price", date |-> t.date, file |-> t.file,
                              off |-> t.off, com |-> ps[k].cur,
                              num |-> PerUnit(ps[k]).num, cur |-> PerUnit(ps[k]).cur]]
           R(p) == <<t.date, p.cur, PerUnit(p).cur, PerUnit(p).num>>
<1>1. t.posts \in Seq(Posting)
  BY PostsOfTransaction
<1>2. prices = Implied(t)
  BY DEF Implied
<1>3. Rates(t) = {R(t.posts[k]) : k \in K}
  BY DEF Rates
<1>4. K \in SUBSET DOMAIN t.posts
  OBVIOUS
<1> HIDE DEF K
<1>5. ToSet(ps) = {t.posts[k] : k \in K}
  BY <1>1, <1>4, ThoseHold
<1> HIDE DEF ps
<1>6. DOMAIN prices = DOMAIN ps
      /\ \A k \in DOMAIN ps : /\ prices[k].kind = "price" /\ prices[k].file = t.file
                              /\ Rate(prices[k]) = R(ps[k])
  BY DEF Rate
<1> HIDE DEF prices, R
<1>7. ASSUME NEW x \in ToSet(prices)
      PROVE  x.kind = "price" /\ x.file = t.file /\ Rate(x) \in Rates(t)
  <2>1. PICK k \in DOMAIN ps : x = prices[k]
    BY <1>6 DEF ToSet
  <2>2. PICK i \in K : ps[k] = t.posts[i]
    BY <1>5 DEF ToSet
  <2> QED BY <1>3, <1>6, <2>1, <2>2
<1>8. ASSUME NEW r \in Rates(t) PROVE \E x \in ToSet(prices) : Rate(x) = r
  <2>1. PICK i \in K : r = R(t.posts[i])
    BY <1>3
  <2>2. PICK k \in DOMAIN ps : ps[k] = t.posts[i]
    BY <1>5, <2>1 DEF ToSet
  <2>3. prices[k] \in ToSet(prices)
    BY <1>6, <2>2 DEF ToSet
  <2> QED BY <1>6, <2>1, <2>2, <2>3
<1> QED BY <1>2, <1>7, <1>8

LEMMA FreshRates ==
    ASSUME NEW t \in Directive, t.kind = "txn", NEW rates
    PROVE  /\ \A x \in ToSet(Fresh(t, rates)) : x.kind = "price" /\ x.file = t.file
           /\ \A r \in Rates(t) : r \notin rates => \E x \in ToSet(Fresh(t, rates)) :
                 x.kind = "price" /\ Rate(x) = r
<1> DEFINE ps == Implied(t)
           K == {i \in DOMAIN ps : Rate(ps[i]) \notin rates \cup {Rate(ps[j]) : j \in 1..(i - 1)}}
<1>1. ps \in Seq(AsRead)
  BY ImpliedTypes
<1>2. Fresh(t, rates) = Those(ps, K)
  BY DEF Fresh
<1>3. /\ \A x \in ToSet(ps) : x.kind = "price" /\ x.file = t.file
      /\ \A r \in Rates(t) : \E x \in ToSet(ps) : Rate(x) = r
  BY ImpliedRates
<1> HIDE DEF ps
<1>4. K \in SUBSET DOMAIN ps
  OBVIOUS
<1>5. ASSUME NEW r, r \notin rates, NEW i \in DOMAIN ps, Rate(ps[i]) = r,
             \A j \in DOMAIN ps : Rate(ps[j]) = r => i <= j
      PROVE  i \in K
  <2>1. DOMAIN ps = 1 .. Len(ps) /\ Len(ps) \in Nat /\ i \in Nat
    BY <1>1
  <2>2. ASSUME NEW j \in 1 .. i - 1, Rate(ps[j]) = r PROVE FALSE
    <3>1. j \in DOMAIN ps /\ j < i /\ j \in Nat
      BY <2>1
    <3> QED BY <1>5, <2>1, <2>2, <3>1
  <2>3. r \notin {Rate(ps[j]) : j \in 1..(i - 1)}
    BY <2>2
  <2> QED BY <1>5, <2>3
<1> HIDE DEF K
<1>6. ToSet(Those(ps, K)) = {ps[k] : k \in K}
  BY <1>1, <1>4, ThoseHold
<1>7. \A x \in ToSet(Those(ps, K)) : x.kind = "price" /\ x.file = t.file
  BY <1>3, <1>4, <1>6 DEF ToSet
<1>8. ASSUME NEW r \in Rates(t), r \notin rates
      PROVE  \E x \in ToSet(Those(ps, K)) : x.kind = "price" /\ Rate(x) = r
  <2> DEFINE J == {i \in DOMAIN ps : Rate(ps[i]) = r}
  <2>1. J # {}
    BY <1>3 DEF ToSet
  <2>2. J \in SUBSET DOMAIN ps
    OBVIOUS
  <2>3. \A i : i \in J <=> i \in DOMAIN ps /\ Rate(ps[i]) = r
    OBVIOUS
  <2> HIDE DEF J
  <2>4. PICK i \in J : \A j \in J : i <= j
    BY <1>1, <2>1, <2>2, FirstIndex
  <2>5. i \in K
    BY <1>5, <1>8, <2>3, <2>4
  <2>6. ps[i] \in ToSet(Those(ps, K)) /\ Rate(ps[i]) = r
    BY <1>6, <2>3, <2>4, <2>5
  <2> QED BY <1>7, <2>6
<1> QED BY <1>2, <1>7, <1>8

LEMMA ImplicitPricesFollows ==
    ASSUME NEW ds \in Seq(AsRead), NEW T, T = After(ImplicitPrices(ds), ToSet(ds))
    PROVE  Follows(ToSet(ds), T, {"price"}) /\ Priced(T)
<1> DEFINE rates(k) == {Rate(d) : d \in UNION {ToSet(Implied(ds[j])) :
                                   j \in {i \in Kinds(ds, "txn") : i < k}}}
           new == [k \in DOMAIN ds |-> IF ds[k].kind = "txn" THEN Fresh(ds[k], rates(k)) ELSE <<>>]
           ss == [k \in DOMAIN ds |-> <<ds[k]>> \o new[k]]
           N == UNION {ToSet(new[k]) : k \in DOMAIN ds}
           S == ToSet(ds)
<1>1. \A k \in DOMAIN ds : ds[k] \in S /\ ds[k] \in AsRead /\ ds[k] \in Directive
  BY ReadIsDirective DEF ToSet
<1>2. ImplicitPrices(ds) = Changes(FlattenSeq(ss))
  BY DEF ImplicitPrices
<1>3. \A k \in DOMAIN ds : /\ ds[k].kind = "txn" => new[k] = Fresh(ds[k], rates(k))
                           /\ ds[k].kind # "txn" => new[k] = <<>>
  OBVIOUS
<1>4. \A k \in DOMAIN ds : \A r \in rates(k) : \E j \in Kinds(ds, "txn") :
          j < k /\ \E d \in ToSet(Implied(ds[j])) : r = Rate(d)
  OBVIOUS
<1>5. ss = [k \in DOMAIN ds |-> ss[k]] /\ \A k \in DOMAIN ds : ss[k] = <<ds[k]>> \o new[k]
  OBVIOUS
<1>6. \A x : x \in N <=> \E k \in DOMAIN ds : x \in ToSet(new[k])
  OBVIOUS
<1> HIDE DEF ss, new, rates
<1>7. ASSUME NEW k \in DOMAIN ds
      PROVE  /\ new[k] \in Seq(AsRead)
             /\ \A x \in ToSet(new[k]) : x.kind = "price" /\ x.file = ds[k].file /\ ds[k].kind = "txn"
             /\ ds[k].kind = "txn" => \A r \in Rates(ds[k]) : r \notin rates(k) =>
                   \E x \in ToSet(new[k]) : x.kind = "price" /\ Rate(x) = r
  <2>1. CASE ds[k].kind = "txn"
    <3>1. new[k] = Fresh(ds[k], rates(k))
      BY <1>3, <2>1
    <3>2. Fresh(ds[k], rates(k)) \in Seq(AsRead)
      BY <1>1, <2>1, FreshTypes
    <3> DEFINE t == ds[k]
               rs == rates(k)
    <3>3. t \in Directive /\ t.kind = "txn"
      BY <1>1, <2>1
    <3> HIDE DEF t, rs
    <3>4. /\ \A x \in ToSet(Fresh(t, rs)) : x.kind = "price" /\ x.file = t.file
          /\ \A r \in Rates(t) : r \notin rs => \E x \in ToSet(Fresh(t, rs)) :
                 x.kind = "price" /\ Rate(x) = r
      BY <3>3, FreshRates
    <3>5. /\ \A x \in ToSet(Fresh(ds[k], rates(k))) : x.kind = "price" /\ x.file = ds[k].file
          /\ \A r \in Rates(ds[k]) : r \notin rates(k) => \E x \in ToSet(Fresh(ds[k], rates(k))) :
                 x.kind = "price" /\ Rate(x) = r
      BY <3>4 DEF t, rs
    <3> QED BY <2>1, <3>1, <3>2, <3>5
  <2>2. CASE ds[k].kind # "txn"
    <3>1. new[k] = <<>>
      BY <1>3, <2>2
    <3>2. ToSet(<<>>) = {}
      BY DEF ToSet
    <3> QED BY <2>2, <3>1, <3>2
  <2> QED BY <2>1, <2>2
<1>8. Woven(AsRead, ds, new, ss)
  BY <1>5, <1>7 DEF Woven
<1>9. /\ FlattenSeq(ss) \in Seq(AsRead)
      /\ ToSet(FlattenSeq(ss)) = ToSet(ds) \cup UNION {ToSet(new[k]) : k \in DOMAIN ds}
  BY <1>8, Interleaved
<1>10. T = S \cup N
  BY <1>2, <1>9, AfterChanges
<1> HIDE DEF N
<1>11. \A d \in S : \E k \in DOMAIN ds : d = ds[k]
  BY DEF ToSet
<1> HIDE DEF S
<1>12. \A x \in N : x.kind = "price" /\ \E d \in S : d.kind # "open" /\ d.file = x.file
  BY <1>1, <1>6, <1>7
<1>13. Follows(S, S \cup N, {"price"})
  BY <1>12, Growing
<1>14. Priced(T)
  <2> SUFFICES ASSUME NEW t \in T, t.kind = "txn", NEW r \in Rates(t)
               PROVE  \E x \in T : x.kind = "price" /\ Rate(x) = r
    BY DEF Priced
  <2> DEFINE K == {k \in DOMAIN ds : ds[k].kind = "txn" /\ r \in Rates(ds[k])}
  <2>1. t \in S
    BY <1>10, <1>12
  <2>2. K # {} /\ K \in SUBSET DOMAIN ds
    BY <1>11, <2>1
  <2>3. \A k : k \in K <=> k \in DOMAIN ds /\ ds[k].kind = "txn" /\ r \in Rates(ds[k])
    OBVIOUS
  <2> HIDE DEF K
  <2>4. PICK k \in K : \A j \in K : k <= j
    BY <2>2, FirstIndex
  <2>5. k \in DOMAIN ds /\ ds[k].kind = "txn" /\ r \in Rates(ds[k])
    BY <2>3, <2>4
  <2>6. r \notin rates(k)
    <3> SUFFICES ASSUME r \in rates(k) PROVE FALSE
      OBVIOUS
    <3>1. PICK j \in Kinds(ds, "txn") : j < k /\ \E d \in ToSet(Implied(ds[j])) : r = Rate(d)
      BY <1>4, <2>5
    <3>2. j \in DOMAIN ds /\ ds[j].kind = "txn"
      BY DEF Kinds
    <3>3. r \in Rates(ds[j])
      BY <1>1, <3>1, <3>2, ImpliedRates
    <3>4. k <= j /\ j \in Nat /\ k \in Nat
      BY <2>3, <2>4, <2>5, <3>2, <3>3
    <3> QED BY <3>1, <3>4
  <2>7. PICK x \in ToSet(new[k]) : x.kind = "price" /\ Rate(x) = r
    BY <1>7, <2>5, <2>6
  <2>8. x \in T
    BY <1>6, <1>10, <2>5, <2>7
  <2> QED BY <2>7, <2>8
<1> QED BY <1>10, <1>13, <1>14 DEF S

\* unique_prices, on a ledger that has its implied prices.
LEMMA UniquePricesCompares ==
    ASSUME NEW ds \in Seq(AsRead), NEW p, Sited(ToSet(ds)), Priced(ToSet(ds))
    PROVE  Compared(ToSet(ds), ToSet(UniquePrices(p, ds).findings))
<1> DEFINE pair(k) == <<ds[k].date, ds[k].com, ds[k].cur>>
           differs(k) ==
              /\ ds[k].kind = "price"
              /\ \E j \in Kinds(ds, "price") :
                    /\ pair(j) = pair(k) /\ ds[j].num # ds[k].num
                    /\ \A i \in Kinds(ds, "price") : pair(i) = pair(k) => j <= i
           K == {k \in DOMAIN ds : differs(k)}
           bad == Those(ds, K)
           fs == [k \in DOMAIN bad |-> Finding("duplicate-price", At(bad[k], p), bad[k].com)]
           S == ToSet(ds)
<1>1. UniquePrices(p, ds).findings = fs
  BY DEF UniquePrices, Reports
<1>2. K \in SUBSET DOMAIN ds
  OBVIOUS
<1>3. \A k \in DOMAIN ds : differs(k) => k \in K
  OBVIOUS
<1> HIDE DEF K
<1>4. ToSet(bad) = {ds[k] : k \in K}
  BY <1>2, ThoseHold
<1> HIDE DEF bad
<1>5. DOMAIN fs = DOMAIN bad
      /\ \A k \in DOMAIN bad : fs[k] = Finding("duplicate-price", At(bad[k], p), bad[k].com)
  OBVIOUS
<1> HIDE DEF fs
<1>6. \A k \in DOMAIN ds : ds[k] \in S
  BY DEF ToSet
<1>7. \A x \in S : \E k \in DOMAIN ds : x = ds[k]
  BY DEF ToSet
<1>8. ASSUME NEW k \in DOMAIN ds, differs(k)
      PROVE  \E f \in ToSet(fs) : f.code = "duplicate-price" /\ f.span = Span(ds[k])
  <2>1. PICK i \in DOMAIN bad : bad[i] = ds[k]
    BY <1>3, <1>4, <1>8 DEF ToSet
  <2>2. ds[k].file # NoFile
    BY <1>6, <1>8 DEF Sited
  <2>3. Span(ds[k]) # Span(NoSpan)
    BY <2>2 DEF Span, NoSpan
  <2>4. fs[i] = Finding("duplicate-price", ds[k], ds[k].com)
    BY <1>5, <2>1, <2>3 DEF At
  <2>5. fs[i] \in ToSet(fs)
    BY <1>5, <2>1 DEF ToSet
  <2> QED BY <2>4, <2>5 DEF Finding
<1> SUFFICES ASSUME NEW t \in S, NEW u \in S, t.kind = "txn", u.kind = "txn",
                    NEW r \in Rates(t), NEW s \in Rates(u),
                    r[1] = s[1] /\ r[2] = s[2] /\ r[3] = s[3] /\ r[4] # s[4]
             PROVE  Mentions(ToSet(fs), S, r)
  BY <1>1 DEF Compared
<1>9. PICK x \in S : x.kind = "price" /\ Rate(x) = r
  BY DEF Priced
<1>10. PICK y \in S : y.kind = "price" /\ Rate(y) = s
  BY DEF Priced
<1>11. PICK k \in DOMAIN ds : x = ds[k]
  BY <1>7
<1>12. PICK l \in DOMAIN ds : y = ds[l]
  BY <1>7
<1>13. /\ pair(k) = <<r[1], r[2], r[3]>> /\ pair(l) = pair(k)
       /\ ds[k].num = r[4] /\ ds[l].num = s[4]
       /\ k \in Kinds(ds, "price") /\ l \in Kinds(ds, "price")
  BY <1>9, <1>10, <1>11, <1>12 DEF Rate, Kinds
<1> DEFINE J == {i \in Kinds(ds, "price") : pair(i) = pair(k)}
<1>14. J \in SUBSET DOMAIN ds /\ k \in J
  BY <1>13 DEF Kinds
<1>15. \A i : i \in J <=> i \in Kinds(ds, "price") /\ pair(i) = pair(k)
  OBVIOUS
<1> HIDE DEF J, pair
<1>16. PICK j \in J : \A i \in J : j <= i
  BY <1>14, FirstIndex
<1>17. \E i \in {k, l} : differs(i)
  <2>1. ds[j].num # ds[k].num \/ ds[j].num # ds[l].num
    BY <1>13
  <2>2. ds[k].kind = "price" /\ ds[l].kind = "price"
    BY <1>13 DEF Kinds
  <2> QED BY <1>13, <1>15, <1>16, <2>1, <2>2
<1>18. PICK i \in {k, l} : differs(i)
  BY <1>17
<1>19. PICK f \in ToSet(fs) : f.code = "duplicate-price" /\ f.span = Span(ds[i])
  BY <1>8, <1>11, <1>12, <1>18
<1>20. ds[i].date = r[1] /\ ds[i].com = r[2] /\ ds[i].cur = r[3] /\ ds[i].kind = "price" /\ ds[i] \in S
  BY <1>6, <1>13, <1>18 DEF pair, Kinds
<1> QED BY <1>19, <1>20 DEF Mentions
-----------------------------------------------------------------------------
\* What every standard plugin does, put together.
Plays(p, S, T, F, kinds) ==
    /\ Follows(S, T, kinds) /\ "plugin" \notin kinds
    /\ "close" \in kinds => p.name = "close_tree"
    /\ "open" \in kinds => p.name = "auto_accounts"
    /\ p.name = "check_drained" => Drained(T)
    /\ p.name = "close_tree" => Trees(T)
    /\ p.name = "implicit_prices" => Priced(T)
    /\ p.name = "unique_prices" /\ Priced(S) => Compared(T, F)

LEMMA ReportsOnly ==
    ASSUME NEW p, NEW fs, NEW S, NEW F,
           p.name \notin {"check_drained", "close_tree", "implicit_prices", "unique_prices"}
    PROVE  Plays(p, S, After(Reports(fs), S), F, {})
BY FollowsItself, AfterReports DEF Plays

LEMMA ApplyPlays ==
    ASSUME NEW ds \in Seq(AsRead), NEW p, p.name \in Standard, Canonical(ds), Sited(ToSet(ds))
    PROVE  \E kinds : Plays(p, ToSet(ds), After(Apply(p, ds), ToSet(ds)),
                            ToSet(Apply(p, ds).findings), kinds)
<1> DEFINE S == ToSet(ds)
           F == ToSet(Apply(p, ds).findings)
<1> HIDE DEF F
<1>1. CASE p.name = "auto_accounts"
  <2>1. Apply(p, ds) = AutoAccounts(ds)
    BY <1>1 DEF Apply
  <2>2. Follows(S, After(AutoAccounts(ds), S), {"open"})
    BY AutoAccountsFollows
  <2>3. Plays(p, S, After(Apply(p, ds), S), F, {"open"})
    BY <1>1, <2>1, <2>2 DEF Plays
  <2> QED BY <2>3 DEF F
<1>2. CASE p.name = "check_closing"
  <2>1. Apply(p, ds) = CheckClosing(ds)
    BY <1>2 DEF Apply
  <2>2. Follows(S, After(CheckClosing(ds), S), {"balance"})
    BY CheckClosingFollows
  <2>3. Plays(p, S, After(Apply(p, ds), S), F, {"balance"})
    BY <1>2, <2>1, <2>2 DEF Plays
  <2> QED BY <2>3 DEF F
<1>3. CASE p.name = "check_drained"
  <2>1. Apply(p, ds) = CheckDrained(ds)
    BY <1>3 DEF Apply
  <2>2. Follows(S, After(CheckDrained(ds), S), {"balance"}) /\ Drained(After(CheckDrained(ds), S))
    BY DrainedFollows
  <2>3. Plays(p, S, After(Apply(p, ds), S), F, {"balance"})
    BY <1>3, <2>1, <2>2 DEF Plays
  <2> QED BY <2>3 DEF F
<1>4. CASE p.name = "close_tree"
  <2>1. Apply(p, ds) = CloseTree(ds)
    BY <1>4 DEF Apply
  <2>2. Follows(S, After(CloseTree(ds), S), {"close"}) /\ Trees(After(CloseTree(ds), S))
    BY CloseTreeFollows
  <2>3. Plays(p, S, After(Apply(p, ds), S), F, {"close"})
    BY <1>4, <2>1, <2>2 DEF Plays
  <2> QED BY <2>3 DEF F
<1>5. CASE p.name = "exclude_tag"
  <2>1. Apply(p, ds) = ExcludeTag(p, ds)
    BY <1>5 DEF Apply
  <2>2. Follows(S, After(ExcludeTag(p, ds), S), {})
    BY ExcludeTagFollows
  <2>3. Plays(p, S, After(Apply(p, ds), S), F, {})
    BY <1>5, <2>1, <2>2 DEF Plays
  <2> QED BY <2>3 DEF F
<1>6. CASE p.name = "implicit_prices"
  <2>1. Apply(p, ds) = ImplicitPrices(ds)
    BY <1>6 DEF Apply
  <2>2. Follows(S, After(ImplicitPrices(ds), S), {"price"}) /\ Priced(After(ImplicitPrices(ds), S))
    BY ImplicitPricesFollows
  <2>3. Plays(p, S, After(Apply(p, ds), S), F, {"price"})
    BY <1>6, <2>1, <2>2 DEF Plays
  <2> QED BY <2>3 DEF F
<1>7. CASE p.name = "unique_prices"
  <2>1. Apply(p, ds) = UniquePrices(p, ds)
    BY <1>7 DEF Apply
  <2>2. After(UniquePrices(p, ds), S) = S
    BY AfterReports DEF UniquePrices
  <2>3. Priced(S) => Compared(S, F)
    BY <2>1, UniquePricesCompares DEF F
  <2>4. Plays(p, S, After(Apply(p, ds), S), F, {})
    BY <1>7, <2>1, <2>2, <2>3, FollowsItself DEF Plays
  <2> QED BY <2>4 DEF F
<1>8. CASE p.name \notin {"auto_accounts", "check_closing", "check_drained", "close_tree",
                          "exclude_tag", "implicit_prices", "unique_prices"}
  <2>1. \E fs : Apply(p, ds) = Reports(fs)
    <3>1. \E fs : LeafOnly(p, ds) = Reports(fs)
      BY DEF LeafOnly
    <3>2. \E fs : NoDuplicates(p, ds) = Reports(fs)
      BY DEF NoDuplicates
    <3>3. \E fs : NoUnused(p, ds) = Reports(fs)
      BY DEF NoUnused
    <3>4. \E fs : CoherentCost(p, ds) = Reports(fs)
      BY DEF CoherentCost
    <3>5. \E fs : CheckCommodity(p, ds) = Reports(fs)
      <4> DEFINE r == CheckCommodity(p, ds)
      <4>1. CASE p.config = Malformed
        BY <4>1 DEF CheckCommodity
      <4>2. CASE p.config # Malformed
        BY <4>2 DEF CheckCommodity
      <4> QED BY <4>1, <4>2
    <3>6. \E fs : OneCommodity(p, ds) = Reports(fs)
      BY DEF OneCommodity
    <3>7. \E fs : SellGains(p, ds) = Reports(fs)
      BY DEF SellGains
    <3>8. Apply(p, ds) \in {LeafOnly(p, ds), NoDuplicates(p, ds), NoUnused(p, ds),
                            CoherentCost(p, ds), CheckCommodity(p, ds), OneCommodity(p, ds),
                            SellGains(p, ds)}
      BY <1>8 DEF Apply, Standard
    <3> QED BY <3>1, <3>2, <3>3, <3>4, <3>5, <3>6, <3>7, <3>8
  <2>2. PICK fs : Apply(p, ds) = Reports(fs)
    BY <2>1
  <2>3. Plays(p, S, After(Reports(fs), S), F, {})
    BY <1>8, ReportsOnly
  <2> QED BY <2>2, <2>3 DEF F
<1> QED BY <1>1, <1>2, <1>3, <1>4, <1>5, <1>6, <1>7, <1>8
-----------------------------------------------------------------------------
(* A directive that has been read is the item at its place in its file.    *)
Located(f, k) == [disk[f][k] EXCEPT !.file = f, !.off = k]
Lies(w) == w.item.kind \in DOMAIN Rank => /\ w.file \in DOMAIN disk
                                          /\ w.item = disk[w.file][w.off]
Comes(d) == d.file \in DOMAIN disk /\ d = Located(d.file, d.off)
PlacedInv ==
    /\ \A w \in ToSet(todo) : Lies(w)
    /\ \A d \in ToSet(directives) : Comes(d)

LEMMA PlacedAt ==
    ASSUME NEW d \in AsRead, NEW f \in FileName, NEW n \in Nat
    PROVE  [d EXCEPT !.file = f, !.off = n].file = f /\ [d EXCEPT !.file = f, !.off = n].off = n
<1> DEFINE e == [d EXCEPT !.file = f, !.off = n]
           P == e.file = f /\ e.off = n
<1>1. d \in Directive
  BY DEF AsRead
<1>2. d \in PluginType \cup OpenType \cup CloseType => P
  BY DEF PluginType, OpenType, CloseType
<1>3. d \in BalanceType \cup PadType \cup TransactionType => P
  BY DEF BalanceType, PadType, TransactionType
<1>4. d \in DocumentType \cup CommodityType \cup PriceType => P
  BY DEF DocumentType, CommodityType, PriceType
<1> QED BY ONLY <1>1, <1>2, <1>3, <1>4 DEF Directive, P, e

LEMMA PlacedStays ==
    ASSUME PlacedInv, UNCHANGED <<disk, todo, directives>>
    PROVE  PlacedInv'
BY DEF PlacedInv, Lies, Comes, Located

\* What is visited next leaves the list, and w comes in its place.
LEMMA PlacedNext ==
    ASSUME LoadInv, PlacedInv, stage = "load", todo # <<>>, disk' = disk,
           NEW ws \in Seq(Work), \A w \in ToSet(ws) : Lies(w),
           todo' = ws \o Tail(todo),
           \A d \in ToSet(directives') : Comes(d)
    PROVE  PlacedInv'
<1>1. todo \in Seq(Work)
  BY DEF LoadInv, Asked
<1>2. Tail(todo) \in Seq(Work) /\ ToSet(Tail(todo)) \subseteq ToSet(todo)
  BY <1>1, TailOf
<1> DEFINE ts == Tail(todo)
<1>3. ToSet(ws \o Tail(todo)) = ToSet(ws) \cup ToSet(Tail(todo))
  <2>1. ts \in Seq(Work)
    BY <1>2
  <2> HIDE DEF ts
  <2>2. ws \in Seq(ToSet(ws)) /\ ts \in Seq(ToSet(ts))
    BY <2>1, Itemized
  <2>3. ToSet(ws \o ts) = ToSet(ws) \cup ToSet(ts)
    BY <2>2, JoinedItems
  <2> QED BY <2>3 DEF ts
<1>4. \A w \in ToSet(todo') : Lies(w)
  BY <1>2, <1>3 DEF PlacedInv
<1>5. (\A w : Lies(w)' <=> Lies(w)) /\ (\A d : Comes(d)' <=> Comes(d))
  BY DEF Lies, Comes, Located
<1>6. ToSet(todo)' = ToSet(todo') /\ ToSet(directives)' = ToSet(directives')
  BY DEF ToSet
<1> QED BY <1>4, <1>5, <1>6 DEF PlacedInv

LEMMA PlacedFile ==
    ASSUME LoadInv, PlacedInv, stage = "load", todo # <<>>, disk' = disk, NEW f, LoadFile(f),
           UNCHANGED directives
    PROVE  PlacedInv'
<1>1. \A d \in ToSet(directives') : Comes(d)
  BY DEF PlacedInv
<1>2. CASE f \in DOMAIN disk
  <2>1. todo' = Lowered(f) \o Tail(todo)
    BY <1>2 DEF LoadFile
  <2>2. Lowered(f) \in Seq(Work)
    BY <1>2, AheadOfFile DEF LoadInv
  <2>3. \A w \in ToSet(Lowered(f)) : Lies(w)
    BY <1>2 DEF Lowered, ToSet, Lies
  <2> QED BY <1>1, <2>1, <2>2, <2>3, PlacedNext
<1>3. CASE f \notin DOMAIN disk
  <2>1. todo' = Tail(todo) /\ Tail(todo) \in Seq(Work)
    BY <1>3, TailOf DEF LoadFile, LoadInv, Asked
  <2>2. todo' = <<>> \o Tail(todo) /\ <<>> \in Seq(Work) /\ \A w \in ToSet(<<>>) : Lies(w)
    BY <2>1 DEF ToSet
  <2> QED BY <1>1, <2>2, PlacedNext
<1> QED BY <1>2, <1>3

LEMMA PlacedLoading ==
    ASSUME LoadInv, Typed, PlacedInv, Loading
    PROVE  PlacedInv'
<1>1. stage = "load" /\ todo # <<>> /\ disk' = disk
  BY DEF Loading, ReadDirective, IncludeFile, ExpandGlob, IncludeMatch, Visiting, LoadFrame, inputs
<1>2. todo \in Seq(Work) /\ Tail(todo) \in Seq(Work) /\ Head(todo) \in Work
      /\ Head(todo) \in ToSet(todo)
  BY <1>1, TailOf, AheadOfHeadAndTail DEF LoadInv, Asked
<1>3. ASSUME todo' = Tail(todo), \A d \in ToSet(directives') : Comes(d) PROVE PlacedInv'
  <2>1. todo' = <<>> \o Tail(todo) /\ <<>> \in Seq(Work) /\ \A w \in ToSet(<<>>) : Lies(w)
    BY <1>2, <1>3 DEF ToSet
  <2> QED BY <1>1, <1>3, <2>1, PlacedNext
<1>4. ASSUME UNCHANGED directives PROVE \A d \in ToSet(directives') : Comes(d)
  BY <1>4 DEF PlacedInv
<1>5. CASE ReadDirective
  <2>1. Item.kind \in DOMAIN Rank /\ todo' = Tail(todo)
    BY <1>5 DEF ReadDirective, Visiting
  <2>2. Item \in Items /\ Head(todo).file \in FileName /\ Head(todo).off \in Nat
    BY <1>2, <2>1 DEF Work, Item, Rank
  <2>3. Item \in AsRead
    BY <2>1, <2>2, ItemsAreDirectives
  <2>4. Lies(Head(todo))
    BY <1>2 DEF PlacedInv
  <2>5. Head(todo).file \in DOMAIN disk /\ Item = disk[Head(todo).file][Head(todo).off]
    BY <2>1, <2>4 DEF Lies, Item
  <2> DEFINE f == Head(todo).file
             n == Head(todo).off
             e == [Item EXCEPT !.file = f, !.off = n]
  <2>6. e = Located(f, n)
    BY <2>5 DEF Located
  <2>7. e.file = f /\ e.off = n
    BY <2>2, <2>3, PlacedAt
  <2>8. directives' = Append(directives, e) /\ directives \in Seq(AsRead) /\ e \in AsRead
    BY <1>5, <2>2, <2>3, PlacedRead DEF ReadDirective, Typed, ListsInv
  <2>9. f \in DOMAIN disk
    BY <2>5
  <2> HIDE DEF e, f, n
  <2>10. Comes(e)
    BY <2>6, <2>7, <2>9 DEF Comes
  <2>11. directives' = directives \o <<e>> /\ <<e>> \in Seq(AsRead)
    BY <2>8
  <2>12. ToSet(directives') = ToSet(directives) \cup ToSet(<<e>>) /\ ToSet(<<e>>) = {e}
    <3>1. ToSet(<<e>>) = {e}
      BY DEF ToSet
    <3> QED BY <2>8, <2>11, <3>1, Joined
  <2>13. \A d \in ToSet(directives') : Comes(d)
    BY <2>10, <2>12 DEF PlacedInv
  <2> QED BY <1>3, <2>1, <2>13
<1>6. CASE IncludeFile \/ IncludeMatch
  <2>1. UNCHANGED directives /\ (todo' = Tail(todo) \/ LoadFile(Item.path))
    BY <1>6 DEF IncludeFile, IncludeMatch, Skip
  <2>2. CASE todo' = Tail(todo)
    BY <1>3, <1>4, <2>1, <2>2
  <2>3. CASE LoadFile(Item.path)
    BY <1>1, <2>1, <2>3, PlacedFile
  <2> QED BY <2>1, <2>2, <2>3
<1>7. CASE ExpandGlob
  <2> DEFINE p == Item.paths
             list == [k \in DOMAIN p |-> Match(p[k], Head(todo))]
  <2>1. Item.kind = "glob" /\ todo' = list \o Tail(todo) /\ UNCHANGED directives
    BY <1>7 DEF ExpandGlob, Visiting
  <2>2. Item \in Items
    BY <1>2, <2>1 DEF Work, Item
  <2>3. list \in Seq(Work)
    BY <1>2, <2>1, <2>2, ItemsAskForFiles, AheadOfMatches
  <2>4. \A w \in ToSet(list) : Lies(w)
    <3>1. \A k \in DOMAIN list : list[k].item.kind = "match"
      BY DEF Match
    <3> HIDE DEF list
    <3>2. \A w \in ToSet(list) : w.item.kind = "match"
      BY <3>1 DEF ToSet
    <3> QED BY <3>2 DEF Lies, Rank
  <2> HIDE DEF list
  <2> QED BY <1>1, <1>4, <2>1, <2>3, <2>4, PlacedNext
<1> QED BY <1>5, <1>6, <1>7 DEF Loading

LEMMA LoadedStays ==
    ASSUME [Next]_vars, ~Loading
    PROVE  UNCHANGED <<disk, todo, directives>>
<1>1. CASE FinishLoading \/ Cancel \/ Canceled \/ VerifyDocuments \/ Book \/ BookingHalts
           \/ UNCHANGED vars
  BY <1>1 DEF FinishLoading, Cancel, Canceled, Fail, VerifyDocuments, Book, BookingHalts,
     PassFrame, vars, loadVars, inputs
<1>2. CASE RunPlugins
  BY <1>2 DEF RunPlugins, UnknownPlugin, RunPlugin, PluginCanceled, PluginChangesNothing,
     PluginFails, EndPlugins, PluginAdds, PluginRemoves, Host, NextPlugin, Fail, PassFrame,
     loadVars, inputs
<1>3. CASE Pad
  BY <1>3 DEF Pad, BeginPad, PadTransaction, RecordPad, NoPad, AlreadyPadded,
     NothingMissing, HeldAtCost, InsertPadding, PadPasses, EndPad, InForce, Asserts, PadFrame,
     WalkFrame, loadVars, inputs
<1>4. CASE Balance \/ Validations
  BY <1>4 DEF Balance, BeginBalance, BalanceTransaction, CheckBalance, BalancePasses,
     EndBalance, BalanceFrame, WalkFrame, loadVars, inputs,
     Validations, BeginValidations, ValidateEntry, EndValidations, PassFrame
<1> QED BY <1>1, <1>2, <1>3, <1>4 DEF Next, Ended

LEMMA PlacedKept ==
    ASSUME LoadInv, Typed, PlacedInv, [Next]_vars
    PROVE  PlacedInv'
<1>1. CASE Loading
  BY <1>1, PlacedLoading
<1>2. CASE ~Loading
  BY <1>2, LoadedStays, PlacedStays
<1> QED BY <1>1, <1>2

LEMMA PlacedStart ==
    ASSUME Init
    PROVE  PlacedInv
<1> DEFINE w == Include(Root)
<1>1. todo = <<w>> /\ directives = <<>> /\ w.item.kind = "include"
  BY DEF Init, Include
<1> HIDE DEF w
<1>2. Lies(w)
  BY <1>1 DEF Lies, Rank
<1>3. ToSet(todo) = {w} /\ ToSet(directives) = {}
  BY <1>1 DEF ToSet
<1> QED BY <1>2, <1>3 DEF PlacedInv
-----------------------------------------------------------------------------
\* What the ledger holds, and the plugins it names.
LEMMA ReadIsSited ==
    ASSUME LoadInv, PlacedInv
    PROVE  /\ Sited(ToSet(directives))
           /\ \A p, q \in ToSet(directives) : p.file = q.file /\ p.off = q.off => p = q
           /\ \A p \in ToSet(directives) : p.file \in Nat
<1>1. DOMAIN disk \subseteq Files
  BY DisksHoldItems DEF LoadInv
<1>2. \A d \in ToSet(directives) : d.file \in Files
  BY <1>1 DEF PlacedInv, Comes
<1>3. \A p, q \in ToSet(directives) : p.file = q.file /\ p.off = q.off => p = q
  BY Zenon DEF PlacedInv, Comes
<1> QED BY <1>2, <1>3, FilesArePositive DEF Sited

LEMMA ReplacedDirs ==
    ASSUME NEW S \in SUBSET Directive, NEW ds \in Seq(S), next \in Nat, ReplaceEntries(ds)
    PROVE  Dirs(entries') = ToSet(ds)
<1>1. PICK sel : Permutes(Numbers(ds), entries', sel)
  BY Replacing
<1>2. /\ Len(Numbers(ds)) = Len(ds) /\ DOMAIN Numbers(ds) = DOMAIN ds
      /\ \A k \in DOMAIN ds : Numbers(ds)[k].dir = ds[k]
  BY Numbering DEF Numbers
<1>3. ASSUME NEW k \in DOMAIN entries' PROVE \E j \in DOMAIN ds : entries'[k].dir = ds[j]
  BY <1>1, <1>2 DEF Permutes
<1>4. ASSUME NEW j \in DOMAIN ds PROVE \E k \in DOMAIN entries' : entries'[k].dir = ds[j]
  <2>1. PICK k \in DOMAIN entries' : sel[k] = j
    BY <1>1, <1>2 DEF Permutes
  <2>2. entries'[k] = Numbers(ds)[j]
    BY <1>1, <2>1 DEF Permutes
  <2> QED BY <1>2, <2>2
<1>5. \A x : x \in Dirs(entries') <=> \E k \in DOMAIN entries' : x = entries'[k].dir
  BY DEF Dirs
<1>6. \A x : x \in ToSet(ds) <=> \E j \in DOMAIN ds : x = ds[j]
  BY DEF ToSet
<1>7. \A x : x \in Dirs(entries') <=> x \in ToSet(ds)
  BY <1>3, <1>4, <1>5, <1>6
<1> QED BY <1>7

LEMMA AllIsCanonical ==
    ASSUME LedgerInv
    PROVE  ToSet(All) = Dirs(entries) /\ Canonical(All)
<1>1. DOMAIN All = DOMAIN entries /\ \A k \in DOMAIN entries : All[k] = entries[k].dir
  BY AllTypes
<1>2. ToSet(All) = Dirs(entries)
  BY <1>1 DEF ToSet, Dirs
<1>3. \A k, l \in DOMAIN entries : k < l =>
         \/ entries[k].dir.date < entries[l].dir.date
         \/ /\ entries[k].dir.date = entries[l].dir.date
            /\ Rank[entries[k].dir.kind] <= Rank[entries[l].dir.kind]
  BY EntriesInOrder
<1> QED BY <1>1, <1>2, <1>3 DEF Canonical

LEMMA NamedLines ==
    ASSUME NEW es \in Seq(Entry), InOrder(es)
    PROVE  /\ ToSet(Named(es)) = Plugs(Dirs(es)) /\ Lined(Dirs(es), Named(es))
           /\ Named(es) \in Seq(Directive)
           /\ \A k, l \in DOMAIN Named(es) : k < l => ~Leads(Named(es)[l], Named(es)[k])
<1> DEFINE ds == [k \in DOMAIN es |-> es[k].dir]
           K == Kinds(ds, "plugin")
           qs == Those(ds, K)
<1>1. ds \in Seq(Directive)
  <2>1. ds = [k \in DOMAIN es |-> ds[k]]
    OBVIOUS
  <2>2. ASSUME NEW k \in DOMAIN es PROVE ds[k] \in Directive
    <3>1. es[k] \in Entry
      OBVIOUS
    <3> QED BY <3>1 DEF Entry
  <2> HIDE DEF ds
  <2> QED BY <2>1, <2>2, MadeList
<1>2. Named(es) = qs
  BY DEF Named
<1>3. K \in SUBSET DOMAIN ds /\ \A k : k \in K <=> k \in DOMAIN ds /\ ds[k].kind = "plugin"
  BY DEF Kinds
<1>4. DOMAIN ds = DOMAIN es /\ \A k \in DOMAIN es : ds[k] = es[k].dir
  OBVIOUS
<1> HIDE DEF ds, K
<1>5. ToSet(qs) = {ds[k] : k \in K} /\ qs \in Seq(Directive)
  BY <1>1, <1>3, ThoseHold
<1>6. PICK sel : Chosen(ds, K, qs, sel)
  BY <1>1, <1>3, ThoseAreChosen
<1>7. ToSet(qs) = Plugs(Dirs(es))
  <2>1. \A k \in K : ds[k] \in Plugs(Dirs(es))
    BY <1>3, <1>4 DEF Plugs, Dirs
  <2>2. \A p \in Plugs(Dirs(es)) : \E k \in K : p = ds[k]
    BY <1>3, <1>4 DEF Plugs, Dirs
  <2> QED BY <1>5, <2>1, <2>2
<1>8. ASSUME NEW k \in DOMAIN qs, NEW l \in DOMAIN qs, k < l
      PROVE  ~Leads(qs[l], qs[k])
  <2>1. /\ sel[k] \in K /\ sel[l] \in K /\ sel[k] < sel[l]
        /\ qs[k] = ds[sel[k]] /\ qs[l] = ds[sel[l]]
    <3>1. k \in 1 .. Len(qs) /\ l \in 1 .. Len(qs)
      BY <1>5
    <3> HIDE DEF qs
    <3> QED BY <1>6, <1>8, <3>1 DEF Chosen
  <2> DEFINE e == es[sel[k]]
             f == es[sel[l]]
  <2>2. e \in Entry /\ f \in Entry /\ Before(e, f)
    BY <1>3, <1>4, <2>1 DEF InOrder
  <2>3. e.dir.kind = "plugin" /\ f.dir.kind = "plugin" /\ qs[k] = e.dir /\ qs[l] = f.dir
    BY <1>3, <1>4, <2>1
  <2> HIDE DEF e, f, qs
  <2>4. ~Leads(f.dir, e.dir)
    <3>1. f.dir.date \in Nat /\ f.dir.file \in Nat /\ f.dir.off \in Nat
      BY <2>2, BeforeIsLexical
    <3>2. e.dir.date \in Nat /\ e.dir.file \in Nat /\ e.dir.off \in Nat
      BY <2>2, BeforeIsLexical
    <3>3. Rank[e.dir.kind] = Rank[f.dir.kind] /\ ~(Rank[e.dir.kind] < Rank[f.dir.kind])
      BY <2>3 DEF Rank
    <3>4. \/ e.dir.date < f.dir.date
          \/ e.dir.date = f.dir.date /\ e.dir.file < f.dir.file
          \/ e.dir.date = f.dir.date /\ e.dir.file = f.dir.file /\ e.dir.off <= f.dir.off
      BY <2>2, <3>1, <3>2, <3>3, BeforeIsLexical
    <3> QED BY <3>1, <3>2, <3>4 DEF Leads
  <2> QED BY <2>3, <2>4
<1> HIDE DEF qs
<1>9. Lined(Dirs(es), qs)
  <2>1. \A k, l \in DOMAIN qs : k < l => ~Leads(qs[l], qs[k])
    BY <1>8
  <2> QED BY <1>7, <2>1 DEF Lined
<1> QED BY <1>2, <1>5, <1>7, <1>8, <1>9

LEMMA EffectsNotYet ==
    ASSUME NEW S, NEW F
    PROVE  Effects(S, F, Plugs(S))
BY DEF Effects, EffectsDrained, EffectsTrees, EffectsPriced, EffectsCompared

LEMMA LinedStays ==
    ASSUME NEW S, NEW T, Plugs(T) = Plugs(S), NEW qs, Lined(S, qs)
    PROVE  Lined(T, qs)
BY DEF Lined

\* Finding more does not undo what has been compared.
LEMMA ComparedMore ==
    ASSUME NEW S, NEW F, NEW G, F \subseteq G, Compared(S, F)
    PROVE  Compared(S, G)
BY FollowsItself, ComparedKept

-----------------------------------------------------------------------------
(* Behind the loading, when the host has no plugins of its own.            *)
Late == {"plugins", "pad", "balance", "validations", "done"}
ModeInv == raw => stage \notin {"document", "booking"} \cup Walks
ReadInv == stage \in {"document", "booking"} => Dirs(entries) = ToSet(directives)
LateInv ==
    OnlyStandard /\ stage \in Late =>
       /\ Plugs(Dirs(entries)) \subseteq ToSet(directives) /\ Sited(Dirs(entries))
       /\ Lined(Dirs(entries), queue)
       /\ Effects(Dirs(entries), ToSet(findings), ToSet(queue))
       /\ stage # "plugins" => queue = <<>>

LEMMA RawStays ==
    ASSUME [Next]_vars
    PROVE  raw' = raw
<1>1. CASE Loading
  BY <1>1 DEF Loading, ReadDirective, IncludeFile, ExpandGlob, IncludeMatch, LoadFrame, inputs
<1>2. CASE FinishLoading \/ Cancel \/ Canceled \/ VerifyDocuments \/ Book \/ BookingHalts
  BY <1>2 DEF FinishLoading, Cancel, Canceled, VerifyDocuments, Book, BookingHalts, Fail,
     PassFrame, inputs
<1>3. CASE RunPlugins
  BY <1>3 DEF RunPlugins, UnknownPlugin, RunPlugin, PluginCanceled, PluginChangesNothing,
     PluginFails, EndPlugins, PluginAdds, PluginRemoves, Host, NextPlugin, Fail, PassFrame, inputs
<1>4. CASE Pad
  BY <1>4 DEF Pad, BeginPad, PadTransaction, RecordPad, NoPad, AlreadyPadded,
     NothingMissing, HeldAtCost, InsertPadding, PadPasses, EndPad, InForce, Asserts, PadFrame,
     WalkFrame, inputs
<1>5. CASE Balance \/ Validations
  BY <1>5 DEF Balance, BeginBalance, BalanceTransaction, CheckBalance, BalancePasses,
     EndBalance, BalanceFrame, Validations, BeginValidations, ValidateEntry, EndValidations,
     PassFrame, WalkFrame, inputs
<1>6. CASE UNCHANGED vars
  BY <1>6 DEF vars, inputs
<1> QED BY <1>1, <1>2, <1>3, <1>4, <1>5, <1>6 DEF Next, Ended

LEMMA ModeKept ==
    ASSUME Typed, ModeInv, [Next]_vars
    PROVE  ModeInv'
<1>1. raw' = raw
  BY RawStays
<1>2. CASE Loading \/ Cancel \/ UNCHANGED vars
  BY <1>1, <1>2 DEF Loading, ReadDirective, IncludeFile, ExpandGlob, IncludeMatch, LoadFrame,
     Cancel, vars, ModeInv
<1>3. CASE FinishLoading
  BY <1>1, <1>3 DEF FinishLoading, ModeInv, Walks
<1>4. CASE Canceled \/ VerifyDocuments \/ Book \/ BookingHalts
  BY <1>1, <1>4 DEF Canceled, Fail, VerifyDocuments, Book, BookingHalts, ToPlugins, ModeInv, Walks
<1>5. CASE RunPlugins
  BY <1>1, <1>5 DEF RunPlugins, UnknownPlugin, RunPlugin, PluginCanceled, PluginChangesNothing,
     PluginFails, EndPlugins, PluginAdds, PluginRemoves, Host, AtPlugin, NextPlugin, Fail,
     ModeInv, Walks
<1>6. CASE Pad \/ Balance \/ Validations
  <2>1. stage \in Walks
    BY <1>6 DEF Pad, BeginPad, PadTransaction, RecordPad, NoPad, AlreadyPadded, NothingMissing,
       HeldAtCost, InsertPadding, PadPasses, EndPad, InForce, Asserts, PadFrame,
       Balance, BeginBalance, BalanceTransaction, CheckBalance, BalancePasses,
       EndBalance, BalanceFrame, Validations, BeginValidations, ValidateEntry, EndValidations,
       Begins, Visits, Ends, Walks
  <2> QED BY <1>1, <2>1 DEF ModeInv
<1> QED BY <1>2, <1>3, <1>4, <1>5, <1>6 DEF Next, Ended

LEMMA ReadKept ==
    ASSUME Typed, ReadInv, [Next]_vars
    PROVE  ReadInv'
<1>1. CASE Loading
  BY <1>1 DEF Loading, ReadDirective, IncludeFile, ExpandGlob, IncludeMatch, LoadFrame, Visiting,
     ReadInv
<1>2. ASSUME stage' \notin {"document", "booking"} PROVE ReadInv'
  BY <1>2 DEF ReadInv
<1>3. CASE Cancel \/ VerifyDocuments \/ UNCHANGED vars
  BY <1>3 DEF Cancel, VerifyDocuments, PassFrame, vars, ledgerVars, loadVars, ReadInv, Dirs
<1>4. CASE FinishLoading
  <2>1. stage = "load" /\ entries = <<>> /\ next \in Nat /\ directives \in Seq(AsRead)
    BY <1>4 DEF FinishLoading, Typed, LedgerInv, ListsInv
  <2>2. ReplaceEntries(directives) /\ directives' = directives
    BY <1>4, <2>1 DEF FinishLoading, ReplaceEntries, loadVars
  <2>3. Dirs(entries') = ToSet(directives)
    BY <2>1, <2>2, ReadIsDirective, ReplacedDirs
  <2> QED BY <2>2, <2>3 DEF ReadInv, Dirs
<1>5. CASE Canceled \/ Book \/ BookingHalts
  BY <1>2, <1>5 DEF Canceled, Fail, Book, BookingHalts, ToPlugins
<1>6. CASE RunPlugins
  <2>1. stage' \notin {"document", "booking"}
    BY <1>6 DEF RunPlugins, UnknownPlugin, RunPlugin, PluginCanceled, PluginChangesNothing,
       PluginFails, EndPlugins, PluginAdds, PluginRemoves, Host, AtPlugin, NextPlugin, Fail
  <2> QED BY <1>2, <2>1
<1>7. CASE Pad \/ Balance \/ Validations
  <2>1. stage' \notin {"document", "booking"}
    BY <1>7 DEF Pad, BeginPad, PadTransaction, RecordPad, NoPad, AlreadyPadded, NothingMissing,
       HeldAtCost, InsertPadding, PadPasses, EndPad, InForce, Asserts, PadFrame,
       Balance, BeginBalance, BalanceTransaction, CheckBalance, BalancePasses,
       EndBalance, BalanceFrame, Validations, BeginValidations, ValidateEntry, EndValidations,
       Begins, Visits, Ends
  <2> QED BY <1>2, <2>1
<1> QED BY <1>1, <1>3, <1>4, <1>5, <1>6, <1>7 DEF Next, Ended

-----------------------------------------------------------------------------
(* What padding is inserted moves what it must, and implies no price.      *)
PadsFor(t, p) ==
    t.kind = "txn" /\ t.padding /\ Rates(t) = {} /\ t.file = p.file /\ p.kind = "pad"
PaddingInv ==
    stage = "pad" /\ at # 0 =>
       \A k \in DOMAIN padding : \A t \in ToSet(padding[k]) : PadsFor(t, entries[k].dir)

LEMMA PaddingKept ==
    ASSUME Typed, PaddingInv, [Next]_vars
    PROVE  PaddingInv'
<1>1. ASSUME stage' # "pad" \/ at' = 0 PROVE PaddingInv'
  BY <1>1 DEF PaddingInv
<1>2. at \in 0 .. Len(entries) + 1 /\ (stage \notin Walks => at = 0)
  BY DEF Typed, PlaceInv
<1>3. CASE Loading \/ FinishLoading \/ Book \/ BookingHalts \/ VerifyDocuments \/ Canceled
  BY <1>1, <1>3 DEF Loading, ReadDirective, IncludeFile, ExpandGlob, IncludeMatch, Visiting,
     LoadFrame, FinishLoading, Book, BookingHalts, VerifyDocuments, ToPlugins, Canceled, Fail
<1>4. ASSUME UNCHANGED <<stage, entries, padding>>, stage = "pad" => at # 0 \/ at' = 0
      PROVE  PaddingInv'
  BY <1>4 DEF PaddingInv
<1>5. CASE Cancel \/ UNCHANGED vars
  BY <1>4, <1>5 DEF Cancel, ledgerVars, padVars, vars
<1>6. CASE RunPlugins
  <2>1. stage' # "pad" \/ at' = 0
    BY <1>2, <1>6 DEF RunPlugins, UnknownPlugin, RunPlugin, PluginCanceled, PluginChangesNothing,
       PluginFails, EndPlugins, PluginAdds, PluginRemoves, Host, AtPlugin, NextPlugin, Fail, Walks
  <2> QED BY <1>1, <2>1
<1>7. CASE Balance \/ Validations
  <2>1. stage' # "pad"
    BY <1>7 DEF Balance, BeginBalance, BalanceTransaction, CheckBalance, BalancePasses,
       EndBalance, BalanceFrame, Validations, BeginValidations, ValidateEntry, EndValidations,
       Begins, Visits, Ends
  <2> QED BY <1>1, <2>1
<1>8. CASE BeginPad
  <2>1. padding' = [k \in DOMAIN entries |-> <<>>]
    BY <1>8 DEF BeginPad
  <2>2. \A k \in DOMAIN padding' : ToSet(padding'[k]) = {}
    BY <2>1 DEF ToSet
  <2> QED BY <2>2 DEF PaddingInv, ToSet
<1>9. CASE PadTransaction \/ RecordPad \/ NoPad \/ AlreadyPadded \/ NothingMissing \/ HeldAtCost
           \/ PadPasses
  <2>1. UNCHANGED <<stage, entries, padding>> /\ at \in DOMAIN entries
    BY <1>9 DEF PadTransaction, RecordPad, NoPad, AlreadyPadded, NothingMissing, HeldAtCost,
       PadPasses, InForce, Asserts, PadFrame, Visits, ledgerVars, padVars
  <2>2. at # 0
    BY <2>1 DEF Typed, LedgerInv
  <2> QED BY <1>4, <2>1, <2>2
<1>10. CASE EndPad
  BY <1>1, <1>10 DEF EndPad, Ends
<1>11. CASE InsertPadding
  <2>1. /\ stage = "pad" /\ at \in DOMAIN entries /\ UNCHANGED <<stage, entries>>
        /\ D.kind = "balance" /\ pending[D.acct] # None
    BY <1>11 DEF InsertPadding, InForce, Asserts, PadFrame, Visits, ledgerVars, D
  <2>2. at # 0 /\ D \in Directive
    <3>1. entries \in Seq(Entry)
      BY DEF Typed, LedgerInv
    <3> QED BY <2>1, <3>1, EntryHas DEF D
  <2>3. D.acct \in Accounts
    BY <2>1, <2>2, AccountOf
  <2> DEFINE k == pending[D.acct].at
             p == entries[k].dir
             legs == <<Leg(p.acct, Delta), Leg(p.from, -Delta)>>
             t == [kind |-> "txn", date |-> p.date, file |-> p.file, off |-> p.off,
                   padding |-> TRUE, tags |-> {}, posts |-> legs]
  <2>4. k \in DOMAIN entries /\ p.kind = "pad" /\ DOMAIN padding = DOMAIN entries
    BY <2>1, <2>2, <2>3 DEF Typed, PadInv
  <2>5. padding' = [padding EXCEPT ![k] = Append(@, t)]
    BY <1>11 DEF InsertPadding
  <2>6. Rates(t) = {}
    <3>1. t.posts = legs /\ DOMAIN legs = {1, 2}
      OBVIOUS
    <3>2. \A j \in {1, 2} : legs[j].price = None /\ legs[j].cost = None
      BY DEF Leg
    <3> HIDE DEF t, legs
    <3>3. \A j \in DOMAIN t.posts : ~HasPrice(t.posts[j])
      BY <3>1, <3>2 DEF HasPrice
    <3> QED BY <3>3 DEF Rates
  <2>7. t.kind = "txn" /\ t.padding /\ t.file = p.file
    OBVIOUS
  <2>8. padding \in Seq(Seq(TransactionType))
    BY DEF Typed, PadInv
  <2> HIDE DEF t, legs, p, k
  <2>9. PadsFor(t, p)
    BY <2>4, <2>6, <2>7 DEF PadsFor
  <2>10. padding[k] \in Seq(TransactionType)
    BY <2>4, <2>8
  <2>11. ToSet(Append(padding[k], t)) \subseteq ToSet(padding[k]) \cup {t}
    BY <2>10 DEF ToSet
  <2>12. ASSUME NEW j \in DOMAIN padding', NEW x \in ToSet(padding'[j])
         PROVE  PadsFor(x, entries[j].dir)
    <3>1. DOMAIN padding' = DOMAIN padding
      BY <2>5
    <3>2. CASE j = k
      <4>1. padding'[j] = Append(padding[k], t)
        BY <2>4, <2>5, <3>2
      <4>2. x \in ToSet(padding[k]) \/ x = t
        BY <2>11, <4>1
      <4> QED BY <2>1, <2>2, <2>4, <2>9, <3>2, <4>2 DEF PaddingInv, p
    <3>3. CASE j # k
      <4>1. padding'[j] = padding[j] /\ j \in DOMAIN padding
        BY <2>5, <3>1, <3>3
      <4> QED BY <2>1, <2>2, <4>1 DEF PaddingInv
    <3> QED BY <3>2, <3>3
  <2>13. \A j : ToSet(padding[j])' = ToSet(padding'[j])
    BY DEF ToSet
  <2> QED BY <2>1, <2>12, <2>13 DEF PaddingInv
<1> QED BY <1>3, <1>5, <1>6, <1>7, <1>8, <1>9, <1>10, <1>11 DEF Next, Ended, Pad
-----------------------------------------------------------------------------
\* The steps behind the loading, one by one.
LateAt(S, F, qs) ==
    /\ Plugs(S) \subseteq ToSet(directives) /\ Sited(S)
    /\ Lined(S, qs) /\ Effects(S, F, ToSet(qs))

LEMMA LateGoes ==
    ASSUME directives' = directives, stage' \in Late, stage' # "plugins" => queue' = <<>>,
           OnlyStandard => LateAt(Dirs(entries'), ToSet(findings'), queue')
    PROVE  LateInv'
<1>1. OnlyStandard' <=> OnlyStandard
  BY DEF OnlyStandard
<1>2. /\ Dirs(entries)' = Dirs(entries') /\ ToSet(findings)' = ToSet(findings')
      /\ ToSet(directives)' = ToSet(directives) /\ ToSet(queue)' = ToSet(queue')
  BY DEF Dirs, ToSet
<1> QED BY <1>1, <1>2 DEF LateInv, LateAt

\* The plugins are named.
LEMMA LateBegins ==
    ASSUME LedgerInv', stage' \in Late, directives' = directives, queue' = Named(entries'),
           stage' = "plugins", Plugs(Dirs(entries')) \subseteq ToSet(directives), Sited(Dirs(entries'))
    PROVE  LateInv'
<1>1. entries' \in Seq(Entry) /\ InOrder(entries')
  BY DEF LedgerInv, InOrder
<1> DEFINE S == Dirs(entries')
           F == ToSet(findings')
<1>2. ToSet(queue') = Plugs(S) /\ Lined(S, queue')
  BY <1>1, NamedLines
<1> HIDE DEF F
<1>3. Effects(S, F, ToSet(queue'))
  BY <1>2, EffectsNotYet
<1> QED BY <1>2, <1>3, LateGoes DEF LateAt, F

\* Nothing but the findings, a difference or padding changes.
LEMMA LateFollows ==
    ASSUME LateInv, stage \in Late, stage' \in Late, NEW kinds,
           Follows(Dirs(entries), Dirs(entries'), kinds),
           "plugin" \notin kinds, "close" \notin kinds, "open" \notin kinds,
           ToSet(findings) \subseteq ToSet(findings'), UNCHANGED <<queue, directives>>,
           stage' # "plugins" => stage # "plugins" \/ queue = <<>>
    PROVE  LateInv'
<1>1. SUFFICES ASSUME OnlyStandard PROVE LateAt(Dirs(entries'), ToSet(findings'), queue')
  <2>1. stage' # "plugins" /\ OnlyStandard => queue' = <<>>
    BY DEF LateInv
  <2>2. OnlyStandard' <=> OnlyStandard
    BY DEF OnlyStandard
  <2>3. ~OnlyStandard => LateInv'
    BY <2>2 DEF LateInv
  <2> QED BY <2>1, <2>3, LateGoes
<1> DEFINE S == Dirs(entries)
           T == Dirs(entries')
           F == ToSet(findings)
           G == ToSet(findings')
           Q == ToSet(queue)
<1>2. Plugs(S) \subseteq ToSet(directives) /\ Sited(S) /\ Lined(S, queue) /\ Effects(S, F, Q)
  BY <1>1 DEF LateInv
<1>3. Follows(S, T, kinds) /\ F \subseteq G
  OBVIOUS
<1> HIDE DEF S, T, F, G, Q
<1>4. Plugs(T) = Plugs(S)
  BY <1>3, PlugsKept
<1>5. Sited(T)
  BY <1>2, <1>3, SitedKept
<1>6. Effects(T, G, Q)
  BY <1>2, <1>3, EffectsStay
<1>7. Lined(T, queue)
  BY <1>2, <1>4, LinedStays
<1>8. queue' = queue
  OBVIOUS
<1> QED BY <1>2, <1>4, <1>5, <1>6, <1>7, <1>8 DEF LateAt, T, G, Q

LEMMA LateStays ==
    ASSUME LateInv, stage \in Late, stage' \in Late, UNCHANGED <<entries, queue, directives>>,
           ToSet(findings) \subseteq ToSet(findings'),
           stage' # "plugins" => stage # "plugins" \/ queue = <<>>
    PROVE  LateInv'
<1>1. Follows(Dirs(entries), Dirs(entries'), {})
  BY FollowsItself DEF Dirs
<1> QED BY <1>1, LateFollows

\* The first plugin of the queue runs.
LEMMA LateRuns ==
    ASSUME Typed, LateInv, stage = "plugins", stage' = "plugins", queue # <<>>,
           queue' = Tail(queue), directives' = directives,
           NEW R, ToSet(R) \subseteq ToSet(findings'), ToSet(findings) \subseteq ToSet(findings'),
           OnlyStandard => \E kinds : Plays(Head(queue), Dirs(entries), Dirs(entries'), ToSet(R), kinds)
    PROVE  LateInv'
<1>1. SUFFICES ASSUME OnlyStandard PROVE LateAt(Dirs(entries'), ToSet(findings'), queue')
  BY LateGoes DEF Late
<1> DEFINE S == Dirs(entries)
           T == Dirs(entries')
           F == ToSet(findings)
           G == ToSet(findings')
           N == ToSet(R)
           h == Head(queue)
<1>2. PICK kinds : Plays(h, S, T, N, kinds)
  BY <1>1
<1>3. /\ Plugs(S) \subseteq ToSet(directives) /\ Sited(S) /\ Lined(S, queue)
      /\ Effects(S, F, ToSet(queue))
  BY <1>1 DEF LateInv, Late
<1>4. F \subseteq G /\ N \subseteq G /\ queue \in Seq(PluginsRead)
  BY DEF Typed, ListsInv
<1>5. h = Head(queue)
  OBVIOUS
<1> HIDE DEF S, T, F, G, N, h
<1>6. /\ Follows(S, T, kinds) /\ "plugin" \notin kinds
      /\ "close" \in kinds => h.name = "close_tree"
      /\ "open" \in kinds => h.name = "auto_accounts"
      /\ h.name = "check_drained" => Drained(T)
      /\ h.name = "close_tree" => Trees(T)
      /\ h.name = "implicit_prices" => Priced(T)
  BY <1>2 DEF Plays
<1>7. h.name = "unique_prices" /\ Priced(S) => Compared(T, G)
  <2>1. h.name = "unique_prices" /\ Priced(S) => Compared(T, N)
    BY <1>2 DEF Plays
  <2> QED BY <1>4, <2>1, ComparedMore
<1>8. Effects(T, G, ToSet(Tail(queue))) /\ Lined(T, Tail(queue)) /\ Plugs(T) = Plugs(S)
  BY <1>3, <1>4, <1>5, <1>6, <1>7, EffectsRun
<1>9. Sited(T)
  BY <1>3, <1>6, SitedKept
<1> QED BY <1>3, <1>8, <1>9 DEF LateAt, T, G

LEMMA NothingPlays ==
    ASSUME NEW p, p.name \notin Standard, NEW S, NEW F
    PROVE  Plays(p, S, S, F, {})
BY FollowsItself DEF Plays, Standard

LEMMA PluginLate ==
    ASSUME Typed, FindingsInv, LateInv, RunPlugin, Told, directives' = directives
    PROVE  LateInv'
<1> DEFINE h == Head(queue)
           r == Apply(h, All)
           S == Dirs(entries)
<1>1. /\ stage = "plugins" /\ queue # <<>> /\ h.name \in Standard /\ stage' = "plugins"
      /\ queue' = Tail(queue) /\ Report(r.findings)
      /\ IF r.dirs = None THEN UNCHANGED ledgerVars ELSE ReplaceEntries(r.dirs)
  BY DEF RunPlugin, AtPlugin, NextPlugin
<1>2. queue \in Seq(PluginsRead) /\ h \in AsRead /\ h.kind = "plugin"
  <2>1. queue \in Seq(PluginsRead)
    BY DEF Typed, ListsInv
  <2>2. h \in PluginsRead
    BY <1>1, <2>1
  <2> QED BY <2>1, <2>2 DEF PluginsRead
<1>3. All \in Seq(AsRead) /\ ToSet(All) = S /\ Canonical(All) /\ next \in Nat
  BY <1>1, AllTypes, AllIsCanonical DEF Typed, LedgerInv, Unchecked
<1> HIDE DEF h
<1>4. Serves(r)
  BY <1>1, <1>2, <1>3, ApplyServes
<1>5. After(r, S) = Dirs(entries')
  <2>1. CASE r.dirs = None
    BY <1>1, <2>1 DEF After, ledgerVars, Dirs
  <2>2. CASE r.dirs # None
    <3>1. r.dirs \in Seq(AsRead) /\ ReplaceEntries(r.dirs)
      BY <1>1, <1>4, <2>2 DEF Serves
    <3> DEFINE ds == r.dirs
    <3>2. ds \in Seq(AsRead) /\ ReplaceEntries(ds)
      BY <3>1
    <3> HIDE DEF ds, r
    <3>3. Dirs(entries') = ToSet(ds)
      BY <1>3, <3>2, ReadIsDirective, ReplacedDirs
    <3> QED BY <2>2, <3>3 DEF After, ds
  <2> QED BY <2>1, <2>2
<1>6. ASSUME OnlyStandard
      PROVE  \E kinds : Plays(h, S, Dirs(entries'), ToSet(r.findings), kinds)
  <2>1. Sited(S)
    BY <1>1, <1>6 DEF LateInv, Late
  <2>2. \E kinds : Plays(h, ToSet(All), After(r, ToSet(All)), ToSet(r.findings), kinds)
    BY <1>1, <1>3, <2>1, ApplyPlays
  <2> HIDE DEF r, S
  <2> QED BY <1>3, <1>5, <2>2
<1>7. ToSet(r.findings) \subseteq ToSet(findings')
  <2> DEFINE fs == r.findings
  <2>1. findings' = findings \o fs /\ Tells(fs) /\ Tells(findings)
    BY <1>1, <1>4 DEF Report, Serves, FindingsInv, Unchecked
  <2> HIDE DEF fs
  <2>2. ToSet(findings \o fs) = ToSet(findings) \cup ToSet(fs)
    BY <2>1, JoinedItems DEF Tells
  <2> QED BY <2>1, <2>2 DEF fs
<1>8. ToSet(findings) \subseteq ToSet(findings')
  BY DEF Told
<1> DEFINE N == r.findings
<1> HIDE DEF r
<1>9. ToSet(N) \subseteq ToSet(findings') /\ (OnlyStandard =>
        \E kinds : Plays(Head(queue), Dirs(entries), Dirs(entries'), ToSet(N), kinds))
  BY <1>6, <1>7 DEF h
<1> HIDE DEF N
<1> QED BY <1>1, <1>8, <1>9, LateRuns
-----------------------------------------------------------------------------
LEMMA SameFollows ==
    ASSUME NEW S, NEW T, \A d \in S : \E e \in T : Same(d, e),
           \A e \in T : \E d \in S : Same(d, e)
    PROVE  Follows(S, T, {})
<1>1. \A d, e : Same(d, e) => e.kind = d.kind /\ e.file = d.file /\ (d.kind # "balance" => e = d)
  BY DEF Same
<1>2. ASSUME NEW t \in T, t.kind = "txn" PROVE \E u \in S : Remains(t, u)
  <2>1. PICK u \in S : Same(u, t)
    OBVIOUS
  <2>2. u = t
    BY <1>1, <1>2, <2>1
  <2>3. Remains(t, t)
    BY <1>2 DEF Remains
  <2> QED BY <2>2, <2>3
<1>3. ASSUME NEW e \in T, e.kind # "open" PROVE \E d \in S : d.kind # "open" /\ d.file = e.file
  BY <1>1, <1>3
<1> QED BY <1>2, <1>3 DEF Follows

\* What the pad pass leaves.
LEMMA PadFollows ==
    ASSUME Typed, PaddingInv, EndPad
    PROVE  Follows(Dirs(entries), Dirs(entries'), {})
<1> DEFINE ss == [k \in DOMAIN entries |-> <<entries[k].dir>> \o padding[k]]
           S == Dirs(entries)
           N == UNION {ToSet(padding[k]) : k \in DOMAIN All}
<1>1. /\ stage = "pad" /\ at = Len(entries) + 1 /\ LedgerInv /\ PadInv
      /\ UNCHANGED ledgerVars \/ ReplaceEntries(FlattenSeq(ss))
  BY DEF EndPad, Ends, Typed
<1>2. at # 0 /\ next \in Nat
  BY <1>1 DEF LedgerInv
<1>3. /\ All \in Seq(AsRead) /\ DOMAIN All = DOMAIN entries /\ ToSet(All) = S
      /\ \A k \in DOMAIN entries : All[k] = entries[k].dir
  BY <1>1, AllTypes, AllIsCanonical DEF Unchecked
<1>4. \A k \in DOMAIN entries : padding[k] \in Seq(AsRead)
  <2>1. \A k \in DOMAIN entries : padding[k] \in Seq(TransactionType)
    BY <1>1, <1>2 DEF PadInv
  <2>2. \A s \in Seq(TransactionType) : s \in Seq(AsRead)
    BY TransactionsRead
  <2> QED BY <2>1, <2>2
<1>5. ss = [k \in DOMAIN All |-> ss[k]] /\ \A k \in DOMAIN All : ss[k] = <<All[k]>> \o padding[k]
  BY <1>3
<1>6. CASE UNCHANGED ledgerVars
  <2>1. Dirs(entries') = S
    BY <1>6 DEF ledgerVars, Dirs
  <2> QED BY <2>1, FollowsItself
<1>7. CASE ReplaceEntries(FlattenSeq(ss))
  <2> DEFINE A == All
             ds == FlattenSeq(ss)
  <2>1. Woven(AsRead, A, padding, ss) /\ A \in Seq(AsRead)
    BY <1>3, <1>4, <1>5 DEF Woven
  <2> HIDE DEF A, ss
  <2>2. /\ ds \in Seq(AsRead)
        /\ ToSet(ds) = ToSet(A) \cup UNION {ToSet(padding[k]) : k \in DOMAIN A}
    BY <2>1, Interleaved
  <2>3. ReplaceEntries(ds)
    BY <1>7
  <2> HIDE DEF ds
  <2>4. Dirs(entries') = ToSet(ds)
    BY <1>2, <2>2, <2>3, ReadIsDirective, ReplacedDirs
  <2>5. Dirs(entries') = S \cup N
    BY <1>3, <2>2, <2>4 DEF A
  <2>6. \A e \in N : \E k \in DOMAIN entries : PadsFor(e, entries[k].dir)
    <3>1. \A k \in DOMAIN entries : \A e \in ToSet(padding[k]) : PadsFor(e, entries[k].dir)
      BY <1>1, <1>2 DEF PaddingInv, PadInv
    <3> QED BY <1>3, <3>1
  <2>7. \A k \in DOMAIN entries : entries[k].dir \in S
    BY DEF Dirs
  <2> HIDE DEF S, N
  <2>8. \A e \in N : /\ e.kind = "txn" /\ e.padding /\ Rates(e) = {}
                     /\ \E d \in S : d.kind # "open" /\ d.file = e.file
    <3> SUFFICES ASSUME NEW e \in N
                 PROVE  /\ e.kind = "txn" /\ e.padding /\ Rates(e) = {}
                        /\ \E d \in S : d.kind # "open" /\ d.file = e.file
      OBVIOUS
    <3>1. PICK k \in DOMAIN entries : PadsFor(e, entries[k].dir)
      BY <2>6
    <3>2. /\ e.kind = "txn" /\ e.padding /\ Rates(e) = {}
          /\ entries[k].dir.kind = "pad" /\ entries[k].dir.file = e.file
      BY <3>1 DEF PadsFor
    <3> QED BY <2>7, <3>2
  <2>9. Follows(S, S \cup N, {})
    BY <2>8, Growing
  <2> QED BY <2>5, <2>9 DEF S
<1> QED BY <1>1, <1>6, <1>7

\* What the balance pass leaves.
LEMMA BalanceFollows ==
    ASSUME Typed, ExactInv, EndBalance
    PROVE  Follows(Dirs(entries), Dirs(entries'), {})
<1>1. /\ stage = "balance" /\ at = Len(entries) + 1
      /\ \/ ReplaceEntries(out)
         \/ UNCHANGED ledgerVars
  BY DEF EndBalance, Ends
<1>2. /\ entries \in Seq(Entry) /\ out \in Seq(Directive) /\ DOMAIN entries = 1 .. Len(entries)
      /\ Len(entries) \in Nat /\ next \in Nat
  BY DEF Typed, LedgerInv, ListsInv
<1>3. Passed
  BY <1>1, <1>2 DEF ExactInv
<1>4. DOMAIN out = DOMAIN entries /\ \A k \in DOMAIN entries : out[k] = Judged(entries, k)
  BY <1>1, <1>2, <1>3 DEF Passed
<1>5. ASSUME NEW k \in DOMAIN entries PROVE Same(entries[k].dir, out[k])
  <2> DEFINE b == entries[k].dir
             n == Off(entries, k)
  <2>1. CASE out[k] = b
    BY <2>1 DEF Same
  <2>2. CASE b.kind = "balance" /\ out[k] = [b EXCEPT !.diff = n]
    <3>1. b \in BalanceType
      BY <1>2, <2>2, EntryHas
    <3> HIDE DEF b, n
    <3>2. Same(b, [b EXCEPT !.diff = n])
      BY <3>1 DEF BalanceType, Same
    <3> QED BY <2>2, <3>2 DEF b
  <2> QED BY <1>4, <2>1, <2>2 DEF Judged
<1>6. CASE UNCHANGED ledgerVars
  <2>1. Dirs(entries') = Dirs(entries)
    BY <1>6 DEF ledgerVars, Dirs
  <2> QED BY <2>1, FollowsItself
<1>7. CASE ReplaceEntries(out)
  <2>1. Dirs(entries') = ToSet(out)
    BY <1>2, <1>7, ReplacedDirs
  <2>2. \A d \in Dirs(entries) : \E e \in ToSet(out) : Same(d, e)
    BY <1>4, <1>5 DEF Dirs, ToSet
  <2>3. \A e \in ToSet(out) : \E d \in Dirs(entries) : Same(d, e)
    BY <1>4, <1>5 DEF Dirs, ToSet
  <2> QED BY <2>1, <2>2, <2>3, SameFollows
<1> QED BY <1>1, <1>6, <1>7
-----------------------------------------------------------------------------
\* Every step keeps what the plugins have left behind.
LEMMA FindingsGrow ==
    ASSUME Typed, FindingsInv, ModeInv, Validations
    PROVE  ToSet(findings) \subseteq ToSet(findings')
<1>1. stage = "validations"
  BY DEF Validations, BeginValidations, ValidateEntry, EndValidations, Begins, Visits, Ends
<1>2. findings \in Seq(ToSet(findings))
  BY <1>1 DEF ModeInv, Walks, FindingsInv, Checked
<1>3. ASSUME NEW fs, fs \in Seq(ToSet(fs)), Report(fs)
      PROVE  ToSet(findings) \subseteq ToSet(findings')
  <2>1. ToSet(findings \o fs) = ToSet(findings) \cup ToSet(fs)
    BY <1>2, <1>3, JoinedItems
  <2> QED BY <1>3, <2>1 DEF Report
<1>4. CASE BeginValidations
  BY <1>4 DEF BeginValidations
<1>5. CASE ValidateEntry
  <2>1. Report(EntryFindings(D)) /\ Visits("validations", DOMAIN Rank)
    BY <1>5 DEF ValidateEntry
  <2>2. D \in Directive
    BY <2>1, Visited DEF Typed
  <2>3. Blames(EntryFindings(D), D, NotOpen(D))
    BY <2>2, EntryBlames DEF Typed
  <2> DEFINE fs == EntryFindings(D)
  <2>4. fs \in Seq(ToSet(fs)) /\ Report(fs)
    BY <2>1, <2>3 DEF Blames
  <2> HIDE DEF fs
  <2> QED BY <1>3, <2>4
<1>6. CASE EndValidations
  <2> DEFINE K == {k \in Kinds(All, "open") : k \notin Opening(All[k].acct)}
             again == Those(All, K)
             fs == [k \in DOMAIN again |-> Finding("duplicate-open", again[k], None)]
  <2>1. Report(fs)
    BY <1>6 DEF EndValidations
  <2>2. All \in Seq(Directive) /\ K \in SUBSET DOMAIN All
    BY AllTypes DEF Typed, Kinds
  <2> HIDE DEF K
  <2>3. again \in Seq(Directive)
    BY <2>2, ThoseAreListed
  <2>4. fs = [k \in DOMAIN again |-> fs[k]] /\ \A k \in DOMAIN again : fs[k].code \notin Refusals
    BY DEF Finding, Refusals
  <2> HIDE DEF again, fs
  <2>5. Tells(fs)
    BY <2>3, <2>4, TellsOfEach
  <2> QED BY <1>3, <2>1, <2>5 DEF Tells
<1> QED BY <1>4, <1>5, <1>6 DEF Validations

LEMMA LateLoading ==
    ASSUME LoadInv, PlacedInv, Typed, ModeInv, ReadInv, LedgerInv',
           FinishLoading \/ Book \/ BookingHalts
    PROVE  LateInv'
<1>1. /\ Sited(ToSet(directives)) /\ directives \in Seq(AsRead) /\ All \in Seq(Directive)
      /\ next \in Nat
  BY ReadIsSited, AllTypes DEF Typed, ListsInv, LedgerInv
<1>2. CASE FinishLoading
  <2>1. entries = <<>> /\ directives' = directives /\ stage' = IF raw THEN "plugins" ELSE "document"
    BY <1>2 DEF FinishLoading, Typed, LedgerInv, loadVars
  <2>2. ReplaceEntries(directives)
    BY <1>2, <2>1 DEF FinishLoading, ReplaceEntries
  <2>3. Dirs(entries') = ToSet(directives)
    BY <1>1, <2>2, ReadIsDirective, ReplacedDirs
  <2>4. CASE raw
    <3>1. queue' = Named(entries') /\ stage' = "plugins"
      BY <1>2, <2>1, <2>4 DEF FinishLoading
    <3> QED BY <1>1, <2>1, <2>3, <3>1, LateBegins DEF Plugs, Late
  <2>5. CASE ~raw
    BY <2>1, <2>5 DEF LateInv, Late
  <2> QED BY <2>4, <2>5
<1>3. CASE Book
  <2>1. stage = "booking" /\ stage' = "plugins" /\ queue' = Named(entries') /\ ReplaceEntries(All)
        /\ directives' = directives
    BY <1>3 DEF Book, ToPlugins, PassFrame, loadVars
  <2> DEFINE A == All
  <2>2. A \in Seq(Directive) /\ ReplaceEntries(A)
    BY <1>1, <2>1
  <2> HIDE DEF A
  <2>3. Dirs(entries') = ToSet(A)
    BY <1>1, <2>2, ReplacedDirs
  <2>4. Dirs(entries') = ToSet(directives)
    BY <2>1, <2>3, AllIsCanonical DEF A, Typed, ReadInv
  <2> QED BY <1>1, <2>1, <2>4, LateBegins DEF Plugs, Late
<1>4. CASE BookingHalts
  <2>1. stage' = "plugins" /\ queue' = Named(entries') /\ ReplaceEntries(<<>>)
        /\ directives' = directives
    BY <1>4 DEF BookingHalts, ToPlugins, PassFrame, loadVars
  <2> DEFINE A == <<>>
  <2>2. A \in Seq(Directive) /\ ReplaceEntries(A) /\ ToSet(A) = {}
    BY <2>1 DEF ToSet
  <2> HIDE DEF A
  <2>3. Dirs(entries') = {}
    BY <1>1, <2>2, ReplacedDirs
  <2> QED BY <2>1, <2>3, LateBegins DEF Plugs, Late, Sited
<1> QED BY <1>2, <1>3, <1>4

LEMMA LatePlugins ==
    ASSUME Typed, FindingsInv, LateInv, RunPlugins
    PROVE  LateInv'
<1>1. Told
  BY TellingPlugins
<1>2. stage = "plugins" /\ directives' = directives /\ stage \in Late
  BY DEF RunPlugins, UnknownPlugin, RunPlugin, PluginCanceled, PluginChangesNothing,
     PluginFails, EndPlugins, PluginAdds, PluginRemoves, Host, AtPlugin, NextPlugin, Fail,
     PassFrame, loadVars, Late
<1>3. CASE RunPlugin
  BY <1>1, <1>2, <1>3, PluginLate
<1>4. CASE UnknownPlugin
  <2>1. /\ queue # <<>> /\ Head(queue).name \notin Standard /\ stage' = "plugins"
        /\ queue' = Tail(queue) /\ Dirs(entries') = Dirs(entries)
    BY <1>2, <1>4 DEF UnknownPlugin, AtPlugin, NextPlugin, ledgerVars, Dirs
  <2> DEFINE N == <<>>
  <2>2. ToSet(N) \subseteq ToSet(findings')
    BY DEF ToSet
  <2>3. Plays(Head(queue), Dirs(entries), Dirs(entries'), ToSet(N), {})
    BY <2>1, NothingPlays
  <2> HIDE DEF N
  <2> QED BY <1>1, <1>2, <2>1, <2>2, <2>3, LateRuns DEF Told
<1>5. CASE PluginCanceled
  BY <1>5 DEF PluginCanceled, LateInv, Late
<1>6. CASE Host
  <2>1. queue # <<>> /\ Head(queue).name \in Registered /\ queue \in Seq(PluginsRead)
    BY <1>6 DEF Host, AtPlugin, Typed, ListsInv
  <2>2. Head(queue) \in ToSet(queue) /\ Head(queue) \in PluginsRead
    BY <2>1, TailOf
  <2>3. ASSUME OnlyStandard PROVE FALSE
    <3>1. Head(queue) \in ToSet(directives)
      BY <1>2, <2>2, <2>3 DEF LateInv, Lined
    <3>2. Head(queue).kind = "plugin"
      BY <2>2 DEF PluginsRead
    <3> QED BY <2>1, <2>3, <3>1, <3>2 DEF OnlyStandard
  <2>4. OnlyStandard' <=> OnlyStandard
    BY <1>2 DEF OnlyStandard
  <2> QED BY <2>3, <2>4 DEF LateInv
<1>7. CASE EndPlugins
  <2>1. /\ stage' \in {"done", "pad"} /\ queue = <<>>
        /\ UNCHANGED <<entries, findings, queue>>
    BY <1>7 DEF EndPlugins, ledgerVars
  <2> QED BY <1>2, <2>1, LateStays DEF Late
<1>8. PluginChangesNothing \/ PluginFails \/ (\E d \in Additions : PluginAdds(d))
      \/ (\E k \in DOMAIN entries : PluginRemoves(k)) => Host
  BY DEF PluginChangesNothing, PluginFails, PluginAdds, PluginRemoves
<1> QED BY <1>3, <1>4, <1>5, <1>6, <1>7, <1>8 DEF RunPlugins

LEMMA LateWalks ==
    ASSUME Typed, FindingsInv, ModeInv, PaddingInv, ExactInv, LateInv, Pad \/ Balance \/ Validations
    PROVE  LateInv'
<1>1. /\ stage \in {"pad", "balance", "validations"}
      /\ stage' \in {"pad", "balance", "validations", "done"}
      /\ UNCHANGED <<queue, directives>>
  <2>1. CASE Pad
    BY <2>1 DEF Pad, BeginPad, PadTransaction, RecordPad, NoPad, AlreadyPadded, NothingMissing,
       HeldAtCost, InsertPadding, PadPasses, EndPad, InForce, Asserts, PadFrame, Begins, Visits,
       Ends, WalkFrame, loadVars
  <2>2. CASE Balance
    BY <2>2 DEF Balance, BeginBalance, BalanceTransaction, CheckBalance, BalancePasses,
       EndBalance, BalanceFrame, Begins, Visits, Ends, WalkFrame, loadVars
  <2>3. CASE Validations
    BY <2>3 DEF Validations, BeginValidations, ValidateEntry, EndValidations, Begins, Visits, Ends,
       PassFrame, loadVars
  <2> QED BY <2>1, <2>2, <2>3
<1>2. stage \in Late /\ stage' \in Late /\ stage # "plugins" /\ stage' # "plugins"
  BY <1>1 DEF Late
<1>3. ToSet(findings) \subseteq ToSet(findings')
  BY TellingPad, TellingBalance, FindingsGrow DEF Told
<1>4. CASE EndPad
  BY <1>1, <1>2, <1>3, <1>4, PadFollows, LateFollows
<1>5. CASE EndBalance
  BY <1>1, <1>2, <1>3, <1>5, BalanceFollows, LateFollows
<1>6. CASE UNCHANGED entries
  BY <1>1, <1>2, <1>3, <1>6, LateStays
<1>7. EndPad \/ EndBalance \/ UNCHANGED entries
  BY DEF Pad, BeginPad, PadTransaction, RecordPad, NoPad, AlreadyPadded, NothingMissing,
     HeldAtCost, InsertPadding, PadPasses, InForce, Asserts, PadFrame,
     Balance, BeginBalance, BalanceTransaction, CheckBalance, BalancePasses, BalanceFrame,
     Validations, BeginValidations, ValidateEntry, EndValidations, ledgerVars
<1> QED BY <1>4, <1>5, <1>6, <1>7

LEMMA LateKept ==
    ASSUME LoadInv, PlacedInv, Typed, FindingsInv, ModeInv, ReadInv, PaddingInv, ExactInv, LateInv,
           [Next]_vars
    PROVE  LateInv'
<1>1. LedgerInv'
  BY LedgerKept
<1>2. CASE Loading
  BY <1>2 DEF Loading, ReadDirective, IncludeFile, ExpandGlob, IncludeMatch, Visiting, LoadFrame,
     LateInv, Late
<1>3. CASE FinishLoading \/ Book \/ BookingHalts
  BY <1>1, <1>3, LateLoading
<1>4. CASE VerifyDocuments \/ Canceled
  BY <1>4 DEF VerifyDocuments, Canceled, Fail, LateInv, Late
<1>5. CASE Cancel \/ UNCHANGED vars
  <2>1. UNCHANGED <<stage, entries, queue, directives, findings>>
    BY <1>5 DEF Cancel, vars, ledgerVars, loadVars
  <2>2. LateInv' <=> LateInv
    BY <2>1 DEF LateInv, OnlyStandard, Dirs, ToSet
  <2> QED BY <2>2
<1>6. CASE RunPlugins
  BY <1>6, LatePlugins
<1>7. CASE Pad \/ Balance \/ Validations
  BY <1>7, LateWalks
<1> QED BY <1>2, <1>3, <1>4, <1>5, <1>6, <1>7 DEF Next, Ended

-----------------------------------------------------------------------------
\* All that has been shown to hold throughout.
LedgerIsSound ==
    /\ LoadInv /\ PlacedInv /\ Typed /\ FindingsInv /\ ModeInv /\ ReadInv
    /\ PaddingInv /\ ExactInv /\ LateInv

LEMMA SoundStart == Init => LedgerIsSound
<1> SUFFICES ASSUME Init PROVE LedgerIsSound
  OBVIOUS
<1>1. LoadInv /\ Typed /\ PlacedInv
  BY Starting, TypesStart, PlacedStart
<1>2. stage = "load" /\ findings = <<>> /\ at = 0
  BY DEF Init
<1>3. FindingsInv
  BY <1>2, TellsNothing DEF FindingsInv, Checked
<1> QED BY <1>1, <1>2, <1>3
     DEF LedgerIsSound, ModeInv, Walks, ReadInv, PaddingInv, ExactInv, Checked, LateInv, Late

LEMMA SoundKept == LedgerIsSound /\ [Next]_vars => LedgerIsSound'
BY Stepping, TypesKept, PlacedKept, FindingsKept, ModeKept, ReadKept, PaddingKept, ExactKept,
   LateKept DEF LedgerIsSound

LEMMA LedgerStaysSound == Spec => []LedgerIsSound
BY SoundStart, SoundKept, PTL DEF Spec
-----------------------------------------------------------------------------
\* The plugins named run in the order of their directives.
LEMMA NamedRun ==
    ASSUME LoadInv, PlacedInv, Typed, LateInv, OnlyStandard, stage = "done"
    PROVE  LET qs == Named(entries)
               S == Dirs(entries)
           IN  /\ DOMAIN Names = DOMAIN qs /\ \A k \in DOMAIN qs : Names[k] = qs[k].name
               /\ \A k \in DOMAIN qs : k \in Nat /\ qs[k] \in Plugs(S)
               /\ \A p \in Plugs(S) : \E k \in DOMAIN qs : qs[k] = p
               /\ \A k, l \in DOMAIN qs : k < l /\ qs[k].name # qs[l].name => Leads(qs[k], qs[l])
               /\ Effects(S, ToSet(findings), {})
<1> DEFINE qs == Named(entries)
           S == Dirs(entries)
<1>1. /\ Plugs(S) \subseteq ToSet(directives) /\ Effects(S, ToSet(findings), ToSet(queue))
      /\ queue = <<>>
  BY DEF LateInv, Late
<1>2. /\ ToSet(qs) = Plugs(S) /\ qs \in Seq(Directive)
      /\ \A k, l \in DOMAIN qs : k < l => ~Leads(qs[l], qs[k])
  BY NamedLines DEF Typed, LedgerInv
<1>3. DOMAIN Names = DOMAIN qs /\ \A k \in DOMAIN qs : Names[k] = qs[k].name
  BY DEF Names
<1> HIDE DEF qs
<1>4. /\ \A k \in DOMAIN qs : k \in Nat /\ qs[k] \in ToSet(qs) /\ qs[k] \in Directive
      /\ \A p \in ToSet(qs) : \E k \in DOMAIN qs : qs[k] = p
  BY <1>2 DEF ToSet
<1>5. ASSUME NEW k \in DOMAIN qs, NEW l \in DOMAIN qs, k < l, qs[k].name # qs[l].name
      PROVE  Leads(qs[k], qs[l])
  <2> DEFINE p == qs[k]
             q == qs[l]
  <2>1. p \in ToSet(directives) /\ q \in ToSet(directives) /\ ~Leads(q, p) /\ p # q
    BY <1>1, <1>2, <1>4, <1>5
  <2>2. ~(p.file = q.file /\ p.off = q.off)
    BY <2>1, ReadIsSited
  <2>3. p \in Directive /\ q \in Directive
    BY <1>4
  <2> HIDE DEF p, q
  <2>4. /\ p.date \in Nat /\ p.file \in Nat /\ p.off \in Nat
        /\ q.date \in Nat /\ q.file \in Nat /\ q.off \in Nat
    BY <2>3, DirectiveHas
  <2>5. Leads(p, q)
    BY <2>1, <2>2, <2>4 DEF Leads
  <2> QED BY <2>5 DEF p, q
<1>6. ToSet(queue) = {}
  BY <1>1 DEF ToSet
<1> QED BY <1>1, <1>2, <1>3, <1>4, <1>5, <1>6 DEF qs

\* Whatever the ledger and its plugins, two transactions do not imply
\* different prices of a pair on one day without a finding, once unique_prices
\* has run behind implicit_prices (buildPrice, reportPriceGroup).
THEOREM PricesAreCompared == Spec => []ImpliedPricesAreCompared
<1>1. LedgerIsSound => ImpliedPricesAreCompared
  <2> DEFINE implied == UNION {ToSet(Implied(All[k])) : k \in Kinds(All, "txn")}
             qs == Named(entries)
             S == Dirs(entries)
             F == ToSet(findings)
  <2> SUFFICES ASSUME LedgerIsSound, stage = "done", OnlyStandard,
                      NEW k \in DOMAIN Names, Names[k] = "implicit_prices",
                      NEW j \in (k + 1) .. Len(Names), Names[j] = "unique_prices",
                      NEW d \in implied, NEW e \in implied,
                      <<d.date, d.com, d.cur>> = <<e.date, e.com, e.cur>>, d.num # e.num
               PROVE  \E f \in F, i \in Kinds(All, "price") :
                         /\ f.code = "duplicate-price" /\ f.span = Span(All[i])
                         /\ <<All[i].date, All[i].com, All[i].cur>> = <<d.date, d.com, d.cur>>
    BY DEF ImpliedPricesAreCompared
  <2>1. LoadInv /\ PlacedInv /\ Typed /\ LateInv
    BY DEF LedgerIsSound
  <2>2. /\ DOMAIN Names = DOMAIN qs /\ \A i \in DOMAIN qs : Names[i] = qs[i].name
        /\ \A i \in DOMAIN qs : i \in Nat /\ qs[i] \in Plugs(S)
        /\ \A i, l \in DOMAIN qs : i < l /\ qs[i].name # qs[l].name => Leads(qs[i], qs[l])
        /\ Effects(S, F, {})
    BY <2>1, NamedRun
  <2>3. k \in DOMAIN qs /\ j \in DOMAIN qs /\ k < j
    <3>1. Named(entries) \in Seq(Directive)
      BY <2>1, NamedLines DEF Typed, LedgerInv
    <3>2. Names = [i \in DOMAIN qs |-> Names[i]] /\ qs \in Seq(Directive)
      BY <3>1 DEF Names
    <3> HIDE DEF qs
    <3>3. Len(Names) = Len(qs) /\ DOMAIN qs = 1 .. Len(qs)
      <4>1. \A i \in DOMAIN qs : Names[i] \in {Names[l] : l \in DOMAIN qs}
        OBVIOUS
      <4> QED BY <3>2, <4>1, MadeList
    <3> QED BY <2>2, <3>2, <3>3
  <2> DEFINE p == qs[k]
             q == qs[j]
  <2>4. /\ p \in Plugs(S) /\ q \in Plugs(S) /\ p.name = "implicit_prices"
        /\ q.name = "unique_prices" /\ Leads(p, q)
    BY <2>2, <2>3
  <2> HIDE DEF p, q, qs
  <2>5. Compared(S, F)
    BY <2>2, <2>4 DEF Effects, EffectsCompared
  <2>6. /\ DOMAIN All = DOMAIN entries /\ All \in Seq(Directive) /\ ToSet(All) = S
    BY <2>1, AllTypes, AllIsCanonical DEF Typed
  <2>7. ASSUME NEW x \in implied
        PROVE  \E t \in S : t.kind = "txn" /\ Rate(x) \in Rates(t)
    <3>1. PICK i \in Kinds(All, "txn") : x \in ToSet(Implied(All[i]))
      OBVIOUS
    <3>2. i \in DOMAIN All /\ All[i].kind = "txn"
      BY DEF Kinds
    <3>3. All[i] \in Directive /\ All[i] \in S
      BY <2>6, <3>2 DEF ToSet
    <3>4. Rate(x) \in Rates(All[i])
      BY <3>1, <3>2, <3>3, ImpliedRates
    <3> QED BY <3>2, <3>3, <3>4
  <2>8. PICK t \in S : t.kind = "txn" /\ Rate(d) \in Rates(t)
    BY <2>7
  <2>9. PICK u \in S : u.kind = "txn" /\ Rate(e) \in Rates(u)
    BY <2>7
  <2> HIDE DEF implied, S, F
  <2>10. Mentions(F, S, Rate(d))
    <3> DEFINE r == Rate(d)
               s == Rate(e)
    <3>1. r[1] = s[1] /\ r[2] = s[2] /\ r[3] = s[3] /\ r[4] # s[4]
      BY DEF Rate
    <3> HIDE DEF r, s
    <3>2. r \in Rates(t) /\ s \in Rates(u)
      BY <2>8, <2>9 DEF r, s
    <3>3. Mentions(F, S, r)
      BY <2>5, <2>8, <2>9, <3>1, <3>2 DEF Compared
    <3> QED BY <3>3 DEF r
  <2>11. PICK f \in F, x \in S :
           /\ x.kind = "price" /\ f.code = "duplicate-price" /\ f.span = Span(x)
           /\ x.date = d.date /\ x.com = d.com /\ x.cur = d.cur
    BY <2>10 DEF Mentions, Rate
  <2>12. PICK i \in DOMAIN All : All[i] = x
    BY <2>6 DEF ToSet
  <2>13. i \in Kinds(All, "price")
    BY <2>11, <2>12 DEF Kinds
  <2> QED BY <2>11, <2>12, <2>13
<1> QED BY <1>1, LedgerStaysSound, PTL
-----------------------------------------------------------------------------
LEMMA LastRuns ==
    ASSUME LoadInv, PlacedInv, Typed, LateInv, OnlyStandard, stage = "done",
           NEW m, NEW other, m # other, LastOf(m, {other})
    PROVE  \E p \in Plugs(Dirs(entries)) : p.name = m /\ LastTo(Dirs(entries), p, other)
<1> DEFINE qs == Named(entries)
           S == Dirs(entries)
<1>1. PICK k \in DOMAIN Names : Names[k] = m /\ \A j \in (k + 1) .. Len(Names) : Names[j] # other
  BY DEF LastOf
<1>2. /\ DOMAIN Names = DOMAIN qs /\ \A i \in DOMAIN qs : Names[i] = qs[i].name
      /\ \A i \in DOMAIN qs : i \in Nat /\ qs[i] \in Plugs(S)
      /\ \A p \in Plugs(S) : \E i \in DOMAIN qs : qs[i] = p
      /\ \A i, l \in DOMAIN qs : i < l /\ qs[i].name # qs[l].name => Leads(qs[i], qs[l])
  BY NamedRun
<1>3. qs \in Seq(Directive)
  BY NamedLines DEF Typed, LedgerInv
<1>4. Len(Names) = Len(qs) /\ DOMAIN qs = 1 .. Len(qs)
  <2>1. Names = [i \in DOMAIN qs |-> Names[i]]
    BY DEF Names
  <2> HIDE DEF qs
  <2>2. \A i \in DOMAIN qs : Names[i] \in {Names[l] : l \in DOMAIN qs}
    OBVIOUS
  <2> QED BY <1>3, <2>1, <2>2, MadeList
<1> HIDE DEF qs, S
<1>5. qs[k] \in Plugs(S) /\ qs[k].name = m
  BY <1>1, <1>2
<1>6. ASSUME NEW q \in Plugs(S), q.name = other PROVE Leads(q, qs[k])
  <2>1. PICK l \in DOMAIN qs : qs[l] = q
    BY <1>2
  <2>2. Names[l] = other /\ l \in Nat /\ k \in Nat /\ k \in DOMAIN qs /\ l <= Len(Names)
    BY <1>2, <1>3, <1>4, <1>6, <2>1
  <2>3. ~(l > k)
    BY <1>1, <2>2
  <2>4. l # k
    BY <1>1, <2>2
  <2> QED BY <1>2, <1>5, <1>6, <2>1, <2>2, <2>3, <2>4
<1> QED BY <1>5, <1>6 DEF LastTo, S

\* What stands below a closed account is refused behind the closing.
LEMMA ClosedTrees ==
    ASSUME LedgerIsSound, ~raw, stage = "done", OnlyStandard
    PROVE  TreesAreClosed
<1> DEFINE S == Dirs(entries)
<1>1. LoadInv /\ PlacedInv /\ Typed /\ LateInv /\ FindingsInv
  BY DEF LedgerIsSound
<1> SUFFICES ASSUME LastOf("close_tree", {"auto_accounts"}),
                    NEW k \in DOMAIN entries, NEW j \in DOMAIN entries, Closes(k),
                    entries[j].dir.kind \in {"txn", "pad"},
                    entries[k].dir.date < entries[j].dir.date,
                    NEW a \in References(entries[j].dir),
                    a \in Below[entries[k].dir.acct] \ {entries[k].dir.acct},
                    OpenBefore(All, k, a),
                    \A i \in Of("close", a), o \in Opening(a) : ~(i < o)
             PROVE  Refused(a, entries[j].dir)
  BY DEF TreesAreClosed
<1> DEFINE c == entries[k].dir
           d == entries[j].dir
<1>2. /\ c.kind = "close" /\ c \in Directive /\ d \in Directive /\ c.date \in Nat /\ d.date \in Nat
      /\ c.date < d.date
  BY <1>1, EntriesInOrder DEF Closes, Typed
<1>3. Effects(S, ToSet(findings), {})
  BY <1>1, NamedRun
<1>4. Trees(S)
  <2>1. PICK p \in Plugs(S) : p.name = "close_tree" /\ LastTo(S, p, "auto_accounts")
    BY <1>1, LastRuns
  <2> HIDE DEF S
  <2> QED BY <1>3, <2>1 DEF Effects, EffectsTrees
<1>5. /\ DOMAIN All = DOMAIN entries /\ \A i \in DOMAIN entries : All[i] = entries[i].dir
  BY <1>1, AllTypes DEF Typed
<1>6. PICK o \in FirstOpen(All, a) : o < k /\ All[o].date <= All[k].date
  BY DEF OpenBefore
<1>7. FirstOpen(All, a) = Opening(a)
  <2>1. \A i : i \in {x \in Kinds(All, "open") : All[x].acct = a} <=> i \in Of("open", a)
    BY <1>5 DEF Kinds, Of
  <2>2. {x \in Kinds(All, "open") : All[x].acct = a} = Of("open", a)
    BY <2>1
  <2> QED BY <2>2 DEF FirstOpen, Opening
<1>8. /\ o \in DOMAIN entries /\ entries[o].dir.kind = "open" /\ entries[o].dir.acct = a
      /\ entries[o].dir.date <= c.date /\ o \in Opening(a)
  BY <1>5, <1>6, <1>7 DEF Opening, Of
<1>9. PICK i \in DOMAIN entries : /\ entries[i].dir.kind = "close" /\ entries[i].dir.acct = a
                                  /\ entries[i].dir.date <= c.date
  <2>1. entries[k].dir \in S /\ entries[o].dir \in S
    BY <1>8 DEF S, Dirs
  <2> HIDE DEF S, c
  <2>2. \E b \in S : b.kind = "close" /\ b.acct = a /\ b.date <= c.date
    BY <1>2, <1>4, <1>8, <2>1 DEF Trees, c
  <2> QED BY <2>2 DEF S, Dirs
<1>10. i \in Of("close", a) /\ ~(i < o)
  BY <1>8, <1>9 DEF Of
<1>11. entries[o].dir.date <= entries[i].dir.date
  <2>1. /\ o \in Nat /\ i \in Nat
        /\ o <= i => entries[o].dir.date <= entries[i].dir.date
    BY <1>1, <1>8, EntriesInOrder DEF Typed
  <2> QED BY <1>10, <2>1
<1>12. ClosedBefore(a, d.date)
  <2>1. OpenedBy(a, entries[i].dir.date)
    BY <1>8, <1>11 DEF OpenedBy, Of
  <2>2. entries[i].dir.date \in Nat
    BY <1>1, EntriesInOrder DEF Typed
  <2>3. entries[i].dir.date < d.date
    BY <1>2, <1>9, <2>2
  <2> QED BY <1>10, <2>1, <2>3 DEF ClosedBefore
<1>13. a \in NotOpen(d)
  <2> HIDE DEF d
  <2> QED BY <1>12 DEF NotOpen, d
<1>14. Reason(Span(d), a)
  BY <1>13 DEF Reason, Seen
<1>15. Refuses(findings, Span(d), a)
  BY <1>1, <1>14 DEF FindingsInv, Checked
<1> QED BY <1>15 DEF Refused, Refuses, Refusals
-----------------------------------------------------------------------------
\* An initial segment is as long as it has members.
LEMMA SegmentSize ==
    ASSUME NEW n \in Nat, NEW P \in SUBSET (1 .. n),
           \A i \in P, j \in 1 .. n : j <= i => j \in P
    PROVE  Cardinality(P) \in 0 .. n /\ P = 1 .. Cardinality(P)
<1> DEFINE Q == {j \in 1 .. n + 1 : j \notin P}
<1>1. n + 1 \in Q /\ Q \in SUBSET Nat /\ Q # {}
  OBVIOUS
<1>2. PICK x \in Q : \A y \in Q : x <= y
  <2> HIDE DEF Q
  <2> QED BY <1>1, LeastOf
<1>3. x \in 1 .. n + 1 /\ x \notin P
  OBVIOUS
<1>4. \A j \in 1 .. n : j \in P <=> j <= x - 1
  <2> SUFFICES ASSUME NEW j \in 1 .. n PROVE j \in P <=> j <= x - 1
    OBVIOUS
  <2>1. j < x => j \in P
    BY <1>2, <1>3
  <2>2. j >= x => j \notin P
    BY <1>3
  <2> QED BY <1>3, <2>1, <2>2
<1>5. P = 1 .. x - 1
  <2>1. \A j : j \in 1 .. x - 1 <=> j \in 1 .. n /\ j <= x - 1
    BY <1>3
  <2>2. \A j : j \in P <=> j \in 1 .. n /\ j <= x - 1
    BY <1>4
  <2> HIDE DEF Q
  <2>3. \A j : j \in P <=> j \in 1 .. x - 1
    BY ONLY <2>1, <2>2
  <2> QED BY <2>3, Zenon
<1>6. Cardinality(1 .. x - 1) = x - 1
  BY <1>3, FS_Interval
<1> QED BY <1>3, <1>5, <1>6

\* The entries up to a day.
LEMMA DayEnds ==
    ASSUME LedgerInv, NEW date \in Nat,
           NEW end, end = Cardinality({j \in DOMAIN entries : entries[j].dir.date <= date})
    PROVE  /\ end + 1 \in 1 .. Len(entries) + 1
           /\ \A j \in DOMAIN entries : j < end + 1 <=> entries[j].dir.date <= date
<1> DEFINE P == {j \in DOMAIN entries : entries[j].dir.date <= date}
<1>1. DOMAIN entries = 1 .. Len(entries) /\ Len(entries) \in Nat
  BY DEF LedgerInv
<1>2. P \in SUBSET (1 .. Len(entries))
  BY <1>1
<1>3. ASSUME NEW i \in P, NEW j \in 1 .. Len(entries), j <= i PROVE j \in P
  <2>1. i \in DOMAIN entries /\ j \in DOMAIN entries /\ entries[i].dir.date <= date
    BY <1>1
  <2>2. /\ entries[i].dir.date \in Nat /\ entries[j].dir.date \in Nat
        /\ entries[j].dir.date <= entries[i].dir.date
    BY <1>3, <2>1, EntriesInOrder
  <2> QED BY <2>1, <2>2
<1>4. \A j : j \in P <=> j \in DOMAIN entries /\ entries[j].dir.date <= date
  OBVIOUS
<1>5. end = Cardinality(P)
  OBVIOUS
<1> HIDE DEF P
<1>6. end \in 0 .. Len(entries) /\ P = 1 .. end
  BY <1>1, <1>2, <1>3, <1>5, SegmentSize
<1>7. end + 1 \in 1 .. Len(entries) + 1
  BY <1>1, <1>6
<1>8. ASSUME NEW j \in DOMAIN entries PROVE j < end + 1 <=> entries[j].dir.date <= date
  <2>1. j \in Nat /\ j >= 1 /\ end \in Nat
    BY <1>1, <1>6
  <2>2. j < end + 1 <=> j \in 1 .. end
    BY <2>1
  <2>3. j \in 1 .. end <=> entries[j].dir.date <= date
    BY <1>4, <1>6
  <2> QED BY <2>2, <2>3
<1> QED BY <1>7, <1>8

\* A closed account holds nothing, or the rest is recorded on an assertion.
LEMMA ClosedDrained ==
    ASSUME LedgerIsSound, ~raw, stage = "done", OnlyStandard
    PROVE  DrainedOrReported
<1> DEFINE S == Dirs(entries)
<1>1. LoadInv /\ PlacedInv /\ Typed /\ LateInv /\ ExactInv /\ LedgerInv
  BY DEF LedgerIsSound, Typed
<1> SUFFICES ASSUME LastOf("check_drained", {"close_tree"}),
                    NEW k \in DOMAIN entries, Closes(k), entries[k].dir.acct \in BalanceSheet
             PROVE  LET d == entries[k].dir
                        end == Cardinality({j \in DOMAIN entries : entries[j].dir.date <= d.date})
                        moved == Those(All, {j \in Kinds(All, "txn") : ~All[j].padding})
                    IN  \A c \in {p.cur : p \in {q \in Amounts(moved) : q.acct = d.acct}} :
                          LET rest == HeldBefore(end + 1, Below[d.acct], c)
                          IN  \/ rest = 0
                              \/ Asserted(All, d.acct, c, d.date)
                              \/ \E b \in Assertions(d.acct, c) :
                                    /\ entries[b].dir.date = d.date + 1
                                    /\ entries[b].dir.diff = rest
  BY DEF DrainedOrReported
<1> DEFINE d == entries[k].dir
           end == Cardinality({j \in DOMAIN entries : entries[j].dir.date <= d.date})
           J == {j \in Kinds(All, "txn") : ~All[j].padding}
           moved == Those(All, J)
<1> SUFFICES ASSUME NEW q \in Amounts(moved), q.acct = d.acct
             PROVE  LET c == q.cur
                        rest == HeldBefore(end + 1, Below[d.acct], c)
                    IN  \/ rest = 0
                        \/ Asserted(All, d.acct, c, d.date)
                        \/ \E b \in Assertions(d.acct, c) :
                              /\ entries[b].dir.date = d.date + 1
                              /\ entries[b].dir.diff = rest
  OBVIOUS
<1> DEFINE c == q.cur
           rest == HeldBefore(end + 1, Below[d.acct], c)
<1>2. /\ d.kind = "close" /\ d \in Directive /\ d.date \in Nat /\ d \in S
  BY <1>1, EntriesInOrder DEF Closes, Dirs
<1>3. /\ DOMAIN All = DOMAIN entries /\ \A i \in DOMAIN entries : All[i] = entries[i].dir
      /\ All \in Seq(Directive)
  BY <1>1, AllTypes
<1>4. Drained(S)
  <2>1. PICK p \in Plugs(S) : p.name = "check_drained" /\ LastTo(S, p, "close_tree")
    BY <1>1, LastRuns
  <2>2. Effects(S, ToSet(findings), {})
    BY <1>1, NamedRun
  <2> HIDE DEF S
  <2> QED BY <2>1, <2>2 DEF Effects, EffectsDrained
<1>5. PICK j \in DOMAIN entries :
         /\ entries[j].dir.kind = "txn" /\ ~entries[j].dir.padding
         /\ q \in ToSet(entries[j].dir.posts) /\ HasAmount(q)
  <2>1. J \in SUBSET DOMAIN All /\ \A i \in J : All[i].kind = "txn" /\ ~All[i].padding
    BY DEF Kinds
  <2> HIDE DEF J
  <2>2. moved \in Seq(Directive) /\ ToSet(moved) = {All[i] : i \in J}
    BY <1>3, <2>1, ThoseHold
  <2> HIDE DEF moved
  <2>3. PICK i \in DOMAIN moved : q \in ToSet(moved[i].posts)
    BY DEF Amounts, Postings, Kinds
  <2>4. HasAmount(q)
    BY DEF Amounts
  <2>5. moved[i] \in ToSet(moved)
    BY <2>3 DEF ToSet
  <2>6. PICK l \in J : moved[i] = All[l]
    BY <2>2, <2>5
  <2> QED BY <1>3, <2>1, <2>3, <2>4, <2>6
<1>6. <<d.acct, c>> \in Moved(entries[j].dir)
  <2>1. PICK l \in DOMAIN entries[j].dir.posts : entries[j].dir.posts[l] = q
    BY <1>5 DEF ToSet
  <2> QED BY <1>5, <2>1 DEF Moved
<1>7. PICK i \in DOMAIN entries :
         /\ entries[i].dir.kind = "balance" /\ entries[i].dir.acct = d.acct
         /\ entries[i].dir.cur = c
         /\ \/ entries[i].dir.date = d.date
            \/ /\ entries[i].dir.date = d.date + 1 /\ entries[i].dir.num = 0
               /\ entries[i].dir.tol = 0
  <2> DEFINE m == <<d.acct, c>>
             t == entries[j].dir
  <2>1. t \in S /\ d.acct \in BalanceSheet /\ m[1] = d.acct /\ m[2] = c
    BY DEF Dirs
  <2>2. m \in Moved(t) /\ t.kind = "txn" /\ ~t.padding
    BY <1>5, <1>6
  <2> HIDE DEF m, t, S, d, c
  <2>3. \E b \in S : /\ b.kind = "balance" /\ b.acct = d.acct /\ b.cur = c
                     /\ \/ b.date = d.date
                        \/ b.date = d.date + 1 /\ b.num = 0 /\ b.tol = 0
    BY <1>2, <1>4, <2>1, <2>2 DEF Drained
  <2> QED BY <2>3 DEF S, Dirs
<1>8. CASE entries[i].dir.date = d.date
  <2>1. Asserted(All, d.acct, c, d.date)
    BY <1>3, <1>7, <1>8 DEF Asserted, Kinds
  <2> QED BY <2>1
<1>9. CASE /\ entries[i].dir.date = d.date + 1 /\ entries[i].dir.num = 0 /\ entries[i].dir.tol = 0
  <2>1. /\ end + 1 \in 1 .. Len(entries) + 1
        /\ \A l \in DOMAIN entries : l < end + 1 <=> entries[l].dir.date <= d.date
    <3> HIDE DEF d
    <3>1. end = Cardinality({l \in DOMAIN entries : entries[l].dir.date <= d.date})
      OBVIOUS
    <3> HIDE DEF end
    <3> QED BY <1>1, <1>2, <3>1, DayEnds
  <2> DEFINE e == end + 1
             B == Below[d.acct]
  <2>2. \A l \in DOMAIN entries : entries[l].dir.kind = "txn" => (l < e <=> l < i)
    <3> SUFFICES ASSUME NEW l \in DOMAIN entries, entries[l].dir.kind = "txn"
                 PROVE  l < e <=> l < i
      OBVIOUS
    <3>1. l < e <=> entries[l].dir.date <= d.date
      BY <2>1
    <3>2. /\ l \in Nat /\ i \in Nat /\ entries[l].dir.date \in Nat /\ entries[i].dir.date \in Nat
          /\ l <= i => entries[l].dir.date <= entries[i].dir.date
          /\ l < i /\ entries[l].dir.date = entries[i].dir.date =>
                Rank[entries[l].dir.kind] <= Rank[entries[i].dir.kind]
      BY <1>1, EntriesInOrder
    <3>3. i <= l => entries[i].dir.date <= entries[l].dir.date
      BY <1>1, EntriesInOrder
    <3>4. ~(Rank[entries[l].dir.kind] <= Rank[entries[i].dir.kind])
      BY <1>7 DEF Rank
    <3>5. entries[i].dir.date = d.date + 1 /\ d.date \in Nat
      BY <1>2, <1>9
    <3> HIDE DEF d, e
    <3>6. l < i => entries[l].dir.date <= d.date
      BY <3>2, <3>4, <3>5
    <3>7. entries[l].dir.date <= d.date => l < i
      BY <3>2, <3>3, <3>5
    <3> QED BY <3>1, <3>6, <3>7
  <2>3. entries \in Seq(Entry) /\ i \in 1 .. Len(entries) + 1 /\ i \in Nat
    BY <1>1 DEF LedgerInv
  <2>4. e \in 1 .. Len(entries) + 1
    BY <2>1
  <2> HIDE DEF e, B
  <2>5. TxnsOf(entries, e) = TxnsOf(entries, i)
    <3>1. \A l : l \in TxnsOf(entries, e) <=>
                    l \in DOMAIN entries /\ l < e /\ entries[l].dir.kind = "txn"
      BY <2>3, <2>4 DEF TxnsOf
    <3>2. \A l : l \in TxnsOf(entries, i) <=>
                    l \in DOMAIN entries /\ l < i /\ entries[l].dir.kind = "txn"
      BY <2>3 DEF TxnsOf
    <3> QED BY <2>2, <3>1, <3>2
  <2>6. HeldBefore(e, B, c) = Holds(entries, e, B, c)
    <3>1. TxnsBefore(e) = TxnsOf(entries, e)
      BY DEF TxnsBefore, TxnsOf
    <3>2. TxnsOf(entries, e) \in SUBSET DOMAIN entries /\ IsFiniteSet(TxnsOf(entries, e))
      BY <2>3, <2>4, TxnsOfTypes
    <3> HIDE DEF c
    <3> QED BY <3>1, <3>2, SumOfMoves DEF HeldBefore, Holds
  <2>7. rest = Holds(entries, i, B, c) /\ Holds(entries, i, B, c) \in Int
    <3>1. rest = HeldBefore(e, B, c)
      BY DEF e, B
    <3>2. Holds(entries, e, B, c) = Holds(entries, i, B, c)
      BY <2>5 DEF Holds
    <3>3. Holds(entries, i, B, c) \in Int
      BY <2>3, HoldsType
    <3> HIDE DEF rest
    <3> QED BY <2>6, <3>1, <3>2, <3>3
  <2>8. Off(entries, i) = rest /\ rest \in Int
    <3>1. Off(entries, i) = Holds(entries, i, B, c) - 0
      BY <1>7, <1>9 DEF Off, B
    <3> HIDE DEF rest
    <3> QED BY <2>7, <3>1
  <2>9. entries[i].dir.diff = IF Within(rest, 0) THEN None ELSE rest
    <3> HIDE DEF rest
    <3> QED BY <1>1, <1>7, <1>9, <2>8 DEF ExactInv, Exact, Checked
  <2>10. rest = 0 \/ entries[i].dir.diff = rest
    <3> HIDE DEF rest
    <3> QED BY <2>8, <2>9 DEF Within
  <2>11. i \in Assertions(d.acct, c)
    BY <1>7 DEF Assertions
  <2> QED BY <1>9, <2>10, <2>11
<1> QED BY <1>7, <1>8, <1>9

\* Whatever the ledger and its plugins, no account of the balance sheet is
\* closed with something in it, and none is moved under a closed one, without
\* a word, once check_drained and close_tree have seen the closings (closetree,
\* checkdrained, and every plugin and pass behind them).
THEOREM ClosingsAreFinal == Spec => []ClosedIsFinal
<1>1. LedgerIsSound => ClosedIsFinal
  BY ClosedDrained, ClosedTrees DEF ClosedIsFinal
<1> QED BY <1>1, LedgerStaysSound, PTL
=============================================================================
