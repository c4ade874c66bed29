------------------------------ MODULE Plugins ------------------------------
(***************************************************************************)
(* The plugins of pkg/ext/postproc/std, as functions of the directives in  *)
(* canonical order.  A result has findings and the directives to put in    *)
(* place of the ledger, None when it stays as it is.  Where the code sorts *)
(* accounts or currencies by name, any one order stands for that of names. *)
(*                                                                         *)
(* A configuration is None, Malformed, or what it says: a tag, a filter of *)
(* accounts, or pairs of what to ignore; a regular expression is the set   *)
(* it matches, Malformed when it does not compile.                         *)
(***************************************************************************)
EXTENDS Directives

CONSTANT Malformed  \* a configuration that cannot be read

ASSUME NoneIsNotMalformed == None # Malformed
ASSUME NoneIsNoLedger == None \notin Seq(Directive)

Changes(dirs) == [dirs |-> dirs, findings |-> <<>>]
Reports(findings) == [dirs |-> None, findings |-> findings]
NoChange == Reports(<<>>)

\* diagSpan: findings point at d, or at the plugin p when d has no place.
At(d, p) == IF Span(d) = Span(NoSpan) THEN p ELSE d

Kinds(ds, kind) == {k \in DOMAIN ds : ds[k].kind = kind}
Txns(ds) == Those(ds, Kinds(ds, "txn"))
Postings(ds) == UNION {ToSet(ds[k].posts) : k \in Kinds(ds, "txn")}
Amounts(ds) == {p \in Postings(ds) : HasAmount(p)}
\* The first open of an account, if any.
FirstOpen(ds, a) ==
    LET os == {k \in Kinds(ds, "open") : ds[k].acct = a}
    IN  {k \in os : \A j \in os : k <= j}
Referenced(ds) == UNION {References(ds[k]) : k \in DOMAIN ds}
-----------------------------------------------------------------------------
\* auto_accounts: open every account at its first use.
FirstUse(ds, a) == Min({ds[k].date : k \in {j \in DOMAIN ds : a \in References(ds[j])}})
AutoAccounts(ds) ==
    LET missing == SetToSeq({a \in Referenced(ds) : FirstOpen(ds, a) = {}})
    IN  IF missing = <<>> THEN NoChange
        ELSE Changes([k \in DOMAIN missing |->
                        [kind |-> "open", date |-> FirstUse(ds, missing[k]),
                         file |-> NoFile, off |-> 0, acct |-> missing[k],
                         curs |-> {}, single |-> TRUE]]
                     \o ds)

\* A balance of zero that points at d.
Nothing(a, cur, date, d) ==
    [kind |-> "balance", date |-> date, acct |-> a, num |-> 0, cur |-> cur,
     tol |-> 0, diff |-> None, file |-> d.file, off |-> d.off]

\* check_closing: a posting marked as closing leaves nothing the day after.
ClosingPost(p) == p.closing /\ HasAmount(p)
Expand(t) ==
    LET marked == Those(t.posts, {k \in DOMAIN t.posts : ClosingPost(t.posts[k])})
    IN  [k \in DOMAIN marked |-> Nothing(marked[k].acct, marked[k].cur, t.date + 1, t)]
        \o <<[t EXCEPT !.posts = [k \in DOMAIN @ |->
                IF ClosingPost(@[k]) THEN [@[k] EXCEPT !.closing = FALSE] ELSE @[k]]]>>
CheckClosing(ds) ==
    Changes(FlattenSeq([k \in DOMAIN ds |->
              IF ds[k].kind = "txn" THEN Expand(ds[k]) ELSE <<ds[k]>>]))

\* check_drained: a balance-sheet account that is closed holds nothing the
\* day after, in any currency it has held.  One asserted on the day of the
\* closing is left out.
Held(ds, a) == {p.cur : p \in {q \in Amounts(ds) : q.acct = a}}
               \cup UNION {ds[k].curs : k \in {j \in Kinds(ds, "open") : ds[j].acct = a}}
Asserted(ds, a, cur, date) ==
    \E k \in Kinds(ds, "balance") :
        ds[k].acct = a /\ ds[k].cur = cur /\ ds[k].date = date
\* mutant: only the currencies an account was opened with
SynthesizeBalances_Opened(ds, c) ==
    LET curs == SetToSeq(UNION {ds[k].curs : k \in FirstOpen(ds, c.acct)})
    IN  [k \in DOMAIN curs |-> Nothing(c.acct, curs[k], c.date + 1, c)]

SynthesizeBalances(ds, c) ==
    LET curs == SetToSeq({cur \in Held(ds, c.acct) : ~Asserted(ds, c.acct, cur, c.date)})
    IN  [k \in DOMAIN curs |-> Nothing(c.acct, curs[k], c.date + 1, c)]
CheckDrained(ds) ==
    Changes(FlattenSeq([k \in DOMAIN ds |->
              (IF ds[k].kind = "close" /\ ds[k].acct \in BalanceSheet
               THEN SynthesizeBalances(ds, ds[k]) ELSE <<>>) \o <<ds[k]>>]))

\* close_tree: a close closes the subaccounts that are open by then.
\* Descendants(ds, k): those open before the close at k, closed neither by a
\* close before it nor along with another account.
OpenBefore(ds, k, a) ==
    \E o \in FirstOpen(ds, a) : o < k /\ ds[o].date <= ds[k].date
Takes(ds, k, a) == a \in Below[ds[k].acct] \ {ds[k].acct} /\ OpenBefore(ds, k, a)
Descendants(ds, k) ==
    {a \in Accounts : Takes(ds, k, a) /\ ~\E j \in Kinds(ds, "close") :
                                            j < k /\ (ds[j].acct = a \/ Takes(ds, j, a))}
CloseTree(ds) ==
    LET subs(k) == IF ds[k].kind = "close" THEN SetToSeq(Descendants(ds, k)) ELSE <<>>
        closes(k) == [j \in DOMAIN subs(k) |->
                        [kind |-> "close", date |-> ds[k].date, acct |-> subs(k)[j],
                         file |-> ds[k].file, off |-> ds[k].off]]
    IN  IF \A k \in DOMAIN ds : subs(k) = <<>> THEN NoChange
        ELSE Changes(FlattenSeq([k \in DOMAIN ds |-> <<ds[k]>> \o closes(k)]))

\* exclude_tag: drop the transactions with the tag.
ExcludeTag(p, ds) ==
    LET tag == IF p.config = None THEN "virtual" ELSE p.config.tag
        kept == Those(ds, {k \in DOMAIN ds : ~(ds[k].kind = "txn" /\ tag \in ds[k].tags)})
    IN  IF kept = ds THEN NoChange ELSE Changes(kept)
-----------------------------------------------------------------------------
\* implicit_prices: buildPrice.  The price of a posting, its cost failing
\* that; a price in total is divided by the units.
PerUnit(p) ==
    IF p.price # None
    THEN [cur |-> p.price.cur,
          num |-> IF p.price.total THEN p.price.num \div Abs(p.num) ELSE p.price.num]
    ELSE [cur |-> p.cost.cur, num |-> p.cost.num]
HasPrice(p) == /\ HasAmount(p)
               /\ p.price # None \/ p.cost # None
               /\ p.price # None => ~(p.price.total /\ p.num = 0)
Implied(t) ==
    LET ps == Those(t.posts, {k \in DOMAIN t.posts : HasPrice(t.posts[k])})
    IN  [k \in DOMAIN ps |-> [kind |-> "price", date |-> t.date, file |-> t.file,
                              off |-> t.off, com |-> ps[k].cur,
                              num |-> PerUnit(ps[k]).num, cur |-> PerUnit(ps[k]).cur]]
Rate(d) == <<d.date, d.com, d.cur, d.num>>
\* One price for each date, pair and number, behind its transaction.  Fresh:
\* those of t that neither the rates before it nor t itself has given.
\* mutant: of the prices of one pair and day the first alone is added
Fresh_Pair(t, rates) ==
    LET ps == Implied(t)
        isNew(i) == \A r \in rates \cup {Rate(ps[j]) : j \in 1..(i - 1)} :
                       SubSeq(r, 1, 3) # SubSeq(Rate(ps[i]), 1, 3)
    IN  Those(ps, {i \in DOMAIN ps : isNew(i)})

Fresh(t, rates) ==
    LET ps == Implied(t)
        isNew(i) == Rate(ps[i]) \notin rates \cup {Rate(ps[j]) : j \in 1..(i - 1)}
    IN  Those(ps, {i \in DOMAIN ps : isNew(i)})
ImplicitPrices(ds) ==
    LET rates(k) == {Rate(d) : d \in UNION {ToSet(Implied(ds[j])) :
                                   j \in {i \in Kinds(ds, "txn") : i < k}}}
    IN  Changes(FlattenSeq([k \in DOMAIN ds |-> <<ds[k]>> \o
                  (IF ds[k].kind = "txn" THEN Fresh(ds[k], rates(k)) ELSE <<>>)]))

\* unique_prices: a price that disagrees with the first of its day.
UniquePrices(p, ds) ==
    LET pair(k) == <<ds[k].date, ds[k].com, ds[k].cur>>
        differs(k) ==
            /\ ds[k].kind = "price"
            /\ \E j \in Kinds(ds, "price") :
                  /\ pair(j) = pair(k) /\ ds[j].num # ds[k].num
                  /\ \A i \in Kinds(ds, "price") : pair(i) = pair(k) => j <= i
        bad == Those(ds, {k \in DOMAIN ds : differs(k)})
    IN  Reports([k \in DOMAIN bad |->
                   Finding("duplicate-price", At(bad[k], p), bad[k].com)])
-----------------------------------------------------------------------------
\* leafonly: a posting on an account that has one below it.
NonLeaf(ds) == {a \in Referenced(ds) : \E b \in Referenced(ds) : b \in Below[a] \ {a}}
LeafOnly(p, ds) ==
    LET onNonLeaf(t) ==
            Those(t.posts, {k \in DOMAIN t.posts : t.posts[k].acct \in NonLeaf(ds)})
        found(t) == [k \in DOMAIN onNonLeaf(t) |->
                       Finding("non-leaf-account", At(t, p), onNonLeaf(t)[k].acct)]
        ts == Txns(ds)
    IN  Reports(FlattenSeq([k \in DOMAIN ts |-> found(ts[k])]))

\* noduplicates: a transaction with the date and postings of an earlier one.
Tuple(q) == IF HasAmount(q) THEN <<q.acct, q.num, q.cur>> ELSE <<q.acct, None, None>>
Similarity(t) ==
    LET tuples == {Tuple(q) : q \in ToSet(t.posts)}
    IN  <<t.date, [x \in tuples |-> Cardinality({k \in DOMAIN t.posts : Tuple(t.posts[k]) = x})]>>
NoDuplicates(p, ds) ==
    LET ts == Txns(ds)
        again(k) == \E j \in 1..(k - 1) : Similarity(ts[j]) = Similarity(ts[k])
        dups == Those(ts, {k \in DOMAIN ts : again(k)})
    IN  Reports([k \in DOMAIN dups |->
                   Finding("duplicate-transaction", At(dups[k], p), None)])

\* A finding about each of these accounts, at its first open.
AtOpens(code, p, ds, accounts) ==
    LET as == SetToSeq(accounts)
        place(a) == IF FirstOpen(ds, a) = {} THEN p
                    ELSE At(ds[CHOOSE k \in FirstOpen(ds, a) : TRUE], p)
    IN  [k \in DOMAIN as |-> Finding(code, place(as[k]), as[k])]

\* nounused: an account that is opened and mentioned nowhere else.
NoUnused(p, ds) ==
    LET others == Those(ds, {k \in DOMAIN ds : ds[k].kind # "open"})
        opened == {ds[k].acct : k \in Kinds(ds, "open")}
    IN  Reports(AtOpens("unused-account", p, ds, opened \ Referenced(others)))

\* coherent_cost: a commodity held both with and without a cost.
CoherentCost(p, ds) ==
    LET with(b) == {<<q.acct, q.cur>> : q \in {r \in Amounts(ds) : (r.cost # None) = b}}
        both == with(TRUE) \cap with(FALSE)
        of(cur) == {a \in Accounts : <<a, cur>> \in both}
        curs == SetToSeq(Currencies)
    IN  Reports(FlattenSeq([k \in DOMAIN curs |->
                  AtOpens("incoherent-cost", p, ds, of(curs[k]))]))

\* check_commodity: a currency in use that no directive declares.  One that
\* only prices use is not reported when an account that uses it is ignored.
Compiles(pair) == pair.scope # Malformed /\ pair.curs # Malformed
Uses(ds) ==
    {<<ds[k].acct, ds[k].cur>> : k \in Kinds(ds, "balance")}
    \cup (UNION {{<<ds[k].acct, cur>> : cur \in ds[k].curs} : k \in Kinds(ds, "open")})
    \cup {<<q.acct, q.cur>> : q \in Amounts(ds)}
    \cup {<<q.acct, q.price.cur>> : q \in {r \in Postings(ds) : r.price # None}}
    \cup {<<q.acct, q.cost.cur>> :
            q \in {r \in Postings(ds) : IF r.cost = None THEN FALSE ELSE r.cost.stated}}
CheckCommodity(p, ds) ==
    LET declared == {ds[k].cur : k \in Kinds(ds, "commodity")}
        pairs == IF p.config = None THEN <<>> ELSE p.config.pairs
        ignored(u) == \E k \in DOMAIN pairs :
                        /\ Compiles(pairs[k])
                        /\ u[1] \in pairs[k].scope /\ u[2] \in pairs[k].curs
        wrong(pair) ==
            Those(<<pair.scope, pair.curs>>,
                  {k \in 1..2 : <<pair.scope, pair.curs>>[k] = Malformed})
        bad == FlattenSeq([k \in DOMAIN pairs |-> wrong(pairs[k])])
        used == {u[2] : u \in {v \in Uses(ds) : ~ignored(v)}}
        priced == UNION {{ds[k].com, ds[k].cur} : k \in Kinds(ds, "price")}
        missing == SetToSeq((used \cup (priced \ {u[2] : u \in Uses(ds)})) \ declared)
    IN  IF p.config = Malformed THEN Reports(<<Finding("invalid-config", p, None)>>)
        ELSE Reports([k \in DOMAIN bad |-> Finding("invalid-regexp", p, None)]
                     \o [k \in DOMAIN missing |-> Finding("missing-commodity", p, missing[k])])

\* What it is configured with, when that can be read, is a list of pairs.
Configured(p) ==
    p.name = "check_commodity" /\ p.config \notin {None, Malformed} =>
        p.config.pairs \in Seq(Range(p.config.pairs))

\* onecommodity: an account with more than one commodity, or cost currency,
\* unless it is opened with several or opts out, or the filter leaves it out.
OneCommodity(p, ds) ==
    LET chosen(a) == IF p.config \in {None, Malformed} THEN TRUE ELSE a \in p.config.accts
        watched(a) == chosen(a) /\ \A k \in FirstOpen(ds, a) :
                                      ds[k].single /\ Cardinality(ds[k].curs) <= 1
        units(a) == {q.cur : q \in {r \in Amounts(ds) : r.acct = a}}
                    \cup {ds[k].cur : k \in {j \in Kinds(ds, "balance") : ds[j].acct = a}}
        costs(a) == {q.cost.cur : q \in {r \in Postings(ds) : r.acct = a
                        /\ (IF r.cost = None THEN FALSE ELSE r.cost.stated)}}
        many(curs(_)) == {a \in Accounts : watched(a) /\ Cardinality(curs(a)) > 1}
    IN  Reports((IF p.config # Malformed THEN <<>>
                 ELSE <<Finding("invalid-regexp", p, None)>>)
                \o AtOpens("multi-commodity-account", p, ds, many(units))
                \o AtOpens("multi-commodity-account", p, ds, many(costs)))

\* sellgains: what the prices of the lots sold say was received, against the
\* weight of the other postings but income.  inferTolerances gives one for a
\* currency that some posting moves, as amounts are integers.
Contribution(p) ==
    IF ~p.price.total THEN -p.num * p.price.num
    ELSE IF p.num < 0 THEN p.price.num ELSE IF p.num > 0 THEN -p.price.num ELSE 0
Proceeds(t, cur) ==
    FoldLeft(LAMBDA n, p :
        IF p.cost # None
        THEN IF p.price.cur = cur THEN n + Contribution(p) ELSE n
        ELSE IF /\ p.acct \notin Income /\ HasAmount(p) /\ Weight(p).cur = cur
             THEN n - Weight(p).num ELSE n, 0, t.posts)
SaleDisagrees(t) ==
    LET atCost == {p \in ToSet(t.posts) : p.cost # None}
        moved(cur) == \E p \in ToSet(t.posts) : HasAmount(p) /\ p.cur = cur
    IN  /\ atCost # {} /\ \A p \in atCost : p.price # None
        /\ \E cur \in Currencies :
              Abs(Proceeds(t, cur)) > (IF moved(cur) THEN 1 ELSE 0)
SellGains(p, ds) ==
    LET ts == Txns(ds)
        bad == Those(ts, {k \in DOMAIN ts : SaleDisagrees(ts[k])})
    IN  Reports([k \in DOMAIN bad |->
                   Finding("invalid-sell-gains", At(bad[k], p), None)])
-----------------------------------------------------------------------------
\* The names the plugins are registered under.
Standard == {"auto_accounts", "check_closing", "check_drained", "close_tree",
             "exclude_tag", "implicit_prices", "unique_prices", "leafonly",
             "noduplicates", "nounused", "coherent_cost", "check_commodity",
             "onecommodity", "sellgains"}

\* What plugin directive p makes of the ledger ds.
Apply(p, ds) ==
    CASE p.name = "auto_accounts" -> AutoAccounts(ds)
      [] p.name = "check_closing" -> CheckClosing(ds)
      [] p.name = "check_drained" -> CheckDrained(ds)
      [] p.name = "close_tree" -> CloseTree(ds)
      [] p.name = "exclude_tag" -> ExcludeTag(p, ds)
      [] p.name = "implicit_prices" -> ImplicitPrices(ds)
      [] p.name = "unique_prices" -> UniquePrices(p, ds)
      [] p.name = "leafonly" -> LeafOnly(p, ds)
      [] p.name = "noduplicates" -> NoDuplicates(p, ds)
      [] p.name = "nounused" -> NoUnused(p, ds)
      [] p.name = "coherent_cost" -> CoherentCost(p, ds)
      [] p.name = "check_commodity" -> CheckCommodity(p, ds)
      [] p.name = "onecommodity" -> OneCommodity(p, ds)
      [] p.name = "sellgains" -> SellGains(p, ds)
=============================================================================
