------------------------------ MODULE MCLoader ------------------------------
EXTENDS Loader

\* Items of files.
Open(a, date, curs) == [kind |-> "open", date |-> date, file |-> NoFile, off |-> 0, acct |-> a, curs |-> curs,
                         single |-> TRUE]
Close(a, date) == [kind |-> "close", date |-> date, file |-> NoFile, off |-> 0, acct |-> a]
PadFrom(a, from, date) == [kind |-> "pad", date |-> date, file |-> NoFile, off |-> 0, acct |-> a, from |-> from]
Claim(a, n, c, date, tol) == [kind |-> "balance", date |-> date, file |-> NoFile, off |-> 0, acct |-> a, num |-> n,
                               cur |-> c, tol |-> tol, diff |-> None]
Txn(date, ps) == [kind |-> "txn", date |-> date, file |-> NoFile, off |-> 0, padding |-> FALSE, tags |-> {},
                  posts |-> ps]
Move(a, c, n) == [acct |-> a, cur |-> c, num |-> n, cost |-> None, price |-> None,
                  closing |-> FALSE]
Lot(a, c, n, cc, each) ==
    [Move(a, c, n) EXCEPT !.cost = [num |-> each, cur |-> cc, stated |-> n > 0]]
At2(p, n, c, total) == [p EXCEPT !.price = [num |-> n, cur |-> c, total |-> total]]
Document(a, date, exists) == [kind |-> "document", date |-> date, file |-> NoFile, off |-> 0, acct |-> a, exists |-> exists]
With(name, config) == [kind |-> "plugin", date |-> 0, file |-> NoFile, off |-> 0, name |-> name, config |-> config]
Plugin(name) == With(name, None)
Path(f) == [kind |-> "include", path |-> f]
Glob(fs) == [kind |-> "glob", paths |-> fs]

Parent == "Assets"
Sub == "Assets:Sub"
Equity == "Equity"
Gains == "Income:Gains"
MCAccounts == {Parent, Sub, Equity, Gains}
MCBalanceSheet == {Parent, Sub, Equity}
MCIncome == {Gains}
MCBelow == [a \in MCAccounts |-> IF a = Parent THEN {Parent, Sub} ELSE {a}]
MCFiles == 1..3

\* A plugin adds a transaction that the booking pass has not seen.
MCAdditions == {Txn(2, <<Move(Equity, "u", -1), [Move(Parent, "u", 1) EXCEPT !.num = None]>>)}

\* How files may include one another.
Links == {Path(f) : f \in MCFiles} \cup {Glob(<<>>), Glob(<<2, 3>>), Glob(<<1, 2, 3>>)}
Trees ==
    {[f \in S |-> IF f = 1 THEN one ELSE IF f = 2 THEN two ELSE three] :
        S \in {{1, 2, 3}, {1, 2}, {1, 3}}, one \in SeqOf(Links, 2),
        two \in SeqOf(Links, 1), three \in {<<>>, <<Path(2)>>}}

\* Ledgers: file 2 opens the accounts, file 1 includes it and does some of these.
Opens == <<Open(Parent, 1, {}), Open(Sub, 1, {"u"}), Open(Equity, 1, {})>>
Entries == <<
    Close(Sub, 2), Open(Sub, 2, {}), Open(Equity, 3, {}), Document(Sub, 3, FALSE),
    Txn(2, <<Move(Sub, "u", 1), Move(Equity, "u", -1)>>),
    Txn(3, <<Move(Parent, "v", 2), Move(Equity, "v", -1)>>),
    Txn(2, <<Lot(Parent, "v", 1, "u", 2), Move(Equity, "u", -2)>>),
    PadFrom(Parent, Equity, 2), PadFrom(Parent, Sub, 3), PadFrom(Equity, Parent, 1),
    PadFrom(Parent, Parent, 2),
    Claim(Parent, 3, "u", 3, 0), Claim(Parent, 2, "u", 3, 1), Claim(Parent, 1, "u", 4, 0),
    Claim(Parent, 2, "v", 4, 0), Claim(Equity, 0, "u", 4, 0), Claim(Sub, 1, "u", 4, 0)>>
UpTo(n, list) == {S \in SUBSET DOMAIN list : Cardinality(S) <= n}
Chosen(S, list) == LET ks == SelectSeq([k \in DOMAIN list |-> k], LAMBDA k : k \in S)
                   IN  [k \in DOMAIN ks |-> list[ks[k]]]
\* File 1 includes file 2 and holds the rest.
Ledger(opens, before, S, list) ==
    [f \in {1, 2} |-> IF f = 2 THEN opens ELSE before \o <<Path(2)>> \o Chosen(S, list)]

\* Ledgers for the plugins: what each of them looks at.
Marked(t) == [t EXCEPT !.posts[1].closing = TRUE]
Tagged(t) == [t EXCEPT !.tags = {"virtual"}]
Commodity(c) == [kind |-> "commodity", date |-> 1, file |-> NoFile, off |-> 0, cur |-> c]
Quoted(c, n, cur, date) == [kind |-> "price", date |-> date, file |-> NoFile, off |-> 0, com |-> c, num |-> n, cur |-> cur]
Buy == Lot(Parent, "v", 2, "u", 1)
Sell(n, total) == At2(Lot(Parent, "v", -2, "u", 1), n, "u", total)
PluginEntries == <<
    Open(Sub, 1, {"u"}), Open(Sub, 2, {}), Open(Sub, 3, {}), Close(Parent, 2), Close(Sub, 1), Close(Sub, 2),
    Marked(Txn(2, <<Move(Sub, "u", 1), Move(Parent, "u", -1)>>)),
    Tagged(Txn(3, <<Move(Sub, "v", 1), Move(Equity, "v", -1)>>)),
    Txn(3, <<Move(Parent, "v", 1), [Move(Equity, "v", 0) EXCEPT !.num = None]>>),
    Txn(2, <<Buy, Move(Equity, "u", -2)>>),
    Txn(2, <<Sell(3, FALSE), Move(Parent, "u", 4), Move(Gains, "u", -2)>>),
    Txn(2, <<Sell(4, TRUE), Move(Equity, "u", 4), Move(Gains, "u", -2)>>),
    PadFrom(Sub, Equity, 1), Claim(Sub, 2, "u", 2, 0), Quoted("v", 2, "u", 2), Commodity("v")>>
\* What a ledger begins with: plugins, and in one case an early close.
Ignore(scope, curs) == [scope |-> scope, curs |-> curs]
Suites == {
    <<Plugin("auto_accounts"), Plugin("leafonly")>>,
    <<Plugin("close_tree"), Plugin("check_drained")>>,
    <<Plugin("close_tree"), Close(Sub, 1)>>,
    <<Plugin("check_drained"), Plugin("exclude_tag"), Plugin("close_tree")>>,
    <<Plugin("auto_accounts"), Plugin("close_tree"), Plugin("check_closing")>>,
    <<Plugin("close_tree"), Plugin("auto_accounts"), Plugin("nounused")>>,
    <<Plugin("implicit_prices"), Plugin("unique_prices")>>,
    <<With("exclude_tag", [tag |-> "other"]), Plugin("noduplicates"), Plugin("sellgains")>>,
    <<Plugin("coherent_cost"), Plugin("check_commodity"), Plugin("onecommodity")>>,
    <<With("check_commodity", Malformed), With("onecommodity", Malformed)>>,
    <<With("check_commodity", [pairs |-> <<Ignore({Parent}, {"v"}), Ignore({Sub}, Malformed)>>]),
      With("onecommodity", [accts |-> {Sub}])>>}

MCDisks ==
    Trees \cup {Ledger(Opens, <<>>, S, Entries) : S \in UpTo(4, Entries)}
          \cup {Ledger(Opens, <<Plugin("known"), Plugin("unknown"), Plugin("known")>>, S, Entries) :
                   S \in UpTo(1, Entries)}
          \cup {Ledger(<<Open(Parent, 1, {}), Open(Equity, 1, {})>>, suite, S, PluginEntries) :
                   suite \in Suites, S \in UpTo(3, PluginEntries)}
MCConfigs == {None, Malformed, [tag |-> "other"], [accts |-> {Sub}],
              [pairs |-> <<Ignore({Parent}, {"v"}), Ignore({Sub}, Malformed)>>]}
MCItems == Links \cup Range(Opens) \cup Range(Entries) \cup Range(PluginEntries)
           \cup {Plugin("known"), Plugin("unknown")} \cup UNION {Range(s) : s \in Suites}
=============================================================================
