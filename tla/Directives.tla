----------------------------- MODULE Directives -----------------------------
(***************************************************************************)
(* Directives of pkg/ast: their canonical order, the accounts they refer   *)
(* to, the findings that point at them, and what a posting weighs.         *)
(*                                                                         *)
(* A directive is a record with its kind, date, file and offset.  Amounts  *)
(* are integers.  The cost of a posting is the one the booking pass leaves *)
(* on it, per unit; "stated" when it keeps what the user wrote, as the     *)
(* cost of a lot that is bought does and the cost of one sold does not.    *)
(***************************************************************************)
EXTENDS Integers, SequencesExt

CONSTANTS Accounts, Currencies,
          Below,        \* Account.Covers: an account and its subaccounts
          BalanceSheet, \* accounts under Assets, Liabilities and Equity
          Income,       \* accounts under Income
          Files,        \* file names, as numbers in their order
          Tags,         \* tags of transactions
          Configs,      \* what plugins are configured with
          None          \* no account, number, cost, price, pad or assertion

NoFile == 0     \* the name in an empty span
NoSpan == [file |-> NoFile, off |-> 0]

ASSUME FinitelyMany == IsFiniteSet(Accounts) /\ IsFiniteSet(Currencies)
ASSUME NoneIsNoNumber == None \notin Int
ASSUME FilesArePositive == Files \subseteq Nat \ {NoFile}
ASSUME RootsAreDisjoint ==
    BalanceSheet \cup Income \subseteq Accounts /\ BalanceSheet \cap Income = {}
ASSUME BelowIsATree ==
    /\ Below \in [Accounts -> SUBSET Accounts]
    /\ \A a \in Accounts : a \in Below[a]
    /\ \A a \in Accounts : \A b \in Below[a] : Below[b] \subseteq Below[a]
-----------------------------------------------------------------------------
\* DirectiveKind: the order of directives of one day.  Documents and
\* commodities share a place.
Rank == [plugin |-> 0, open |-> 1, balance |-> 2, pad |-> 3, txn |-> 4,
         document |-> 5, commodity |-> 5, close |-> 6, price |-> 7]

\* makeSortKey and compareSortKey.
Key(e) == <<e.dir.date, Rank[e.dir.kind], e.dir.file, e.dir.off, e.seq>>
Earlier(k, l) ==
    \E i \in 1..5 : /\ k[i] < l[i]
                    /\ \A j \in 1..(i - 1) : k[j] = l[j]
Before(e, f) == Earlier(Key(e), Key(f))

\* The items of s at the places K, in order.
Those(s, K) ==
    LET ahead == [i \in K |-> Cardinality({j \in K : j < i})]
    IN  [k \in 1..Cardinality(K) |-> s[CHOOSE i \in K : ahead[i] = k - 1]]

Span(d) == <<d.file, d.off>>
Finding(code, d, about) == [code |-> code, span |-> Span(d), about |-> about]

Abs(n) == IF n < 0 THEN -n ELSE n
HasAmount(p) == p.num # None
\* PostingWeight: what a posting with an amount adds to the balance of its
\* transaction, and in which currency.
Weight(p) ==
    IF p.cost # None THEN [cur |-> p.cost.cur, num |-> p.num * p.cost.num]
    ELSE IF p.price = None THEN [cur |-> p.cur, num |-> p.num]
    ELSE [cur |-> p.price.cur,
          num |-> IF ~p.price.total THEN p.num * p.price.num
                  ELSE IF p.num < 0 THEN -Abs(p.price.num) ELSE Abs(p.price.num)]

\* collectReferences: the accounts a directive mentions.
References(d) ==
    CASE d.kind = "txn" -> {p.acct : p \in ToSet(d.posts)}
      [] d.kind = "pad" -> {d.acct, d.from}
      [] d.kind \in {"open", "close", "balance", "document"} -> {d.acct}
      [] OTHER -> {}
-----------------------------------------------------------------------------
Cost == [num : Int, cur : Currencies, stated : BOOLEAN]
Price == [num : Int, cur : Currencies, total : BOOLEAN]
Posting == [acct : Accounts, cur : Currencies, num : Int \cup {None},
            cost : Cost \cup {None}, price : Price \cup {None}, closing : BOOLEAN]
FileName == Files \cup {NoFile}
PluginType == [kind : {"plugin"}, date : Nat, file : FileName, off : Nat,
               name : STRING, config : Configs]
OpenType == [kind : {"open"}, date : Nat, file : FileName, off : Nat,
             acct : Accounts, curs : SUBSET Currencies, single : BOOLEAN]
CloseType == [kind : {"close"}, date : Nat, file : FileName, off : Nat, acct : Accounts]
\* tol is the magnitude of the tolerance, which checkBalance takes.
BalanceType == [kind : {"balance"}, date : Nat, file : FileName, off : Nat,
                acct : Accounts, num : Int, cur : Currencies, tol : Nat,
                diff : Int \cup {None}]
PadType == [kind : {"pad"}, date : Nat, file : FileName, off : Nat,
            acct : Accounts, from : Accounts]
TransactionType == [kind : {"txn"}, date : Nat, file : FileName, off : Nat,
                    padding : BOOLEAN, tags : SUBSET Tags, posts : Seq(Posting)]
DocumentType == [kind : {"document"}, date : Nat, file : FileName, off : Nat,
                 acct : Accounts, exists : BOOLEAN]
CommodityType == [kind : {"commodity"}, date : Nat, file : FileName, off : Nat,
                  cur : Currencies]
PriceType == [kind : {"price"}, date : Nat, file : FileName, off : Nat,
              com : Currencies, num : Int, cur : Currencies]
Directive == PluginType \cup OpenType \cup CloseType \cup BalanceType \cup PadType
             \cup TransactionType \cup DocumentType \cup CommodityType \cup PriceType
=============================================================================
