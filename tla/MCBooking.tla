------------------------------ MODULE MCBooking ------------------------------
(***************************************************************************)
(* Ledgers for Booking: two accounts that trade a stock and one for cash,  *)
(* every booking method the code books with, and every sequence of up to   *)
(* three transactions of the list below.  Totals divide evenly.            *)
(***************************************************************************)
EXTENDS Booking

CONSTANT MaxTransactions    \* bound: transactions of a ledger

MCAccounts == {"Stocks", "Other", "Bank"}
MCCurrencies == {"STK", "USD", "EUR"}
MCLabels == {"a"}

Bare(a, n, c) == [acct |-> a, auto |-> FALSE, units |-> n, com |-> c,
                  cost |-> None, price |-> None]
Auto(a) == [Bare(a, 0, None) EXCEPT !.auto = TRUE]
Empty == [booked |-> FALSE, num |-> 0, per |-> None, total |-> None,
          cur |-> None, date |-> None, label |-> None]
At(n, c) == [Empty EXCEPT !.per = n, !.cur = c]
For(n, c) == [Empty EXCEPT !.total = n, !.cur = c]
In(c) == [Empty EXCEPT !.cur = c]
Stock(n, cost) == [Bare("Stocks", n, "STK") EXCEPT !.cost = cost]
Booked(n, c, d) == [Empty EXCEPT !.booked = TRUE, !.num = n, !.cur = c, !.date = d]
Priced(p, n, c, total) == [p EXCEPT !.price = [num |-> n, cur |-> c, total |-> total]]

Txns ==
  { <<Stock(4, At(10, "USD")), Priced(Bare("Other", -2, "EUR"), 4, "USD", FALSE),
      Auto("Bank")>>,
    <<Stock(4, For(80, "USD")), Bare("Bank", -80, "USD")>>,
    <<Stock(-4, At(20, "EUR")), Bare("Bank", 80, "EUR")>>,
    <<Stock(4, Empty), Bare("Bank", -40, "USD")>>,
    <<Stock(4, In("USD")), Bare("Bank", 40, "USD"), Bare("Bank", 8, "EUR")>>,
    <<Stock(4, In("USD")), Stock(2, In("USD")), Bare("Bank", -60, "USD")>>,
    <<Stock(-6, At(10, "USD")), Stock(-4, In("USD")), Auto("Bank")>>,
    <<Priced(Stock(-8, Empty), 96, "USD", TRUE), Bare("Bank", 96, "USD")>>,
    <<Bare("Bank", 5, "EUR"), Stock(-4, At(10, "USD")), Stock(-9, At(10, "USD")),
      Bare("Other", -5, "EUR")>>,
    <<Bare("Other", 8, "STK"), Auto("Stocks")>>,
    <<Bare("Bank", -10, "USD"), Bare("Bank", 7, "EUR"), Auto("Other")>>,
    <<Auto("Bank"), Auto("Other")>>,
    <<Stock(4, In("STK")), Bare("Bank", 40, "STK")>>,
    <<Stock(0, In("USD")), Stock(4, [Empty EXCEPT !.label = "a"]),
      Bare("Bank", -40, "EUR")>>,
    <<Stock(-4, Booked(10, "USD", 1)), Auto("Other")>> }

Sequences == UNION {[1..n -> Txns] : n \in 1..MaxTransactions}
MCLedgers ==
    {<<[kind |-> "open", acct |-> "Stocks", method |-> m], [kind |-> "other"]>>
     \o [k \in DOMAIN s |-> [kind |-> "txn", date |-> k, postings |-> s[k]]] :
        m \in {"STRICT", "FIFO", "LIFO", "NONE", "AVERAGE"}, s \in Sequences}
=============================================================================
