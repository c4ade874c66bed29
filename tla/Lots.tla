-------------------------------- MODULE Lots --------------------------------
(***************************************************************************)
(* Positions, lots and costs of pkg/inventory: what a posting weighs,      *)
(* whether it augments or reduces an inventory, which lots it matches and  *)
(* in which order it consumes them.                                        *)
(*                                                                         *)
(* An inventory is a set of positions [com, lot, units, ord]: "ord" is the *)
(* place in the slice of the code, which decides ties and the sign that    *)
(* classify looks at.  A position without cost has the lot Cash.           *)
(*                                                                         *)
(* Amounts are integers.  A per-unit cost derived from a total is the      *)
(* integer quotient, so it is exact only for totals the units divide; the  *)
(* code keeps 34 digits.                                                   *)
(***************************************************************************)
EXTENDS Integers, FiniteSets, FiniteSetsExt

CONSTANTS Accounts,
          Currencies,   \* commodities and currencies
          Labels,       \* lot labels
          None          \* an absent number, currency, date, label, cost, price

Methods == {"DEFAULT", "STRICT", "FIFO", "LIFO", "NONE", "AVERAGE"}

OptInt == Int \cup {None}
OptCurrency == Currencies \cup {None}
Lot == [num : Int, cur : OptCurrency, date : OptInt, label : Labels \cup {None}]

\* The lot of a position without cost: the zero Lot of the code.
Cash == [num |-> 0, cur |-> None, date |-> None, label |-> None]

\* A cost as written (booked FALSE: per-unit and total as far as given) or as
\* the booking pass installs it (booked TRUE, "num" the per-unit cost).
Cost == [booked : BOOLEAN, num : Int, per : OptInt, total : OptInt,
         cur : OptCurrency, date : OptInt, label : Labels \cup {None}]
Price == [num : Int, cur : Currencies, total : BOOLEAN]

\* Why a posting or a transaction is not booked.
Codes == {"augmentation-requires-cost", "zero-units-cost-total",
          "invalid-booking-method", "no-matching-lot",
          "reduction-exceeds-inventory", "ambiguous-lot-match",
          "invalid-auto-posting", "multiple-auto-postings",
          "unresolvable-interpolation"}

ASSUME NoneIsNoValue ==
    None \notin Currencies \cup Labels \cup Int \cup Cost \cup Price \cup Codes

\* A posting; "auto" when it has no amount.
Posting == [acct : Accounts, auto : BOOLEAN, units : Int, com : OptCurrency,
            cost : Cost \cup {None}, price : Price \cup {None}]
Position == [com : OptCurrency, lot : Lot, units : Int, ord : Nat]

Size(n) == IF n < 0 THEN -n ELSE n
Sign(n) == IF n < 0 THEN -1 ELSE IF n = 0 THEN 0 ELSE 1
\* size with the sign of units, the sign of zero counting as plus
Signed(units, size) == IF units < 0 THEN -Size(size) ELSE Size(size)
-----------------------------------------------------------------------------
HasNumber(c) == c.per # None \/ c.total # None
SpecIsEmpty(c) == c = None \/ (~HasNumber(c) /\ c.date = None /\ c.label = None)

\* The per-unit cost of a holder, None when it names none.
PerUnitCost(c, units) ==
    IF c.booked THEN c.num
    ELSE IF ~HasNumber(c) \/ (c.total # None /\ units = 0) THEN None
    ELSE IF c.total = None THEN c.per
    ELSE (IF c.per = None THEN 0 ELSE c.per) + c.total \div Size(units)

\* What a posting with an amount contributes to the balance of its
\* transaction, and in which currency; a cost that names a currency and no
\* number has no weight, and falls back to the amount's currency.
Weight(p) ==
    LET c == p.cost
    IN  IF c # None /\ HasNumber(c)
        THEN [cur |-> c.cur,
              num |-> (IF c.per = None THEN 0 ELSE p.units * c.per)
                      + (IF c.total = None THEN 0 ELSE Signed(p.units, c.total))]
        ELSE IF c # None /\ c.booked
        THEN [cur |-> c.cur, num |-> p.units * c.num]
        ELSE IF p.price # None /\ ~(c # None /\ c.cur # None)
        THEN [cur |-> p.price.cur,
              num |-> IF p.price.total THEN Signed(p.units, p.price.num)
                                       ELSE p.units * p.price.num]
        ELSE [cur |-> p.com, num |-> p.units]

\* The lot an augmenting posting creates, and why it may create none.
ResolveLot(c, units, date) ==
    IF c = None THEN Cash
    ELSE [num |-> PerUnitCost(c, units), cur |-> c.cur, label |-> c.label,
          date |-> IF ~c.booked /\ c.date = None THEN date ELSE c.date]
LotFinding(c, units) ==
    IF c = None \/ c.booked THEN None
    ELSE IF ~HasNumber(c) THEN "augmentation-requires-cost"
    ELSE IF c.total # None /\ units = 0 THEN "zero-units-cost-total"
    ELSE None

ToCost(lot) == [booked |-> TRUE, num |-> lot.num, per |-> None, total |-> None,
                cur |-> lot.cur, date |-> lot.date, label |-> lot.label]
\* The cost left on an augmenting posting keeps what the user wrote.
AugmentCostFor(c, lot) ==
    IF c = None \/ c.booked THEN c
    ELSE [ToCost(lot) EXCEPT !.per = c.per, !.total = c.total]
-----------------------------------------------------------------------------
\* Inventory.Add: merge into the position of the same commodity and lot, which
\* disappears when it reaches zero, or append.
AddTo_Append(inv, com, lot, units, ord) ==      \* mutant: lots are not merged
    inv \cup {[com |-> com, lot |-> lot, units |-> units, ord |-> ord]}
AddTo(inv, com, lot, units, ord) ==
    LET old == {q \in inv : q.com = com /\ q.lot = lot}
    IN  IF old = {}
        THEN inv \cup {[com |-> com, lot |-> lot, units |-> units, ord |-> ord]}
        ELSE (inv \ old) \cup {[q EXCEPT !.units = @ + units] :
                                  q \in {r \in old : r.units + units # 0}}

\* The positions whose first one decides whether p augments or reduces.
Existing(inv, p) ==
    LET hint == IF p.cost # None /\ p.cost.cur # None THEN p.cost.cur
                ELSE IF SpecIsEmpty(p.cost) /\ p.price # None THEN p.price.cur
                ELSE None
    IN  {q \in inv : /\ q.com = p.com
                     /\ hint # None => q.lot # Cash /\ q.lot.cur = hint}

Reduces(inv, p, method) ==
    /\ method # "NONE"
    /\ p.units # 0
    /\ \E q \in Existing(inv, p) :
          /\ \A r \in Existing(inv, p) : q.ord <= r.ord
          /\ Sign(q.units) # Sign(p.units)

\* CostMatcher: every part of the cost that is given must agree.
Matches(p, lot) ==
    LET c == p.cost
        num == IF c = None THEN None ELSE PerUnitCost(c, p.units)
        cur == IF c # None /\ (HasNumber(c) \/ c.cur # None) THEN c.cur
               ELSE IF SpecIsEmpty(c) /\ p.price # None THEN p.price.cur
               ELSE None
    IN  /\ num # None => lot.num = num
        /\ cur # None => lot.cur = cur
        /\ c # None => /\ c.date # None => lot.date = c.date
                       /\ c.label # None => lot.label = c.label

Candidates(inv, p) == {q \in inv : q.com = p.com /\ Matches(p, q.lot)}
Available(positions) == MapThenSumSet(LAMBDA q : Size(q.units), positions)

\* Why a reducing posting is refused; cash may be overdrawn.
ReduceFinding(inv, p, method) ==
    LET found == Candidates(inv, p)
        wanted == Size(p.units)
    IN  IF method = "AVERAGE" THEN "invalid-booking-method"
        ELSE IF found = {} THEN "no-matching-lot"
        ELSE IF (\E q \in found : q.lot # Cash) /\ wanted > Available(found)
        THEN "reduction-exceeds-inventory"
        ELSE IF /\ method \in {"STRICT", "DEFAULT"}
                /\ Cardinality(found) > 1
                /\ wanted < Available(found)
        THEN "ambiguous-lot-match"
        ELSE None

LotDate(q) == IF q.lot.date = None THEN 0 ELSE q.lot.date
\* q is consumed before r: oldest first, or newest first under LIFO.
ConsumedBefore(q, r, method) ==
    IF method = "LIFO"
    THEN LotDate(q) > LotDate(r) \/ (LotDate(q) = LotDate(r) /\ q.ord > r.ord)
    ELSE LotDate(q) < LotDate(r) \/ (LotDate(q) = LotDate(r) /\ q.ord < r.ord)

\* Inventory.Equal: the same positions in the same order.
SameInventory(a, b) ==
    LET place(inv, q) == Cardinality({r \in inv : r.ord < q.ord})
        image(inv) == {<<q.com, q.lot, q.units, place(inv, q)>> : q \in inv}
    IN  image(a) = image(b)
=============================================================================
