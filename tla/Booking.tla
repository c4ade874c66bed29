------------------------------- MODULE Booking -------------------------------
(***************************************************************************)
(* The booking pass, Reducer.Walk of pkg/inventory: it visits the          *)
(* directives in order and books each transaction against the inventories  *)
(* of its accounts, in two passes.  Pass 1 books the postings with a known *)
(* amount and cost; pass 2 resolves each unknown (an amount or a cost left *)
(* out) from what the others leave unbalanced in one currency.  A posting  *)
(* that cannot be booked drops its whole currency group: the group's       *)
(* postings leave the transaction and what they did to the inventories is  *)
(* undone.                                                                 *)
(*                                                                         *)
(* One action per posting visited, lot consumed, step recorded, unknown    *)
(* resolved or entry undone.  Diagnostics keep their transaction and code. *)
(***************************************************************************)
EXTENDS Lots, Sequences

CONSTANT Ledgers    \* the inputs: sequences of directives

Open == [kind : {"open"}, acct : Accounts, method : Methods]
Transaction == [kind : {"txn"}, date : Int, postings : Seq(Posting)]
Other == [kind : {"other"}]
Directive == Open \cup Transaction \cup Other

ASSUME LedgersAreDirectives == Ledgers \subseteq Seq(Directive)

\* An amount has a currency, and so has a cost as soon as it has a number: what
\* is written without one is not lowered to a posting.
Named(c) == c # None /\ (c.booked \/ HasNumber(c)) => c.cur # None
Written(p) == (p.auto \/ p.com # None) /\ Named(p.cost)

ASSUME AmountsAreNamed ==
    \A l \in Ledgers : \A n \in DOMAIN l :
        l[n].kind = "txn" => \A k \in DOMAIN l[n].postings : Written(l[n].postings[k])

VARIABLES
    ledger, i,      \* the input and the directive to visit next
    holdings,       \* state: the inventory of each account
    booking,        \* the booking method of each account
    clock,          \* the next place in an inventory
    diags,          \* findings, by transaction
    out,            \* postings of the transactions visited
    phase,
    left,           \* postings, unknowns or entries still to visit
    postings,       \* the rebuilt postings of the transaction
    entries,        \* booked postings, with their currency group
    unknown,        \* postings set aside, with the currency they bid for
    weights,        \* what pass 1 booked in each currency
    dropped,        \* currency groups that failed
    loose,          \* unbalanced currencies nobody bids for
    job,            \* the reduction in progress
    touched,        \* accounts touched by the transaction
    before,         \* their inventories when first touched
    rolled,         \* accounts rolled back
    report,         \* accounts reported to the visitor as changed
    start,          \* history: the inventories when the transaction began
    strayed         \* history: see Strays

walkVars == <<ledger, i, booking, out, start>>
traceVars == <<touched, before, rolled, report>>
txnVars == <<postings, entries, unknown, weights, dropped, loose>>
vars == <<walkVars, holdings, clock, diags, phase, left, txnVars, job,
          traceVars, strayed>>

Phases == {"walk", "pass1", "take", "record", "bidders", "free", "settle",
           "undo", "done", "error"}
Step == [lot : Lot, units : Int]
Entry == [at : Nat, group : OptCurrency, acct : Accounts, com : OptCurrency,
          lot : Lot, units : Int, reduces : BOOLEAN, taken : Int,
          inferred : BOOLEAN]
Unknown == [at : Nat, cur : OptCurrency]
Job == [posting : Posting, at : Nat, inferred : BOOLEAN, group : OptCurrency,
        candidates : SUBSET Position, wanted : Int, steps : Seq(Step),
        many : BOOLEAN, back : Phases]
Finding == [txn : Nat, code : Codes]

\* An auto posting that reduced a lot: it takes the residual of one currency
\* and weighs in that of the lot.
MovesWeight(e) == e.inferred /\ e.reduces /\ e.lot # Cash
-----------------------------------------------------------------------------
Date == ledger[i].date
First(k) == k \in left /\ \A n \in left : k <= n

\* A transaction with an auto posting that carries a cost or a price, or with
\* two auto postings, is not booked at all.
StructureFinding(ps) ==
    LET autos == {k \in DOMAIN ps : ps[k].auto}
        earlier(k) == {n \in autos : n < k}
    IN  IF \E k \in autos : /\ ps[k].cost # None \/ ps[k].price # None
                            /\ Cardinality(earlier(k)) <= 1
        THEN "invalid-auto-posting"
        ELSE IF Cardinality(autos) > 1 THEN "multiple-auto-postings"
        ELSE None

\* Why bookOne refuses a posting with an amount, and whether it reduces.
DoesReduce(p) == Reduces(holdings[p.acct], p, booking[p.acct])
Refusal(p) == IF DoesReduce(p)
              THEN ReduceFinding(holdings[p.acct], p, booking[p.acct])
              ELSE LotFinding(p.cost, p.units)

CashKey(p) == IF p.price # None THEN p.price.cur ELSE p.com
CandidateCurrency(p) == IF p.cost # None /\ p.cost.cur # None THEN p.cost.cur
                        ELSE IF p.price # None THEN p.price.cur ELSE None

\* prepareForEdit and prepareForRollback: the first touch keeps a copy.
\* mutant: every touch takes a copy
Touch_Again(a) ==
    touched' = touched \cup {a} /\ before' = [before EXCEPT ![a] = holdings[a]]

Touch(a) ==
    /\ touched' = touched \cup {a}
    /\ before' = IF a \in touched THEN before
                 ELSE [before EXCEPT ![a] = holdings[a]]
RollBack(a) == Touch(a) /\ rolled' = rolled \cup {a}

Diagnose(code) == diags' = diags \cup {[txn |-> i, code |-> code]}

Keep(ps) == {[txn |-> i, at |-> k, posting |-> ps[k]] : k \in DOMAIN ps}

\* Pass 1 adds a booked posting to the balance of the transaction.
Weigh(p) == weights' = [weights EXCEPT ![Weight(p).cur] = @ + Weight(p).num]
-----------------------------------------------------------------------------
Init ==
    /\ ledger \in Ledgers /\ i = 1 /\ phase = "walk"
    /\ holdings = [a \in Accounts |-> {}] /\ start = holdings
    /\ booking = [a \in Accounts |-> "DEFAULT"]
    /\ clock = 0 /\ diags = {} /\ out = {} /\ left = {} /\ strayed = {}
    /\ postings = <<>> /\ entries = <<>> /\ unknown = {} /\ dropped = {}
    /\ weights = [c \in OptCurrency |-> 0] /\ loose = {} /\ job = None
    /\ touched = {} /\ before = holdings /\ rolled = {} /\ report = {}

\* Every directive but a transaction passes through; Open sets the method.
PassThrough ==
    /\ phase = "walk" /\ i <= Len(ledger) /\ ledger[i].kind # "txn"
    /\ i' = i + 1
    /\ booking' = IF ledger[i].kind = "open"
                  THEN [booking EXCEPT ![ledger[i].acct] = ledger[i].method]
                  ELSE booking
    /\ start' = holdings /\ report' = {}
    /\ UNCHANGED <<ledger, out, holdings, clock, diags, phase, left, txnVars,
                   job, touched, before, rolled, strayed>>

RejectTransaction ==
    /\ phase = "walk" /\ i <= Len(ledger) /\ ledger[i].kind = "txn"
    /\ StructureFinding(ledger[i].postings) # None
    /\ Diagnose(StructureFinding(ledger[i].postings))
    /\ out' = out \cup Keep(ledger[i].postings)
    /\ i' = i + 1 /\ start' = holdings /\ report' = {}
    /\ UNCHANGED <<ledger, booking, holdings, clock, phase, left, txnVars, job,
                   touched, before, rolled, strayed>>

BeginTransaction ==
    /\ phase = "walk" /\ i <= Len(ledger) /\ ledger[i].kind = "txn"
    /\ StructureFinding(ledger[i].postings) = None
    /\ phase' = "pass1" /\ left' = DOMAIN ledger[i].postings
    /\ postings' = <<>> /\ entries' = <<>> /\ unknown' = {} /\ dropped' = {}
    /\ weights' = [c \in OptCurrency |-> 0] /\ loose' = {}
    /\ touched' = {} /\ rolled' = {} /\ report' = {}
    /\ start' = holdings
    /\ UNCHANGED <<ledger, i, booking, out, holdings, clock, diags, job, before,
                   strayed>>
-----------------------------------------------------------------------------
\* Pass 1: the postings in order.
Visit(k) == /\ phase = "pass1" /\ First(k)
            /\ left' = left \ {k}
Set(p) == /\ postings' = Append(postings, p)
          /\ unknown' = unknown \cup {[at |-> Len(postings) + 1,
                                       cur |-> CandidateCurrency(p)]}

\* An auto posting waits for pass 2.
SetAside(k) ==
    LET p == ledger[i].postings[k]
    IN  /\ Visit(k) /\ p.auto /\ Set(p)
        /\ UNCHANGED <<walkVars, holdings, clock, diags, phase, entries,
                       weights, dropped, loose, job, traceVars, strayed>>

\* So does an augmenting posting whose cost has no number.
Defer(k) ==
    LET p == ledger[i].postings[k]
    IN  /\ Visit(k) /\ ~p.auto
        /\ Refusal(p) = "augmentation-requires-cost"
        /\ Set(p) /\ Touch(p.acct)
        /\ UNCHANGED <<walkVars, holdings, clock, diags, phase, entries, weights,
                       dropped, loose, job, rolled, report, strayed>>

\* A posting that cannot be booked drops its currency group.
Refuse(k) ==
    LET p == ledger[i].postings[k]
    IN  /\ Visit(k) /\ ~p.auto
        /\ Refusal(p) \notin {None, "augmentation-requires-cost"}
        /\ Diagnose(Refusal(p))
        /\ dropped' = dropped \cup {Weight(p).cur}
        /\ RollBack(p.acct)
        /\ UNCHANGED <<walkVars, holdings, clock, phase, postings, entries,
                       unknown, weights, loose, job, report, strayed>>

\* The entry of an augmenting posting, and the inventory it leaves.
Added(p, lot, at, group, inferred) ==
    /\ entries' = Append(entries,
           [at |-> at, group |-> group, acct |-> p.acct, com |-> p.com,
            lot |-> lot, units |-> p.units, reduces |-> FALSE, taken |-> 0,
            inferred |-> inferred])
    /\ holdings' = [holdings EXCEPT ![p.acct] =
                        AddTo(@, p.com, lot, p.units, clock)]
    /\ clock' = clock + 1

Augment(k) ==
    LET p == ledger[i].postings[k]
        lot == ResolveLot(p.cost, p.units, Date)
        booked == [p EXCEPT !.cost = AugmentCostFor(@, lot)]
    IN  /\ Visit(k) /\ ~p.auto /\ Refusal(p) = None /\ ~DoesReduce(p)
        /\ Added(p, lot, Len(postings) + 1,
                 IF p.cost = None THEN CashKey(p) ELSE p.cost.cur, FALSE)
        /\ postings' = Append(postings, booked)
        /\ Weigh(booked) /\ Touch(p.acct)
        /\ UNCHANGED <<walkVars, diags, phase, unknown, dropped, loose, job,
                       rolled, report, strayed>>
-----------------------------------------------------------------------------
\* Inventory.Reduce consumes the candidates one by one.
StartReducing(p, at, group, inferred, back) ==
    /\ job' = [posting |-> p, at |-> at, inferred |-> inferred, group |-> group,
               candidates |-> Candidates(holdings[p.acct], p),
               wanted |-> Size(p.units), steps |-> <<>>, many |-> FALSE,
               back |-> back]
    /\ phase' = "take"
    /\ Touch(p.acct)

Reduce(k) ==
    LET p == ledger[i].postings[k]
    IN  /\ Visit(k) /\ ~p.auto /\ Refusal(p) = None /\ DoesReduce(p)
        /\ StartReducing(p, Len(postings) + 1, None, FALSE, "pass1")
        /\ UNCHANGED <<walkVars, holdings, clock, diags, txnVars, rolled, report,
                       strayed>>

\* A posting strays from its inventory when not all its units find a lot, or
\* when a lot held in its own direction is reduced: what the account holds is
\* then not what its postings say.
Strays(a, com, yes) == strayed' = IF yes THEN strayed \cup {<<a, com>>} ELSE strayed

TakeLot(q) ==
    LET a == job.posting.acct
        take == IF job.wanted >= Size(q.units) THEN Size(q.units) ELSE job.wanted
        rest == [q EXCEPT !.units = IF @ >= 0 THEN @ - take ELSE @ + take]
    IN  /\ phase = "take" /\ job.wanted # 0
        /\ q \in job.candidates
        /\ \A r \in job.candidates \ {q} : ConsumedBefore(q, r, booking[a])
        /\ holdings' = [holdings EXCEPT ![a] = (@ \ {q}) \cup {rest}]
        /\ job' = [job EXCEPT !.candidates = @ \ {q}, !.wanted = @ - take,
                              !.steps = Append(@, [lot |-> q.lot, units |-> take])]
        /\ Strays(a, q.com, Sign(q.units) = Sign(job.posting.units))
        /\ UNCHANGED <<walkVars, clock, diags, phase, left, txnVars, traceVars>>

\* Emptied positions leave the inventory.  Two lots under a booked cost or an
\* inferred amount are an error of the pass, which halts the walk.
EndTaking ==
    LET p == job.posting
    IN  /\ phase = "take"
        /\ job.wanted = 0 \/ job.candidates = {}
        /\ holdings' = [holdings EXCEPT ![p.acct] = {q \in @ : q.units # 0}]
        /\ Strays(p.acct, p.com, job.wanted # 0)
        /\ job' = [job EXCEPT !.many = Len(job.steps) > 1]
        /\ LET halts == /\ Len(job.steps) > 1
                        /\ job.inferred \/ (p.cost # None /\ p.cost.booked)
           IN  /\ phase' = IF halts THEN "error" ELSE "record"
               /\ out' = IF halts THEN out \cup Keep(ledger[i].postings) ELSE out
        /\ UNCHANGED <<ledger, i, booking, start, clock, diags, left, txnVars,
                       traceVars>>

\* The child of a reduction over several lots; a total price becomes a price
\* per unit.
PricePerUnit(p) ==
    IF p.price = None \/ ~p.price.total THEN p.price
    ELSE [num |-> p.price.num \div Size(p.units), cur |-> p.price.cur,
          total |-> FALSE]
Child(p, step) ==
    [p EXCEPT !.units = IF p.units < 0 THEN -step.units ELSE step.units,
              !.cost = ToCost(step.lot), !.price = PricePerUnit(p)]
Reduced(p, step, many) ==
    IF many THEN Child(p, step)
    ELSE IF step.lot = Cash \/ (p.cost # None /\ p.cost.booked) THEN p
    ELSE [p EXCEPT !.cost = ToCost(step.lot)]
ReductionKey(p, step, many) ==
    IF many THEN step.lot.cur
    ELSE IF p.cost # None /\ p.cost.booked THEN Weight(p).cur
    ELSE IF step.lot # Cash THEN step.lot.cur ELSE CashKey(p)

\* One posting and one entry per step.
RecordStep ==
    LET p == job.posting
        step == Head(job.steps)
        q == Reduced(p, step, job.many)
        at == IF job.inferred THEN job.at ELSE Len(postings) + 1
    IN  /\ phase = "record" /\ job.steps # <<>>
        /\ entries' = Append(entries,
               [at |-> at, acct |-> p.acct, com |-> p.com, lot |-> step.lot,
                group |-> IF job.inferred THEN job.group
                          ELSE ReductionKey(p, step, job.many),
                units |-> q.units, reduces |-> TRUE, taken |-> step.units,
                inferred |-> job.inferred])
        /\ postings' = IF job.inferred THEN [postings EXCEPT ![at] = q]
                                       ELSE Append(postings, q)
        /\ IF job.inferred THEN UNCHANGED weights ELSE Weigh(q)
        /\ unknown' = IF job.inferred
                      THEN {[u EXCEPT !.cur = IF u.at = at THEN job.group ELSE @] :
                               u \in unknown}
                      ELSE unknown
        /\ job' = [job EXCEPT !.steps = Tail(@)]
        /\ UNCHANGED <<walkVars, holdings, clock, diags, phase, left, dropped,
                       loose, traceVars, strayed>>

EndReducing ==
    /\ phase = "record" /\ job.steps = <<>>
    /\ phase' = job.back /\ job' = None
    /\ UNCHANGED <<walkVars, holdings, clock, diags, left, txnVars, traceVars,
                   strayed>>
-----------------------------------------------------------------------------
\* Pass 2.  Unknowns that bid for a dropped currency are left to its group.
BeginPass2 ==
    LET bidding == {u \in unknown : u.cur \notin dropped \cup {None}}
    IN  /\ phase = "pass1" /\ left = {}
        /\ phase' = "bidders"
        /\ left' = {u.at : u \in bidding}
        /\ loose' = {c \in OptCurrency : weights[c] # 0
                                         /\ \A u \in bidding : u.cur # c}
        /\ UNCHANGED <<walkVars, holdings, clock, diags, postings, entries,
                       unknown, weights, dropped, job, traceVars, strayed>>

\* The posting with what is missing taken from the residual of currency c.
ResidualCost(cost, c, residual) ==
    LET spec == cost # None /\ ~cost.booked
    IN  [booked |-> FALSE, num |-> 0, per |-> None, total |-> residual, cur |-> c,
         date |-> IF spec /\ cost.date # None THEN cost.date ELSE Date,
         label |-> IF spec THEN cost.label ELSE None]
\* mutant: the residual is not negated
Candidate_Same(p, c) ==
    IF p.auto THEN [p EXCEPT !.auto = FALSE, !.units = weights[c], !.com = c]
    ELSE [p EXCEPT !.cost = ResidualCost(@, c, weights[c])]

Candidate(p, c) ==
    IF p.auto THEN [p EXCEPT !.auto = FALSE, !.units = -weights[c], !.com = c]
    ELSE [p EXCEPT !.cost = ResidualCost(@, c, -weights[c])]

\* An unknown fails: the groups in curs are dropped.
GiveUp(curs, next, still) ==
    /\ Diagnose("unresolvable-interpolation")
    /\ dropped' = dropped \cup curs
    /\ phase' = next /\ left' = still
    /\ UNCHANGED <<walkVars, holdings, clock, postings, entries, unknown, weights,
                   loose, job, traceVars, strayed>>

\* The unknown u is booked with the residual of c, or refused.
Resolve(u, c, curs, next, still) ==
    LET p == Candidate(postings[u.at], c)
        lot == ResolveLot(p.cost, p.units, Date)
    IN  /\ left' = still
        /\ \/ /\ Refusal(p) # None
              /\ Diagnose(Refusal(p))
              /\ dropped' = dropped \cup curs
              /\ RollBack(p.acct)
              /\ phase' = next
              /\ UNCHANGED <<walkVars, holdings, clock, postings, entries, unknown,
                             weights, loose, job, report, strayed>>
           \/ /\ Refusal(p) = None /\ ~DoesReduce(p)
              /\ Added(p, lot, u.at, c, TRUE)
              /\ postings' = [postings EXCEPT ![u.at] =
                                 [p EXCEPT !.cost = AugmentCostFor(@, lot)]]
              /\ unknown' = (unknown \ {u}) \cup {[u EXCEPT !.cur = c]}
              /\ Touch(p.acct)
              /\ phase' = next
              /\ UNCHANGED <<walkVars, diags, weights, dropped, loose, job, rolled,
                             report, strayed>>
           \/ /\ Refusal(p) = None /\ DoesReduce(p)
              /\ StartReducing(p, u.at, c, TRUE, next)
              /\ UNCHANGED <<walkVars, holdings, clock, diags, txnVars, rolled,
                             report, strayed>>

Rivals(u) == {v \in unknown : v.at \in left /\ v.cur = u.cur}
HasZeroUnits(u) == ~postings[u.at].auto /\ postings[u.at].units = 0

FailBidders(u) ==
    /\ phase = "bidders" /\ First(u.at)
    /\ Cardinality(Rivals(u)) > 1 \/ HasZeroUnits(u)
    /\ GiveUp({u.cur}, "bidders", left \ {v.at : v \in Rivals(u)})

ResolveBidder(u) ==
    /\ phase = "bidders" /\ First(u.at)
    /\ Rivals(u) = {u} /\ ~HasZeroUnits(u)
    /\ Resolve(u, u.cur, {u.cur}, "bidders", left \ {u.at})

EndBidders ==
    /\ phase = "bidders" /\ left = {}
    /\ phase' = "free"
    /\ UNCHANGED <<walkVars, holdings, clock, diags, left, txnVars, job, traceVars,
                   strayed>>

\* At most one unknown that bids for no currency takes the only one left.
Free == {u \in unknown : u.cur = None}

FailFree ==
    /\ phase = "free" /\ Free # {}
    /\ \/ Cardinality(Free) > 1
       \/ Cardinality(loose) # 1
       \/ \E u \in Free : HasZeroUnits(u)
    /\ GiveUp({None}, "settle", {})

ResolveFree(u, c) ==
    /\ phase = "free" /\ Free = {u} /\ loose = {c} /\ ~HasZeroUnits(u)
    /\ Resolve(u, c, {c, None}, "settle", {})

NoneFree ==
    /\ phase = "free" /\ Free = {}
    /\ phase' = "settle"
    /\ UNCHANGED <<walkVars, holdings, clock, diags, left, txnVars, job, traceVars,
                   strayed>>
-----------------------------------------------------------------------------
\* finalize: the entries of dropped groups are undone, in order.
Settle ==
    /\ phase = "settle"
    /\ phase' = "undo"
    /\ left' = {j \in DOMAIN entries : entries[j].group \in dropped}
    /\ UNCHANGED <<walkVars, holdings, clock, diags, txnVars, job, traceVars,
                   strayed>>

\* mutant: what was taken is taken once more
Restored_Twice(e) == IF e.reduces THEN -e.taken ELSE -e.units

\* The units of a reduction are added back with a plus sign.
Restored(e) == IF e.reduces THEN e.taken ELSE -e.units
Undo(j) ==
    LET e == entries[j]
    IN  /\ phase = "undo" /\ First(j)
        /\ RollBack(e.acct)
        /\ holdings' = [holdings EXCEPT ![e.acct] =
                            AddTo(@, e.com, e.lot, Restored(e), clock)]
        /\ clock' = clock + 1
        /\ left' = left \ {j}
        /\ Strays(e.acct, e.com, e.reduces /\ e.units > 0)
        /\ UNCHANGED <<walkVars, diags, phase, txnVars, job, report>>

\* mutant: a failed unknown stays
Survivors_Unknown ==
    {k \in DOMAIN postings :
        \/ \E e \in Range(entries) : e.at = k /\ e.group \notin dropped
        \/ \E u \in unknown : u.at = k}

Survivors ==
    {k \in DOMAIN postings :
        \/ \E e \in Range(entries) : e.at = k /\ e.group \notin dropped
        \/ \E u \in unknown : u.at = k /\ u.cur \notin dropped}

\* The visitor hears of the touched accounts, except those whose rollback left
\* the inventory as it was.
Commit ==
    /\ phase = "undo" /\ left = {}
    /\ phase' = "walk" /\ i' = i + 1
    /\ out' = out \cup Keep(Restrict(postings, Survivors))
    /\ report' = {a \in touched :
                     ~(a \in rolled /\ SameInventory(holdings[a], before[a]))}
    /\ UNCHANGED <<ledger, booking, start, holdings, clock, diags, left, txnVars,
                   job, touched, before, rolled, strayed>>

Return ==
    /\ phase = "walk" /\ i > Len(ledger)
    /\ phase' = "done"
    /\ UNCHANGED <<walkVars, holdings, clock, diags, left, txnVars, job, traceVars,
                   strayed>>

Returned == phase \in {"done", "error"} /\ UNCHANGED vars

Next ==
    \/ PassThrough \/ RejectTransaction \/ BeginTransaction
    \/ \E k \in left : \/ SetAside(k) \/ Defer(k) \/ Refuse(k)
                       \/ Augment(k) \/ Reduce(k)
    \/ phase = "take" /\ \E q \in job.candidates : TakeLot(q)
    \/ EndTaking \/ RecordStep \/ EndReducing
    \/ BeginPass2
    \/ \E u \in unknown : FailBidders(u) \/ ResolveBidder(u)
    \/ EndBidders \/ FailFree
    \/ \E u \in unknown, c \in loose : ResolveFree(u, c)
    \/ NoneFree
    \/ Settle
    \/ \E j \in left : Undo(j)
    \/ Commit \/ Return \/ Returned

Spec == Init /\ [][Next]_vars
-----------------------------------------------------------------------------
\* Types, and that an inventory has one position per commodity and lot.
OnePerLot(inv) == \A q, r \in inv : q.com = r.com /\ q.lot = r.lot => q = r
TypeOK ==
    /\ ledger \in Seq(Directive) /\ i \in Nat \ {0} /\ phase \in Phases
    /\ holdings \in [Accounts -> SUBSET Position]
    /\ \A a \in Accounts : OnePerLot(holdings[a])
    /\ start \in [Accounts -> SUBSET Position]
    /\ booking \in [Accounts -> Methods] /\ clock \in Nat
    /\ diags \subseteq Finding
    /\ out \subseteq [txn : Nat, at : Nat, posting : Posting]
    /\ left \subseteq Nat
    /\ postings \in Seq(Posting) /\ entries \in Seq(Entry)
    /\ unknown \subseteq Unknown /\ dropped \subseteq OptCurrency
    /\ weights \in [OptCurrency -> Int] /\ loose \subseteq OptCurrency
    /\ job \in {None} \cup Job
    /\ touched \subseteq Accounts /\ before \in [Accounts -> SUBSET Position]
    /\ rolled \subseteq Accounts /\ report \subseteq Accounts
    /\ strayed \subseteq Accounts \X OptCurrency

\* What the visitor hears is the truth: an account reported as changed is
\* reported with the inventory it had before the transaction, and one that is
\* not reported has the same positions in the same order, though its currency
\* groups may have been booked and undone in between.
ChangesAreReported ==
    phase = "walk" =>
        \A a \in Accounts : IF a \in report THEN before[a] = start[a]
                            ELSE SameInventory(holdings[a], start[a])

\* Between transactions every account holds what its booked postings add up
\* to, after any number of reductions, dropped groups and rollbacks, except
\* where the code is known to stray.
HoldingsAddUp ==
    phase \in {"walk", "done"} =>
        \A a \in Accounts, c \in Currencies :
            \/ <<a, c>> \in strayed
            \/ MapThenSumSet(LAMBDA q : q.units, {q \in holdings[a] : q.com = c})
               = MapThenSumSet(LAMBDA r : r.posting.units,
                     {r \in out : /\ r.posting.acct = a /\ r.posting.com = c
                                  /\ StructureFinding(ledger[r.txn].postings) = None})

\* Nothing is left open: of a transaction that was booked, every posting that
\* stays has an amount, and a cost only if it is booked; a cost without any
\* number may stay on a posting that reduces cash.
NothingUnresolved ==
    \A r \in out :
        \/ StructureFinding(ledger[r.txn].postings) # None \/ phase = "error"
        \/ /\ ~r.posting.auto
           /\ \/ r.posting.cost = None \/ r.posting.cost.booked
              \/ SpecIsEmpty(r.posting.cost) /\ r.posting.cost.cur = None

\* The currency an unknown was inferred from balances once the transaction is
\* committed, unless it is a cost inferred from a residual of the wrong sign (a
\* total cost has the sign of the units) or a posting moved the weight to another
\* currency.
InferredBalances ==
    phase = "walk" =>
        \A j \in DOMAIN entries :
            LET e == entries[j]
                group == {k \in DOMAIN entries : entries[k].group = e.group}
            IN  \/ ~e.inferred \/ e.group \in dropped
                \/ \E k \in DOMAIN entries : MovesWeight(entries[k])
                \/ /\ postings[e.at].cost # None
                   /\ Sign(e.units) = Sign(weights[e.group])
                \/ MapThenSumSet(LAMBDA k : Weight(postings[entries[k].at]).num, group)
                   = 0

\* What the doc of Walk says of its error: it is reserved for bugs of the pass
\* and for inputs that the grammar cannot produce, as a booked cost.
InputNeverHalts == phase = "error" => ~job.inferred
=============================================================================
