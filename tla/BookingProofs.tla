---------------------------- MODULE BookingProofs ----------------------------
(***************************************************************************)
(* Theorems about Booking: types with one position per lot; that the       *)
(* visitor is told every change of an inventory; that nothing is left      *)
(* unresolved; that what an account holds is what its postings add up to;  *)
(* that the currency group of an inferred posting balances.                *)
(***************************************************************************)
EXTENDS Booking, FiniteSetTheorems, SequenceTheorems, WellFoundedInduction, TLAPS

-----------------------------------------------------------------------------
(* What the operators of Lots return.                                      *)

\* Adding to an inventory keeps one position per lot.
LEMMA AddToKeeps ==
    ASSUME NEW inv \in SUBSET Position, NEW com \in OptCurrency, NEW lot \in Lot,
           NEW units \in Int, NEW ord \in Nat, OnePerLot(inv)
    PROVE  /\ AddTo(inv, com, lot, units, ord) \in SUBSET Position
           /\ OnePerLot(AddTo(inv, com, lot, units, ord))
<1> DEFINE old == {q \in inv : q.com = com /\ q.lot = lot}
           new == [com |-> com, lot |-> lot, units |-> units, ord |-> ord]
           kept == {[q EXCEPT !.units = @ + units] :
                       q \in {r \in old : r.units + units # 0}}
<1>1. new \in Position
  BY DEF Position
<1>2. CASE old = {}
  <2>1. AddTo(inv, com, lot, units, ord) = inv \cup {new}
    BY <1>2 DEF AddTo
  <2>2. \A q \in inv : ~(q.com = com /\ q.lot = lot)
    BY <1>2
  <2> QED BY <1>1, <2>1, <2>2 DEF OnePerLot
<1>3. CASE old # {}
  <2>1. AddTo(inv, com, lot, units, ord) = (inv \ old) \cup kept
    BY <1>3 DEF AddTo
  <2>2. \A q \in kept : q \in Position /\ q.com = com /\ q.lot = lot
    BY DEF Position
  <2>3. \A q, r \in kept : q = r
    <3> TAKE q, r \in kept
    <3>1. PICK x \in old : q = [x EXCEPT !.units = @ + units]
      OBVIOUS
    <3>2. PICK y \in old : r = [y EXCEPT !.units = @ + units]
      OBVIOUS
    <3>3. x = y
      BY DEF OnePerLot
    <3> QED BY <3>1, <3>2, <3>3
  <2>4. \A q \in inv \ old : ~(q.com = com /\ q.lot = lot)
    OBVIOUS
  <2> HIDE DEF old, kept
  <2> QED BY <2>1, <2>2, <2>3, <2>4 DEF OnePerLot
<1> QED BY <1>2, <1>3

LEMMA SizeIsNat == \A n \in Int : Size(n) \in Nat /\ (n # 0 => Size(n) > 0)
BY DEF Size

LEMMA PerUnitCostType ==
    ASSUME NEW c \in Cost, NEW units \in Int, LotFinding(c, units) = None
    PROVE  PerUnitCost(c, units) \in Int
<1>1. c.booked \in BOOLEAN /\ c.num \in Int /\ c.per \in OptInt /\ c.total \in OptInt
  BY DEF Cost
<1>2. CASE c.booked
  BY <1>1, <1>2 DEF PerUnitCost
<1>3. CASE ~c.booked
  <2>0. c # None
    BY NoneIsNoValue
  <2>1. "augmentation-requires-cost" # None /\ "zero-units-cost-total" # None
    BY NoneIsNoValue DEF Codes
  <2>2. HasNumber(c) /\ ~(c.total # None /\ units = 0)
    BY <1>3, <2>0, <2>1 DEF LotFinding
  <2>3. CASE c.total = None
    BY <1>1, <1>3, <2>2, <2>3 DEF PerUnitCost, OptInt, HasNumber
  <2>4. CASE c.total # None
    <3>1. c.total \in Int /\ Size(units) \in Nat /\ Size(units) > 0
      BY <1>1, <2>2, <2>4, SizeIsNat DEF OptInt
    <3>2. c.total \div Size(units) \in Int
      BY <3>1
    <3>3. (IF c.per = None THEN 0 ELSE c.per) \in Int
      BY <1>1 DEF OptInt
    <3>4. PerUnitCost(c, units)
          = (IF c.per = None THEN 0 ELSE c.per) + c.total \div Size(units)
      BY <1>3, <2>2, <2>4 DEF PerUnitCost
    <3> QED BY <3>2, <3>3, <3>4
  <2> QED BY <2>3, <2>4
<1> QED BY <1>1, <1>2, <1>3

LEMMA ResolveLotType ==
    ASSUME NEW c \in Cost \cup {None}, NEW units \in Int, NEW date \in Int,
           LotFinding(c, units) = None
    PROVE  ResolveLot(c, units, date) \in Lot
<1>1. CASE c = None
  BY <1>1 DEF ResolveLot, Cash, Lot, OptCurrency, OptInt
<1>2. CASE c # None
  <2>1. c \in Cost
    BY <1>2
  <2>2. PerUnitCost(c, units) \in Int
    BY <2>1, PerUnitCostType
  <2> QED BY <1>2, <2>1, <2>2 DEF ResolveLot, Lot, Cost, OptInt
<1> QED BY <1>1, <1>2

LEMMA ToCostType == \A lot \in Lot : ToCost(lot) \in Cost /\ ToCost(lot) # None
<1> TAKE lot \in Lot
<1>1. ToCost(lot) \in Cost
  BY DEF ToCost, Lot, Cost, OptInt
<1> QED BY <1>1, NoneIsNoValue

LEMMA AugmentCostForType ==
    ASSUME NEW c \in Cost \cup {None}, NEW lot \in Lot
    PROVE  AugmentCostFor(c, lot) \in Cost \cup {None}
<1>1. CASE c = None \/ c.booked
  BY <1>1 DEF AugmentCostFor
<1>2. CASE ~(c = None \/ c.booked)
  <2>1. c \in Cost /\ ToCost(lot) \in Cost
    BY <1>2, ToCostType
  <2> QED BY <1>2, <2>1 DEF AugmentCostFor, Cost
<1> QED BY <1>1, <1>2

LEMMA WeightType ==
    ASSUME NEW p \in Posting
    PROVE  Weight(p).cur \in OptCurrency /\ Weight(p).num \in Int
<1>1. /\ p.units \in Int /\ p.com \in OptCurrency
      /\ p.cost # None => /\ p.cost.booked \in BOOLEAN /\ p.cost.num \in Int
                          /\ p.cost.per \in OptInt /\ p.cost.total \in OptInt
                          /\ p.cost.cur \in OptCurrency
      /\ p.price # None => /\ p.price.num \in Int /\ p.price.cur \in OptCurrency
  BY DEF Posting, Cost, Price, OptCurrency
<1>2. \A m, n \in Int : Signed(m, n) \in Int /\ m * n \in Int
  BY DEF Signed, Size
<1>3. CASE p.cost # None /\ HasNumber(p.cost)
  <2>1. (IF p.cost.per = None THEN 0 ELSE p.units * p.cost.per) \in Int
    <3>1. CASE p.cost.per = None
      BY <3>1
    <3>2. CASE p.cost.per # None
      <4>1. p.cost.per \in Int
        BY <1>1, <1>3, <3>2 DEF OptInt
      <4>2. p.units * p.cost.per \in Int
        BY <1>1, <1>2, <4>1
      <4> QED BY <3>2, <4>2
    <3> QED BY <3>1, <3>2
  <2>2. (IF p.cost.total = None THEN 0 ELSE Signed(p.units, p.cost.total)) \in Int
    <3>1. CASE p.cost.total = None
      BY <3>1
    <3>2. CASE p.cost.total # None
      <4>1. p.cost.total \in Int
        BY <1>1, <1>3, <3>2 DEF OptInt
      <4>2. Signed(p.units, p.cost.total) \in Int
        BY <1>1, <1>2, <4>1
      <4> QED BY <3>2, <4>2
    <3> QED BY <3>1, <3>2
  <2> QED BY <1>1, <1>3, <2>1, <2>2 DEF Weight
<1>4. CASE ~(p.cost # None /\ HasNumber(p.cost)) /\ p.cost # None /\ p.cost.booked
  BY <1>1, <1>2, <1>4 DEF Weight
<1>5. CASE /\ ~(p.cost # None /\ HasNumber(p.cost)) /\ ~(p.cost # None /\ p.cost.booked)
           /\ p.price # None /\ ~(p.cost # None /\ p.cost.cur # None)
  BY <1>1, <1>2, <1>5 DEF Weight
<1>6. CASE /\ ~(p.cost # None /\ HasNumber(p.cost)) /\ ~(p.cost # None /\ p.cost.booked)
           /\ ~(p.price # None /\ ~(p.cost # None /\ p.cost.cur # None))
  BY <1>1, <1>6 DEF Weight
<1> QED BY <1>3, <1>4, <1>5, <1>6

LEMMA ReducedType ==
    ASSUME NEW p \in Posting, p.units # 0, NEW step \in Step, NEW many \in BOOLEAN
    PROVE  Reduced(p, step, many) \in Posting
<1>1. ToCost(step.lot) \in Cost
  BY ToCostType DEF Step
<1>2. /\ p \in [acct : Accounts, auto : BOOLEAN, units : Int, com : OptCurrency,
                cost : Cost \cup {None}, price : Price \cup {None}]
      /\ step.units \in Int
  BY DEF Posting, Step
<1>3. PricePerUnit(p) \in Price \cup {None}
  <2>1. CASE p.price = None \/ ~p.price.total
    BY <1>2, <2>1 DEF PricePerUnit
  <2>2. CASE ~(p.price = None \/ ~p.price.total)
    <3>1. p.price \in Price /\ p.price.num \in Int /\ p.price.cur \in Currencies
      BY <1>2, <2>2 DEF Price
    <3>2. p.price.num \div Size(p.units) \in Int
      BY <1>2, <3>1, SizeIsNat
    <3> QED BY <2>2, <3>1, <3>2 DEF PricePerUnit, Price
  <2> QED BY <2>1, <2>2
<1>4. Child(p, step) \in Posting
  <2>1. (IF p.units < 0 THEN -step.units ELSE step.units) \in Int
    BY <1>2
  <2> QED BY <1>1, <1>2, <1>3, <2>1 DEF Child, Posting
<1> QED BY <1>1, <1>2, <1>4 DEF Reduced, Posting

-----------------------------------------------------------------------------
(* Where the walk stands: what each phase knows of the transaction, of the *)
(* postings left to visit and of the reduction in progress.                *)

Active == {"pass1", "take", "record", "bidders", "free", "settle", "undo"}
InPass1 == phase = "pass1" \/ (phase \in {"take", "record"} /\ job.back = "pass1")
JobIsPlaced ==
    /\ job \in Job
    /\ phase = "take" => job.candidates \subseteq holdings[job.posting.acct]
    /\ job.posting.units # 0
    /\ job.back \in {"pass1", "bidders", "settle"}
    /\ job.inferred => job.at \in DOMAIN postings
    /\ job.inferred <=> job.back # "pass1"
Placed ==
    /\ phase \in Active => i \in DOMAIN ledger /\ ledger[i] \in Transaction
    /\ InPass1 => left \subseteq DOMAIN ledger[i].postings
    /\ phase = "undo" => left \subseteq DOMAIN entries
    /\ \A u \in unknown : u.at \in DOMAIN postings
    /\ phase \in {"take", "record"} => JobIsPlaced

LEMMA Transactions ==
    ASSUME NEW d \in Directive, d.kind = "txn"
    PROVE  d \in Transaction
BY DEF Directive, Open, Transaction, Other

LEMMA RefusalCodes == \A p : Refusal(p) \in {None} \cup Codes
BY DEF Refusal, ReduceFinding, LotFinding, Codes

\* What a posting that augments becomes, and the entry and inventory it makes.
LEMMA AugmentsWell ==
    ASSUME TypeOK, NEW p \in Posting, Refusal(p) = None, ~DoesReduce(p),
           Date \in Int
    PROVE  LET lot == ResolveLot(p.cost, p.units, Date)
               inv == AddTo(holdings[p.acct], p.com, lot, p.units, clock)
           IN  /\ lot \in Lot
               /\ [p EXCEPT !.cost = AugmentCostFor(@, lot)] \in Posting
               /\ inv \in SUBSET Position /\ OnePerLot(inv)
<1> DEFINE lot == ResolveLot(p.cost, p.units, Date)
<1>1. /\ p.cost \in Cost \cup {None} /\ p.units \in Int
      /\ p.com \in OptCurrency /\ p.acct \in Accounts
  BY DEF Posting
<1>2. LotFinding(p.cost, p.units) = None
  BY DEF Refusal
<1>3. lot \in Lot
  BY <1>1, <1>2, ResolveLotType
<1>4. AugmentCostFor(p.cost, lot) \in Cost \cup {None}
  BY <1>1, <1>3, AugmentCostForType
<1>5. [p EXCEPT !.cost = AugmentCostFor(@, lot)] \in Posting
  BY <1>4 DEF Posting
<1>6. holdings[p.acct] \in SUBSET Position /\ OnePerLot(holdings[p.acct])
      /\ clock \in Nat
  BY <1>1 DEF TypeOK
<1>7. /\ AddTo(holdings[p.acct], p.com, lot, p.units, clock) \in SUBSET Position
      /\ OnePerLot(AddTo(holdings[p.acct], p.com, lot, p.units, clock))
  BY <1>1, <1>3, <1>6, AddToKeeps
<1> QED BY <1>3, <1>5, <1>7

LEMMA CandidateType ==
    ASSUME NEW p \in Posting, NEW c \in OptCurrency, Date \in Int,
           weights \in [OptCurrency -> Int]
    PROVE  Candidate(p, c) \in Posting
<1>1. weights[c] \in Int /\ -weights[c] \in Int
  OBVIOUS
<1>2. CASE p.auto
  BY <1>1, <1>2 DEF Candidate, Posting
<1>3. CASE ~p.auto
  <2>1. ResidualCost(p.cost, c, -weights[c]) \in Cost
    <3>1. CASE p.cost # None /\ ~p.cost.booked
      <4>1. p.cost \in Cost
        BY <3>1 DEF Posting
      <4> QED BY <1>1, <3>1, <4>1 DEF ResidualCost, Cost, OptInt
    <3>2. CASE ~(p.cost # None /\ ~p.cost.booked)
      BY <1>1, <3>2 DEF ResidualCost, Cost, OptInt
    <3> QED BY <3>1, <3>2
  <2> QED BY <1>3, <2>1 DEF Candidate, Posting
<1> QED BY <1>2, <1>3

LEMMA InitPlaced == Init => TypeOK /\ Placed
<1> SUFFICES ASSUME Init PROVE TypeOK /\ Placed
  OBVIOUS
<1>1. ledger \in Seq(Directive)
  BY LedgersAreDirectives DEF Init
<1>2. TypeOK
  BY <1>1 DEF Init, TypeOK, Phases, OnePerLot, Methods
<1> QED BY <1>2 DEF Init, Placed, Active, InPass1

LEMMA StutterPlaced == TypeOK /\ Placed /\ UNCHANGED vars => TypeOK' /\ Placed'
BY DEF vars, walkVars, traceVars, txnVars, TypeOK, Placed, Active, InPass1,
       JobIsPlaced

\* Between transactions.
LEMMA WalkPlaced ==
    TypeOK /\ Placed /\ (PassThrough \/ RejectTransaction \/ BeginTransaction \/ Return)
    => TypeOK' /\ Placed'
<1> SUFFICES ASSUME TypeOK, Placed,
                    PassThrough \/ RejectTransaction \/ BeginTransaction \/ Return
             PROVE  TypeOK' /\ Placed'
  OBVIOUS
<1>1. CASE PassThrough
  <2>1. ledger[i] \in Directive
    BY <1>1 DEF TypeOK, PassThrough
  <2>2. booking' \in [Accounts -> Methods]
    BY <1>1, <2>1 DEF TypeOK, PassThrough, Directive, Open, Transaction, Other
  <2> QED BY <1>1, <2>2 DEF PassThrough, TypeOK, Placed, Active, InPass1, JobIsPlaced,
             txnVars
<1>2. CASE RejectTransaction
  <2>1. ledger[i] \in Transaction
    BY <1>2, Transactions DEF TypeOK, RejectTransaction
  <2>2. Keep(ledger[i].postings) \subseteq [txn : Nat, at : Nat, posting : Posting]
    BY <2>1 DEF Transaction, Keep, TypeOK
  <2>3. StructureFinding(ledger[i].postings) \in Codes
    BY <1>2 DEF RejectTransaction, StructureFinding, Codes
  <2>4. diags' \subseteq Finding
    BY <1>2, <2>3 DEF RejectTransaction, Diagnose, Finding, TypeOK
  <2> QED BY <1>2, <2>2, <2>4 DEF RejectTransaction, TypeOK, Placed, Active, InPass1,
             JobIsPlaced, txnVars
<1>3. CASE BeginTransaction
  <2>1. ledger[i] \in Transaction /\ i \in DOMAIN ledger
    BY <1>3, Transactions DEF TypeOK, BeginTransaction
  <2>2. left' \subseteq Nat /\ left' = DOMAIN ledger[i].postings
    BY <1>3, <2>1 DEF BeginTransaction, Transaction
  <2> QED BY <1>3, <2>1, <2>2 DEF BeginTransaction, TypeOK, Placed, Active, InPass1,
             JobIsPlaced, Phases
<1>4. CASE Return
  BY <1>4 DEF Return, TypeOK, Placed, Active, InPass1, JobIsPlaced, Phases,
              walkVars, traceVars, txnVars
<1> QED BY <1>1, <1>2, <1>3, <1>4

\* Pass 1.
LEMMA Pass1Placed ==
    ASSUME TypeOK, Placed, NEW k \in left,
           SetAside(k) \/ Defer(k) \/ Refuse(k) \/ Augment(k) \/ Reduce(k)
    PROVE  TypeOK' /\ Placed'
<1> DEFINE p == ledger[i].postings[k]
<1>1. /\ phase = "pass1" /\ left' = left \ {k} /\ left \subseteq Nat
      /\ i \in DOMAIN ledger /\ ledger[i] \in Transaction /\ i \in Nat
      /\ left \subseteq DOMAIN ledger[i].postings /\ UNCHANGED walkVars
  BY DEF SetAside, Defer, Refuse, Augment, Reduce, Visit, Placed, Active, InPass1, TypeOK
<1>2. p \in Posting /\ Date \in Int /\ p.acct \in Accounts
  <2>1. ledger[i].postings \in Seq(Posting) /\ ledger[i].date \in Int
    BY <1>1 DEF Transaction
  <2>2. p \in Posting
    BY <1>1, <2>1
  <2> QED BY <2>1, <2>2 DEF Date, Posting
<1>3. Set(p) => /\ postings' \in Seq(Posting) /\ unknown' \subseteq Unknown
                /\ \A u \in unknown' : u.at \in DOMAIN postings'
  <2> SUFFICES ASSUME Set(p) PROVE /\ postings' \in Seq(Posting)
                                   /\ unknown' \subseteq Unknown
                                   /\ \A u \in unknown' : u.at \in DOMAIN postings'
    OBVIOUS
  <2>1. CandidateCurrency(p) \in OptCurrency
    BY <1>2 DEF CandidateCurrency, Posting, Cost, Price, OptCurrency
  <2>2. /\ postings' = Append(postings, p) /\ postings \in Seq(Posting)
        /\ unknown' = unknown \cup {[at |-> Len(postings) + 1,
                                     cur |-> CandidateCurrency(p)]}
    BY DEF Set, TypeOK
  <2>3. /\ postings' \in Seq(Posting) /\ DOMAIN postings' = 1..Len(postings) + 1
        /\ DOMAIN postings = 1..Len(postings) /\ Len(postings) \in Nat
    BY <1>2, <2>2
  <2> HIDE DEF p
  <2> QED BY <2>1, <2>2, <2>3 DEF TypeOK, Placed, Unknown
<1>4. Touch(p.acct) => /\ touched' \subseteq Accounts
                       /\ before' \in [Accounts -> SUBSET Position]
  BY <1>2 DEF Touch, TypeOK
<1>5. CASE SetAside(k)
  <2> HIDE DEF p
  <2> QED BY <1>1, <1>3, <1>5 DEF SetAside, TypeOK, Placed, Active, InPass1, JobIsPlaced,
         walkVars, traceVars, p
<1>6. CASE Defer(k)
  <2>1. Set(p) /\ Touch(p.acct)
    BY <1>6 DEF Defer
  <2> HIDE DEF p
  <2> QED BY <1>1, <1>3, <1>4, <1>6, <2>1
      DEF Defer, TypeOK, Placed, Active, InPass1, JobIsPlaced, walkVars
<1>7. CASE Refuse(k)
  <2>1. Weight(p).cur \in OptCurrency
    BY <1>2, WeightType
  <2>2. Refusal(p) \in Codes
    BY <1>7, RefusalCodes DEF Refuse
  <2>3. /\ Diagnose(Refusal(p)) /\ dropped' = dropped \cup {Weight(p).cur}
        /\ Touch(p.acct) /\ rolled' = rolled \cup {p.acct}
        /\ UNCHANGED <<walkVars, holdings, clock, phase, postings, entries,
                       unknown, weights, loose, job, report, strayed>>
    BY <1>7 DEF Refuse, RollBack
  <2>4. diags' \subseteq Finding
    BY <2>2, <2>3 DEF Diagnose, Finding, TypeOK
  <2> HIDE DEF p
  <2> QED BY <1>1, <1>2, <1>4, <2>1, <2>3, <2>4
      DEF TypeOK, Placed, Active, InPass1, JobIsPlaced, walkVars
<1>8. CASE Augment(k)
  <2> DEFINE lot == ResolveLot(p.cost, p.units, Date)
             booked == [p EXCEPT !.cost = AugmentCostFor(@, lot)]
             group == IF p.cost = None THEN CashKey(p) ELSE p.cost.cur
  <2>1. /\ Refusal(p) = None /\ ~DoesReduce(p)
        /\ Added(p, lot, Len(postings) + 1, group, FALSE)
        /\ postings' = Append(postings, booked) /\ Weigh(booked) /\ Touch(p.acct)
        /\ UNCHANGED <<diags, phase, unknown, dropped, loose, job, rolled, report,
                       strayed>>
    BY <1>8 DEF Augment
  <2>2. /\ lot \in Lot /\ booked \in Posting
        /\ AddTo(holdings[p.acct], p.com, lot, p.units, clock) \in SUBSET Position
        /\ OnePerLot(AddTo(holdings[p.acct], p.com, lot, p.units, clock))
    BY <1>2, <2>1, AugmentsWell
  <2>3. group \in OptCurrency
    BY <1>2 DEF CashKey, Posting, Cost, Price, OptCurrency
  <2>4. weights' \in [OptCurrency -> Int]
    <3> HIDE DEF p, lot, booked, group
    <3>1. Weight(booked).cur \in OptCurrency /\ Weight(booked).num \in Int
      BY <2>2, WeightType
    <3> QED BY <2>1, <3>1 DEF Weigh, TypeOK
  <2> HIDE DEF p, lot, booked, group
  <2>5. /\ postings' \in Seq(Posting) /\ DOMAIN postings \subseteq DOMAIN postings'
        /\ Len(postings) + 1 \in Nat
    <3>1. postings \in Seq(Posting) /\ booked \in Posting
      BY <2>2 DEF TypeOK
    <3>2. postings' = Append(postings, booked)
      BY <2>1
    <3> QED BY <3>1, <3>2
  <2>6. entries' \in Seq(Entry) /\ clock' \in Nat
    BY <1>2, <2>1, <2>2, <2>3, <2>5 DEF Added, Entry, Posting, TypeOK
  <2>7. /\ holdings' \in [Accounts -> SUBSET Position]
        /\ \A a \in Accounts : OnePerLot(holdings'[a])
    BY <1>2, <2>1, <2>2 DEF Added, TypeOK
  <2>8. TypeOK'
    BY <1>1, <1>4, <2>1, <2>4, <2>5, <2>6, <2>7 DEF TypeOK, walkVars
  <2>9. Placed'
    BY <1>1, <2>1, <2>5 DEF Placed, Active, InPass1, JobIsPlaced, walkVars
  <2> QED BY <2>8, <2>9
<1>9. CASE Reduce(k)
  <2>1. /\ StartReducing(p, Len(postings) + 1, None, FALSE, "pass1")
        /\ DoesReduce(p)
        /\ UNCHANGED <<walkVars, holdings, clock, diags, txnVars, rolled, report,
                       strayed>>
    BY <1>9 DEF Reduce
  <2>2. p.units # 0 /\ Size(p.units) \in Int /\ Len(postings) + 1 \in Nat
    <3> HIDE DEF p
    <3>1. p.units \in Int /\ Len(postings) \in Nat
      BY <1>2 DEF Posting, TypeOK
    <3>2. p.units # 0
      BY <2>1 DEF DoesReduce, Reduces
    <3>3. Size(p.units) \in Int
      BY <3>1, SizeIsNat
    <3>4. Len(postings) + 1 \in Nat
      BY <3>1
    <3> QED BY <3>2, <3>3, <3>4
  <2>3. Candidates(holdings[p.acct], p) \subseteq holdings[p.acct]
    BY DEF Candidates
  <2>4. holdings[p.acct] \subseteq Position
    BY <1>2 DEF TypeOK
  <2> HIDE DEF p
  <2>5. job' \in Job /\ Touch(p.acct) /\ phase' = "take"
    BY <1>2, <2>1, <2>2, <2>3, <2>4 DEF StartReducing, Job, Phases, OptCurrency
  <2>6. TypeOK'
    BY <1>1, <1>4, <2>1, <2>5 DEF TypeOK, walkVars, txnVars, Phases
  <2>7. JobIsPlaced'
    BY <1>2, <2>1, <2>2, <2>3, <2>5 DEF JobIsPlaced, StartReducing, txnVars
  <2>8. Placed'
    BY <1>1, <2>1, <2>5, <2>7 DEF Placed, Active, InPass1, walkVars, txnVars
  <2> QED BY <2>6, <2>8
<1> QED BY <1>5, <1>6, <1>7, <1>8, <1>9

\* A reduction.
LEMMA TakingPlaced ==
    ASSUME TypeOK, Placed, phase = "take", NEW q \in job.candidates, TakeLot(q)
    PROVE  TypeOK' /\ Placed'
<1> DEFINE a == job.posting.acct
           take == IF job.wanted >= Size(q.units) THEN Size(q.units) ELSE job.wanted
           units == IF q.units >= 0 THEN q.units - take ELSE q.units + take
           rest == [q EXCEPT !.units = units]
           step == [lot |-> q.lot, units |-> take]
<1>1. JobIsPlaced /\ job \in Job
  BY DEF Placed, JobIsPlaced
<1>2. /\ a \in Accounts /\ q \in Position /\ q \in holdings[a]
      /\ holdings[a] \subseteq Position /\ OnePerLot(holdings[a])
  BY <1>1 DEF JobIsPlaced, Job, Posting, TypeOK
<1>3. take \in Int /\ units \in Int
  BY <1>1, <1>2, SizeIsNat DEF Job, Position
<1>4. rest \in Position /\ rest.com = q.com /\ rest.lot = q.lot
  BY <1>2, <1>3 DEF Position
<1>5. /\ holdings' = [holdings EXCEPT ![a] = (@ \ {q}) \cup {rest}]
      /\ job' = [job EXCEPT !.candidates = @ \ {q}, !.wanted = @ - take,
                            !.steps = Append(@, step)]
      /\ Strays(a, q.com, Sign(q.units) = Sign(job.posting.units))
      /\ UNCHANGED <<walkVars, clock, diags, phase, left, txnVars, traceVars>>
  BY DEF TakeLot
<1>6. step \in Step
  BY <1>2, <1>3 DEF Step, Position
<1> HIDE DEF take, units, rest, step
<1>7. OnePerLot((holdings[a] \ {q}) \cup {rest})
  BY <1>2, <1>4 DEF OnePerLot
<1>8. job' \in Job
  <2>1. /\ job.steps \in Seq(Step) /\ job.wanted \in Int
        /\ job.candidates \subseteq Position
    BY <1>1 DEF Job
  <2>2. Append(job.steps, step) \in Seq(Step) /\ job.wanted - take \in Int
    BY <1>3, <1>6, <2>1
  <2>3. job' = [job EXCEPT !.candidates = job.candidates \ {q},
                           !.wanted = job.wanted - take,
                           !.steps = Append(job.steps, step)]
    BY <1>1, <1>5 DEF Job
  <2> QED BY <1>1, <2>1, <2>2, <2>3 DEF Job
<1>9. /\ job'.candidates = job.candidates \ {q} /\ job'.posting = job.posting
      /\ job'.back = job.back /\ job'.inferred = job.inferred /\ job'.at = job.at
  BY <1>1, <1>5 DEF Job
<1>10. strayed' \subseteq Accounts \X OptCurrency
  BY <1>2, <1>5 DEF Strays, Position, TypeOK
<1>11. /\ holdings' \in [Accounts -> SUBSET Position]
       /\ \A b \in Accounts : OnePerLot(holdings'[b])
       /\ holdings'[a] = (holdings[a] \ {q}) \cup {rest}
  BY <1>2, <1>4, <1>5, <1>7 DEF TypeOK
<1>12. TypeOK'
  BY <1>5, <1>8, <1>10, <1>11 DEF TypeOK, walkVars, txnVars, traceVars
<1>13. JobIsPlaced'
  BY <1>1, <1>5, <1>8, <1>9, <1>11 DEF JobIsPlaced, txnVars
<1>14. Placed'
  BY <1>5, <1>9, <1>13 DEF Placed, Active, InPass1, walkVars, txnVars
<1> QED BY <1>12, <1>14

LEMMA EndTakingPlaced == TypeOK /\ Placed /\ EndTaking => TypeOK' /\ Placed'
<1> SUFFICES ASSUME TypeOK, Placed, EndTaking PROVE TypeOK' /\ Placed'
  OBVIOUS
<1> DEFINE p == job.posting
           halts == /\ Len(job.steps) > 1
                    /\ job.inferred \/ (p.cost # None /\ p.cost.booked)
           full == {q \in holdings[p.acct] : q.units # 0}
           several == Len(job.steps) > 1
<1>0. job' = [job EXCEPT !.many = several] /\ several \in BOOLEAN
  BY DEF EndTaking
<1>1. /\ phase = "take" /\ holdings' = [holdings EXCEPT ![p.acct] = full]
      /\ Strays(p.acct, p.com, job.wanted # 0)
      /\ phase' = IF halts THEN "error" ELSE "record"
      /\ out' = IF halts THEN out \cup Keep(ledger[i].postings) ELSE out
      /\ UNCHANGED <<ledger, i, booking, start, clock, diags, left, txnVars, traceVars>>
  BY DEF EndTaking
<1>2. JobIsPlaced /\ job \in Job /\ job.posting \in Posting /\ p.acct \in Accounts
  BY <1>1 DEF Placed, JobIsPlaced, Job, Posting
<1>3. job' \in Job /\ job'.posting = job.posting /\ job'.back = job.back
      /\ job'.inferred = job.inferred /\ job'.at = job.at
  <2> HIDE DEF several
  <2> QED BY <1>0, <1>2 DEF Job
<1>4. out' \subseteq [txn : Nat, at : Nat, posting : Posting]
  <2>1. ledger[i].postings \in Seq(Posting)
    BY <1>1 DEF Placed, Active, Transaction
  <2>2. Keep(ledger[i].postings) \subseteq [txn : Nat, at : Nat, posting : Posting]
    BY <2>1 DEF Keep, TypeOK
  <2> QED BY <1>1, <2>2 DEF TypeOK
<1>5. strayed' \subseteq Accounts \X OptCurrency
  BY <1>1, <1>2 DEF Strays, Posting, TypeOK
<1>6. /\ holdings' \in [Accounts -> SUBSET Position]
      /\ \A b \in Accounts : OnePerLot(holdings'[b])
      /\ holdings'[p.acct] = full
  BY <1>1, <1>2 DEF OnePerLot, TypeOK
<1> HIDE DEF p, halts, full, several
<1>7. TypeOK'
  BY <1>1, <1>3, <1>4, <1>5, <1>6 DEF TypeOK, txnVars, traceVars, Phases
<1>8. CASE halts
  <2>1. phase' = "error"
    BY <1>1, <1>8
  <2> QED BY <1>1, <1>7, <2>1 DEF Placed, Active, InPass1, txnVars
<1>9. CASE ~halts
  <2>1. phase' = "record"
    BY <1>1, <1>9
  <2>2. JobIsPlaced'
    BY <1>1, <1>2, <1>3, <2>1 DEF JobIsPlaced, txnVars
  <2> QED BY <1>1, <1>2, <1>3, <1>7, <2>1, <2>2
         DEF Placed, Active, InPass1, JobIsPlaced, txnVars
<1> QED BY <1>8, <1>9

LEMMA RecordingPlaced == TypeOK /\ Placed /\ RecordStep => TypeOK' /\ Placed'
<1> SUFFICES ASSUME TypeOK, Placed, RecordStep PROVE TypeOK' /\ Placed'
  OBVIOUS
<1> DEFINE p == job.posting
           step == Head(job.steps)
           q == Reduced(p, step, job.many)
           at == IF job.inferred THEN job.at ELSE Len(postings) + 1
           group == IF job.inferred THEN job.group ELSE ReductionKey(p, step, job.many)
           entry == [at |-> at, acct |-> p.acct, com |-> p.com, lot |-> step.lot,
                     group |-> group, units |-> q.units, reduces |-> TRUE,
                     taken |-> step.units, inferred |-> job.inferred]
<1>1. /\ phase = "record" /\ job.steps # <<>>
      /\ entries' = Append(entries, entry)
      /\ postings' = IF job.inferred THEN [postings EXCEPT ![at] = q]
                                     ELSE Append(postings, q)
      /\ IF job.inferred THEN UNCHANGED weights ELSE Weigh(q)
      /\ unknown' = IF job.inferred
                    THEN {[u EXCEPT !.cur = IF u.at = at THEN job.group ELSE @] :
                             u \in unknown}
                    ELSE unknown
      /\ job' = [job EXCEPT !.steps = Tail(@)]
      /\ UNCHANGED <<walkVars, holdings, clock, diags, phase, left, dropped,
                     loose, traceVars, strayed>>
  BY DEF RecordStep
<1>2. /\ JobIsPlaced /\ job \in Job /\ p \in Posting /\ p.units # 0
      /\ job.steps \in Seq(Step) /\ job.many \in BOOLEAN /\ job.group \in OptCurrency
      /\ job.inferred \in BOOLEAN /\ job.at \in Nat
      /\ job.inferred => job.at \in DOMAIN postings
      /\ postings \in Seq(Posting) /\ Len(postings) \in Nat
  BY <1>1 DEF Placed, JobIsPlaced, Job, TypeOK
<1>3. step \in Step /\ Tail(job.steps) \in Seq(Step)
  BY <1>1, <1>2
<1>4. q \in Posting
  BY <1>2, <1>3, ReducedType
<1>5. Weight(q).cur \in OptCurrency /\ Weight(q).num \in Int
      /\ Weight(p).cur \in OptCurrency
  BY <1>2, <1>4, WeightType
<1>6. at \in Nat /\ (job.inferred => at \in DOMAIN postings)
  BY <1>2
<1>7. group \in OptCurrency
  BY <1>2, <1>3, <1>5
     DEF ReductionKey, CashKey, Step, Lot, Posting, Cost, Price, OptCurrency
<1> HIDE DEF q, at, group, step
<1>8. entry \in Entry
  BY <1>2, <1>3, <1>4, <1>6, <1>7 DEF Entry, Step, Posting
<1> HIDE DEF entry, p
<1>9. job' \in Job /\ job'.posting = job.posting /\ job'.back = job.back
      /\ job'.inferred = job.inferred /\ job'.at = job.at
      /\ job'.candidates = job.candidates
  BY <1>1, <1>2, <1>3 DEF Job
<1>10. postings' \in Seq(Posting) /\ DOMAIN postings \subseteq DOMAIN postings'
  BY <1>1, <1>2, <1>4, <1>6
<1>11. weights' \in [OptCurrency -> Int]
  BY <1>1, <1>5 DEF Weigh, TypeOK
<1>12. unknown' \subseteq Unknown /\ \A u \in unknown' : u.at \in DOMAIN postings'
  <2>1. CASE job.inferred
    <3>1. \A u \in unknown : /\ u \in Unknown /\ u.at \in DOMAIN postings
                             /\ (IF u.at = at THEN job.group ELSE u.cur) \in OptCurrency
      BY <1>2 DEF TypeOK, Placed, Unknown
    <3> QED BY <1>1, <1>10, <2>1, <3>1 DEF Unknown
  <2>2. CASE ~job.inferred
    BY <1>1, <1>10, <2>2 DEF TypeOK, Placed
  <2> QED BY <2>1, <2>2
<1>13. entries' \in Seq(Entry)
  BY <1>1, <1>8 DEF TypeOK
<1>14. TypeOK'
  BY <1>1, <1>9, <1>10, <1>11, <1>12, <1>13 DEF TypeOK, walkVars, traceVars
<1>15. JobIsPlaced'
  BY <1>1, <1>2, <1>9, <1>10 DEF JobIsPlaced
<1>16. Placed'
  BY <1>1, <1>9, <1>12, <1>15 DEF Placed, Active, InPass1, walkVars
<1> QED BY <1>14, <1>16

LEMMA EndReducingPlaced == TypeOK /\ Placed /\ EndReducing => TypeOK' /\ Placed'
<1> SUFFICES ASSUME TypeOK, Placed, EndReducing PROVE TypeOK' /\ Placed'
  OBVIOUS
<1>1. JobIsPlaced /\ job.back \in {"pass1", "bidders", "settle"} /\ phase' = job.back
  BY DEF EndReducing, Placed, JobIsPlaced
<1>2. TypeOK'
  BY <1>1 DEF EndReducing, TypeOK, Phases, walkVars, txnVars, traceVars
<1>3. Placed'
  BY <1>1 DEF EndReducing, Placed, Active, InPass1, walkVars, txnVars
<1> QED BY <1>2, <1>3

\* Pass 2.
LEMMA BeginPass2Placed == TypeOK /\ Placed /\ BeginPass2 => TypeOK' /\ Placed'
<1> SUFFICES ASSUME TypeOK, Placed, BeginPass2 PROVE TypeOK' /\ Placed'
  OBVIOUS
<1>1. left' \subseteq Nat /\ loose' \subseteq OptCurrency
  BY DEF BeginPass2, TypeOK, Unknown
<1>2. TypeOK'
  BY <1>1 DEF BeginPass2, TypeOK, Phases, walkVars, traceVars
<1>3. Placed'
  BY DEF BeginPass2, Placed, Active, InPass1, walkVars
<1> QED BY <1>2, <1>3

LEMMA GiveUpPlaced ==
    ASSUME TypeOK, Placed, phase \in {"bidders", "free"},
           NEW curs \in SUBSET OptCurrency, NEW next \in {"bidders", "settle"},
           NEW still \in SUBSET Nat, GiveUp(curs, next, still)
    PROVE  TypeOK' /\ Placed'
<1>1. diags' \subseteq Finding
  BY DEF GiveUp, Diagnose, Finding, Codes, TypeOK
<1>2. TypeOK'
  BY <1>1 DEF GiveUp, TypeOK, Phases, walkVars, traceVars
<1>3. Placed'
  BY DEF GiveUp, Placed, Active, InPass1, walkVars
<1> QED BY <1>2, <1>3

LEMMA ResolvePlaced ==
    ASSUME TypeOK, Placed, phase \in {"bidders", "free"},
           NEW u \in unknown, NEW c \in OptCurrency,
           NEW curs \in SUBSET OptCurrency, NEW next \in {"bidders", "settle"},
           NEW still \in SUBSET Nat, Resolve(u, c, curs, next, still)
    PROVE  TypeOK' /\ Placed'
<1> DEFINE p == Candidate(postings[u.at], c)
           lot == ResolveLot(p.cost, p.units, Date)
           booked == [p EXCEPT !.cost = AugmentCostFor(@, lot)]
<1>1. /\ ledger[i] \in Transaction /\ i \in DOMAIN ledger /\ Date \in Int
      /\ u \in Unknown /\ u.at \in DOMAIN postings /\ u.at \in Nat
      /\ postings \in Seq(Posting) /\ postings[u.at] \in Posting
      /\ weights \in [OptCurrency -> Int]
  BY DEF Placed, Active, Transaction, Date, TypeOK, Unknown
<1>2. p \in Posting
  BY <1>1, CandidateType
<1>3. Touch(p.acct) => /\ touched' \subseteq Accounts
                       /\ before' \in [Accounts -> SUBSET Position]
  BY <1>2 DEF Touch, TypeOK, Posting
<1>4. left' = still
  BY DEF Resolve
<1>5. CASE Refusal(p) # None
  <2>1. /\ Diagnose(Refusal(p)) /\ dropped' = dropped \cup curs
        /\ Touch(p.acct) /\ rolled' = rolled \cup {p.acct} /\ phase' = next
        /\ UNCHANGED <<walkVars, holdings, clock, postings, entries, unknown,
                       weights, loose, job, report, strayed>>
    BY <1>5 DEF Resolve, RollBack
  <2>2. Refusal(p) \in Codes /\ p.acct \in Accounts
    BY <1>2, <1>5, RefusalCodes DEF Posting
  <2>3. diags' \subseteq Finding
    BY <2>1, <2>2 DEF Diagnose, Finding, TypeOK
  <2> HIDE DEF p
  <2>4. TypeOK'
    BY <1>3, <1>4, <2>1, <2>2, <2>3 DEF TypeOK, Phases, walkVars
  <2>5. Placed'
    BY <2>1 DEF Placed, Active, InPass1, walkVars
  <2> QED BY <2>4, <2>5
<1>6. CASE Refusal(p) = None /\ ~DoesReduce(p)
  <2>1. /\ Added(p, lot, u.at, c, TRUE)
        /\ postings' = [postings EXCEPT ![u.at] = booked]
        /\ unknown' = (unknown \ {u}) \cup {[u EXCEPT !.cur = c]}
        /\ Touch(p.acct) /\ phase' = next
        /\ UNCHANGED <<walkVars, diags, weights, dropped, loose, job, rolled,
                       report, strayed>>
    BY <1>6 DEF Resolve
  <2>2. /\ lot \in Lot /\ booked \in Posting
        /\ AddTo(holdings[p.acct], p.com, lot, p.units, clock) \in SUBSET Position
        /\ OnePerLot(AddTo(holdings[p.acct], p.com, lot, p.units, clock))
    BY <1>1, <1>2, <1>6, AugmentsWell
  <2> HIDE DEF p, lot, booked
  <2>3. entries' \in Seq(Entry) /\ clock' \in Nat
    <3>1. /\ entries \in Seq(Entry) /\ clock \in Nat /\ clock' = clock + 1
          /\ p.acct \in Accounts /\ p.com \in OptCurrency /\ p.units \in Int
      BY <1>2, <2>1 DEF Added, Posting, TypeOK
    <3> QED BY <1>1, <2>1, <2>2, <3>1 DEF Added, Entry
  <2>4. /\ holdings' \in [Accounts -> SUBSET Position]
        /\ \A a \in Accounts : OnePerLot(holdings'[a])
    BY <1>2, <2>1, <2>2 DEF Added, TypeOK, Posting
  <2>5. postings' \in Seq(Posting) /\ DOMAIN postings' = DOMAIN postings
    <3>1. postings \in Seq(Posting) /\ booked \in Posting /\ u.at \in DOMAIN postings
      BY <1>1, <2>2
    <3>2. postings' = [postings EXCEPT ![u.at] = booked]
      BY <2>1
    <3> QED BY <3>1, <3>2
  <2>6. unknown' \subseteq Unknown /\ \A v \in unknown' : v.at \in DOMAIN postings'
    BY <1>1, <2>1, <2>5 DEF Unknown, TypeOK, Placed
  <2>7. TypeOK'
    BY <1>3, <1>4, <2>1, <2>3, <2>4, <2>5, <2>6 DEF TypeOK, Phases, walkVars
  <2>8. Placed'
    BY <2>1, <2>6 DEF Placed, Active, InPass1, walkVars
  <2> QED BY <2>7, <2>8
<1>7. CASE Refusal(p) = None /\ DoesReduce(p)
  <2>1. /\ StartReducing(p, u.at, c, TRUE, next)
        /\ UNCHANGED <<walkVars, holdings, clock, diags, txnVars, rolled,
                       report, strayed>>
    BY <1>7 DEF Resolve
  <2> HIDE DEF p
  <2>2. p.units \in Int /\ p.units # 0 /\ Size(p.units) \in Int
    BY <1>2, <1>7, SizeIsNat DEF DoesReduce, Reduces, Posting
  <2>3. /\ Candidates(holdings[p.acct], p) \subseteq holdings[p.acct]
        /\ holdings[p.acct] \subseteq Position
    BY <1>2 DEF Candidates, TypeOK, Posting
  <2>4. job' \in Job /\ Touch(p.acct) /\ phase' = "take"
    BY <1>1, <1>2, <2>1, <2>2, <2>3 DEF StartReducing, Job, Phases
  <2>5. TypeOK'
    BY <1>3, <1>4, <2>1, <2>4 DEF TypeOK, Phases, walkVars, txnVars
  <2>6. JobIsPlaced'
    BY <1>1, <2>1, <2>2, <2>3, <2>4 DEF JobIsPlaced, StartReducing, txnVars
  <2>7. Placed'
    BY <2>1, <2>4, <2>6 DEF Placed, Active, InPass1, StartReducing, walkVars, txnVars
  <2> QED BY <2>5, <2>7
<1> QED BY <1>5, <1>6, <1>7

LEMMA Pass2Placed ==
    /\ TypeOK /\ Placed
    /\ \/ \E u \in unknown : FailBidders(u) \/ ResolveBidder(u)
       \/ EndBidders \/ FailFree \/ NoneFree
       \/ \E u \in unknown, c \in loose : ResolveFree(u, c)
    => TypeOK' /\ Placed'
<1> SUFFICES ASSUME TypeOK, Placed PROVE
       /\ (\E u \in unknown : FailBidders(u) \/ ResolveBidder(u)) => TypeOK' /\ Placed'
       /\ EndBidders \/ NoneFree => TypeOK' /\ Placed'
       /\ FailFree => TypeOK' /\ Placed'
       /\ (\E u \in unknown, c \in loose : ResolveFree(u, c)) => TypeOK' /\ Placed'
  OBVIOUS
<1>1. \A u \in unknown : {u.cur} \in SUBSET OptCurrency /\ u.cur \in OptCurrency
  BY DEF TypeOK, Unknown
<1>2. \A S : left \ S \in SUBSET Nat
  BY DEF TypeOK
<1>3. {None} \in SUBSET OptCurrency /\ {} \in SUBSET Nat
  BY DEF OptCurrency
<1>4. ASSUME NEW u \in unknown, FailBidders(u) PROVE TypeOK' /\ Placed'
  BY <1>1, <1>2, <1>4, GiveUpPlaced DEF FailBidders
<1>5. ASSUME NEW u \in unknown, ResolveBidder(u) PROVE TypeOK' /\ Placed'
  BY <1>1, <1>2, <1>5, ResolvePlaced DEF ResolveBidder
<1>6. ASSUME EndBidders \/ NoneFree PROVE TypeOK' /\ Placed'
  BY <1>6 DEF EndBidders, NoneFree, TypeOK, Phases, Placed, Active, InPass1, walkVars,
              txnVars, traceVars
<1>7. ASSUME FailFree PROVE TypeOK' /\ Placed'
  BY <1>3, <1>7, GiveUpPlaced DEF FailFree
<1>8. ASSUME NEW u \in unknown, NEW c \in loose, ResolveFree(u, c)
      PROVE  TypeOK' /\ Placed'
  <2>1. c \in OptCurrency /\ {c, None} \in SUBSET OptCurrency
    BY <1>3 DEF TypeOK
  <2> QED BY <1>3, <1>8, <2>1, ResolvePlaced DEF ResolveFree
<1> QED BY <1>4, <1>5, <1>6, <1>7, <1>8

\* The end of a transaction.
LEMMA FinalizePlaced ==
    TypeOK /\ Placed /\ (Settle \/ (\E j \in left : Undo(j)) \/ Commit)
    => TypeOK' /\ Placed'
<1> SUFFICES ASSUME TypeOK, Placed PROVE
       /\ Settle => TypeOK' /\ Placed'
       /\ (\E j \in left : Undo(j)) => TypeOK' /\ Placed'
       /\ Commit => TypeOK' /\ Placed'
  OBVIOUS
<1>1. ASSUME Settle PROVE TypeOK' /\ Placed'
  <2>1. left' \subseteq Nat /\ left' \subseteq DOMAIN entries
    BY <1>1 DEF Settle, TypeOK
  <2> QED BY <1>1, <2>1 DEF Settle, TypeOK, Phases, Placed, Active, InPass1, walkVars,
             txnVars, traceVars
<1>2. ASSUME NEW j \in left, Undo(j) PROVE TypeOK' /\ Placed'
  <2> DEFINE e == entries[j]
             inv == AddTo(holdings[e.acct], e.com, e.lot, Restored(e), clock)
  <2>1. /\ phase = "undo" /\ Touch(e.acct) /\ rolled' = rolled \cup {e.acct}
        /\ holdings' = [holdings EXCEPT ![e.acct] = inv]
        /\ clock' = clock + 1 /\ left' = left \ {j}
        /\ Strays(e.acct, e.com, e.reduces /\ e.units > 0)
        /\ UNCHANGED <<walkVars, diags, phase, txnVars, job, report>>
    BY <1>2 DEF Undo, RollBack
  <2>2. e \in Entry
    BY <2>1 DEF Placed, TypeOK
  <2>3. /\ e.acct \in Accounts /\ e.com \in OptCurrency /\ e.lot \in Lot
        /\ Restored(e) \in Int
    BY <2>2 DEF Entry, Restored
  <2>4. inv \in SUBSET Position /\ OnePerLot(inv)
    BY <2>3, AddToKeeps DEF TypeOK
  <2> HIDE DEF e, inv
  <2>5. /\ holdings' \in [Accounts -> SUBSET Position]
        /\ \A a \in Accounts : OnePerLot(holdings'[a])
    BY <2>1, <2>3, <2>4 DEF TypeOK
  <2>6. /\ touched' \subseteq Accounts /\ before' \in [Accounts -> SUBSET Position]
        /\ rolled' \subseteq Accounts
    BY <2>1, <2>3 DEF Touch, TypeOK
  <2>7. strayed' \subseteq Accounts \X OptCurrency
    BY <2>1, <2>3 DEF Strays, TypeOK
  <2>8. TypeOK'
    BY <2>1, <2>5, <2>6, <2>7 DEF TypeOK, walkVars, txnVars
  <2>9. Placed'
    BY <2>1 DEF Placed, Active, InPass1, walkVars, txnVars
  <2> QED BY <2>8, <2>9
<1>3. ASSUME Commit PROVE TypeOK' /\ Placed'
  <2>1. Keep(Restrict(postings, Survivors))
        \subseteq [txn : Nat, at : Nat, posting : Posting]
    <3>1. \A k \in DOMAIN Restrict(postings, Survivors) : k \in DOMAIN postings
          /\ Restrict(postings, Survivors)[k] = postings[k]
      BY DEF Restrict, Survivors
    <3>2. i \in Nat /\ postings \in Seq(Posting) /\ DOMAIN postings \subseteq Nat
      BY DEF TypeOK
    <3>3. \A k \in DOMAIN postings : postings[k] \in Posting
      BY <3>2
    <3> QED BY <3>1, <3>2, <3>3 DEF Keep
  <2>2. report' \subseteq Accounts
    BY <1>3 DEF Commit, TypeOK
  <2> QED BY <1>3, <2>1, <2>2 DEF Commit, TypeOK, Phases, Placed, Active, InPass1, txnVars
<1> QED BY <1>1, <1>2, <1>3

LEMMA NextPlaced == TypeOK /\ Placed /\ [Next]_vars => TypeOK' /\ Placed'
BY StutterPlaced, WalkPlaced, Pass1Placed, TakingPlaced, EndTakingPlaced,
   RecordingPlaced, EndReducingPlaced, BeginPass2Placed, Pass2Placed, FinalizePlaced
   DEF Next, Returned

\* Every inventory, posting, entry and finding is well formed at every step of
\* the walk, and an inventory never holds two positions of the same commodity
\* and lot, whatever is booked, consumed and undone.
THEOREM Typing == Spec => []TypeOK
<1> QED BY InitPlaced, NextPlaced, PTL DEF Spec

-----------------------------------------------------------------------------
(* The trace of a transaction: an account that was touched keeps the       *)
(* inventory it had when the transaction began, and an account that was    *)
(* not still has it.                                                       *)

Recorded(a) == IF a \in touched THEN before[a] = start[a]
                               ELSE holdings[a] = start[a]
Traced ==
    /\ phase \in Active => \A a \in Accounts : Recorded(a)
    /\ phase \in {"take", "record"} => job.posting.acct \in touched
    /\ ChangesAreReported

LEMMA SameIsReflexive == \A inv : SameInventory(inv, inv)
BY DEF SameInventory

\* A touch records the account, whatever then becomes of its inventory.
LEMMA TouchRecords ==
    ASSUME TypeOK, NEW a \in Accounts, Touch(a), start' = start,
           \A b \in Accounts : Recorded(b),
           \A b \in Accounts \ {a} : holdings'[b] = holdings[b]
    PROVE  /\ \A b \in Accounts : Recorded(b)'
           /\ a \in touched'
<1>1. before \in [Accounts -> SUBSET Position]
  BY DEF TypeOK
<1> QED BY <1>1 DEF Touch, Recorded

LEMMA TracedByPass1 ==
    TypeOK /\ Placed /\ Traced
    /\ (\E k \in left : SetAside(k) \/ Defer(k) \/ Refuse(k) \/ Augment(k) \/ Reduce(k))
    => Traced'
<1> SUFFICES ASSUME TypeOK, Placed, Traced, NEW k \in left,
                    SetAside(k) \/ Defer(k) \/ Refuse(k) \/ Augment(k) \/ Reduce(k)
             PROVE  Traced'
  OBVIOUS
<1> DEFINE p == ledger[i].postings[k]
<1>1. phase = "pass1" /\ \A a \in Accounts : Recorded(a)
  BY DEF SetAside, Defer, Refuse, Augment, Reduce, Visit, Traced, Active
<1>2. p \in Posting /\ p.acct \in Accounts
  <2>1. ledger[i] \in Transaction /\ k \in DOMAIN ledger[i].postings
    BY <1>1 DEF Placed, Active, InPass1
  <2>2. ledger[i].postings \in Seq(Posting)
    BY <2>1 DEF Transaction
  <2>3. p \in Posting
    BY <2>1, <2>2
  <2> QED BY <2>3 DEF Posting
<1>3. CASE SetAside(k)
  <2>1. /\ UNCHANGED <<holdings, start, touched, before>> /\ phase' = "pass1"
    BY <1>1, <1>3 DEF SetAside, Visit, walkVars, traceVars
  <2> QED BY <1>1, <2>1 DEF Traced, Recorded, ChangesAreReported
<1>4. CASE Defer(k) \/ Refuse(k) \/ Reduce(k)
  <2>1. /\ Touch(p.acct) /\ holdings' = holdings /\ start' = start
        /\ phase' = "pass1" \/ (phase' = "take" /\ job'.posting = p)
    BY <1>1, <1>4 DEF Defer, Refuse, Reduce, StartReducing, RollBack, Visit, walkVars
  <2>2. (\A b \in Accounts : Recorded(b)') /\ p.acct \in touched'
    BY <1>1, <1>2, <2>1, TouchRecords
  <2> QED BY <2>1, <2>2 DEF Traced, ChangesAreReported
<1>5. CASE Augment(k)
  <2>1. /\ Touch(p.acct) /\ start' = start /\ phase' = "pass1"
        /\ \A b \in Accounts \ {p.acct} : holdings'[b] = holdings[b]
    BY <1>1, <1>2, <1>5 DEF Augment, Added, Visit, walkVars, TypeOK
  <2>2. \A b \in Accounts : Recorded(b)'
    BY <1>1, <1>2, <2>1, TouchRecords
  <2> QED BY <2>1, <2>2 DEF Traced, ChangesAreReported
<1> QED BY <1>3, <1>4, <1>5

LEMMA TracedByReducing ==
    TypeOK /\ Placed /\ Traced
    /\ ((phase = "take" /\ \E q \in job.candidates : TakeLot(q))
        \/ EndTaking \/ RecordStep \/ EndReducing)
    => Traced'
<1> SUFFICES ASSUME TypeOK, Placed, Traced,
                    (\E q \in job.candidates : TakeLot(q))
                    \/ EndTaking \/ RecordStep \/ EndReducing
             PROVE  Traced'
  OBVIOUS
<1>1. /\ phase \in {"take", "record"} /\ \A a \in Accounts : Recorded(a)
      /\ job \in Job /\ job.posting.acct \in touched
      /\ job.back \in {"pass1", "bidders", "settle"}
  BY DEF TakeLot, EndTaking, RecordStep, EndReducing, Traced, Active, Placed, JobIsPlaced
<1>2. /\ before \in [Accounts -> SUBSET Position]
      /\ holdings \in [Accounts -> SUBSET Position]
  BY DEF TypeOK
<1>3. CASE (\E q \in job.candidates : TakeLot(q)) \/ EndTaking
  <2>1. /\ UNCHANGED <<start, touched, before>>
        /\ \A b \in Accounts \ {job.posting.acct} : holdings'[b] = holdings[b]
        /\ phase' \in {"take", "record", "error"}
    BY <1>1, <1>2, <1>3 DEF TakeLot, EndTaking, walkVars, traceVars
  <2>2. job'.posting = job.posting
    BY <1>1, <1>3 DEF TakeLot, EndTaking, Job
  <2> QED BY <1>1, <2>1, <2>2 DEF Traced, Recorded, ChangesAreReported, Active
<1>4. CASE RecordStep \/ EndReducing
  <2>1. /\ UNCHANGED <<start, touched, before, holdings>>
        /\ phase' = "record" \/ phase' = job.back
        /\ phase' = "record" => job'.posting = job.posting
    BY <1>1, <1>4 DEF RecordStep, EndReducing, walkVars, traceVars, Job
  <2> QED BY <1>1, <1>4, <2>1 DEF Traced, Recorded, ChangesAreReported, EndReducing,
             Placed, JobIsPlaced
<1> QED BY <1>3, <1>4

LEMMA TracedByPass2 ==
    TypeOK /\ Placed /\ Traced
    /\ (BeginPass2 \/ (\E u \in unknown : FailBidders(u) \/ ResolveBidder(u))
        \/ EndBidders \/ FailFree \/ NoneFree
        \/ \E u \in unknown, c \in loose : ResolveFree(u, c))
    => Traced'
<1> SUFFICES ASSUME TypeOK, Placed, Traced PROVE
       /\ (BeginPass2 \/ (\E u \in unknown : FailBidders(u))
           \/ EndBidders \/ FailFree \/ NoneFree) => Traced'
       /\ (\E u \in unknown : ResolveBidder(u)) => Traced'
       /\ (\E u \in unknown, c \in loose : ResolveFree(u, c)) => Traced'
  OBVIOUS
<1>1. ASSUME BeginPass2 \/ (\E u \in unknown : FailBidders(u))
             \/ EndBidders \/ FailFree \/ NoneFree
      PROVE  Traced'
  <2>1. /\ phase \in Active /\ UNCHANGED <<holdings, start, touched, before>>
        /\ phase' \in {"bidders", "free", "settle"}
    BY <1>1 DEF BeginPass2, FailBidders, EndBidders, FailFree, NoneFree, GiveUp, Active,
                walkVars, traceVars
  <2> QED BY <2>1 DEF Traced, Recorded, ChangesAreReported
<1>2. ASSUME phase \in {"bidders", "free"}, NEW u \in unknown, NEW c \in OptCurrency,
             NEW curs, NEW next \in {"bidders", "settle"}, NEW still,
             Resolve(u, c, curs, next, still)
      PROVE  Traced'
  <2> DEFINE p == Candidate(postings[u.at], c)
  <2>1. postings[u.at] \in Posting /\ Date \in Int /\ \A a \in Accounts : Recorded(a)
    BY <1>2 DEF Placed, TypeOK, Active, Traced, Date, Transaction
  <2>2. p \in Posting /\ p.acct \in Accounts
    <3>1. p \in Posting
      BY <1>2, <2>1, CandidateType DEF TypeOK
    <3> QED BY <3>1 DEF Posting
  <2>3. /\ Touch(p.acct) /\ start' = start
        /\ \A b \in Accounts \ {p.acct} : holdings'[b] = holdings[b]
        /\ phase' = next \/ (phase' = "take" /\ job'.posting = p)
    <3> HIDE DEF p
    <3>1. \/ RollBack(p.acct) /\ phase' = next /\ UNCHANGED <<walkVars, holdings>>
          \/ /\ \E lot : Added(p, lot, u.at, c, TRUE)
             /\ Touch(p.acct) /\ phase' = next /\ UNCHANGED walkVars
          \/ /\ StartReducing(p, u.at, c, TRUE, next)
             /\ UNCHANGED <<walkVars, holdings>>
      BY <1>2 DEF Resolve, p
    <3>2. holdings \in [Accounts -> SUBSET Position]
      BY DEF TypeOK
    <3>3. ASSUME NEW lot, Added(p, lot, u.at, c, TRUE)
          PROVE  \A b \in Accounts \ {p.acct} : holdings'[b] = holdings[b]
      BY <2>2, <3>2, <3>3 DEF Added
    <3>4. \A b \in Accounts \ {p.acct} : holdings'[b] = holdings[b]
      BY <3>1, <3>3
    <3>5. start' = start
      BY <3>1 DEF walkVars
    <3>6. StartReducing(p, u.at, c, TRUE, next)
          => Touch(p.acct) /\ phase' = "take" /\ job'.posting = p
      BY DEF StartReducing
    <3>7. RollBack(p.acct) => Touch(p.acct)
      BY DEF RollBack
    <3> QED BY <3>1, <3>4, <3>5, <3>6, <3>7
  <2>4. (\A b \in Accounts : Recorded(b)') /\ p.acct \in touched'
    BY <2>1, <2>2, <2>3, TouchRecords
  <2> QED BY <1>2, <2>3, <2>4 DEF Traced, ChangesAreReported
<1>3. ASSUME NEW u \in unknown, ResolveBidder(u) PROVE Traced'
  BY <1>2, <1>3 DEF ResolveBidder, TypeOK, Unknown
<1>4. ASSUME NEW u \in unknown, NEW c \in loose, ResolveFree(u, c) PROVE Traced'
  BY <1>2, <1>4 DEF ResolveFree, TypeOK
<1> QED BY <1>1, <1>3, <1>4

LEMMA TracedByFinalizing ==
    TypeOK /\ Placed /\ Traced /\ (Settle \/ (\E j \in left : Undo(j)) \/ Commit)
    => Traced'
<1> SUFFICES ASSUME TypeOK, Placed, Traced,
                    Settle \/ (\E j \in left : Undo(j)) \/ Commit
             PROVE  Traced'
  OBVIOUS
<1>1. phase \in {"settle", "undo"} /\ \A a \in Accounts : Recorded(a)
  BY DEF Settle, Undo, Commit, Traced, Active
<1>2. CASE Settle
  BY <1>1, <1>2 DEF Settle, Traced, Recorded, ChangesAreReported, walkVars, traceVars
<1>3. CASE \E j \in left : Undo(j)
  <2> PICK j \in left : Undo(j)
    BY <1>3
  <2>1. phase = "undo" /\ entries[j] \in Entry
    BY DEF Undo, Placed, TypeOK
  <2>2. entries[j].acct \in Accounts
    BY <2>1 DEF Entry
  <2>3. /\ Touch(entries[j].acct) /\ start' = start /\ phase' = "undo"
        /\ \A b \in Accounts \ {entries[j].acct} : holdings'[b] = holdings[b]
    BY <2>1, <2>2 DEF Undo, RollBack, walkVars, TypeOK
  <2>4. \A b \in Accounts : Recorded(b)'
    BY <1>1, <2>2, <2>3, TouchRecords
  <2> QED BY <2>3, <2>4 DEF Traced, ChangesAreReported
<1>4. CASE Commit
  <2>1. /\ UNCHANGED <<holdings, start, before>> /\ phase' = "walk"
        /\ report' = {a \in touched :
                         ~(a \in rolled /\ SameInventory(holdings[a], before[a]))}
    BY <1>4 DEF Commit
  <2>2. \A a \in Accounts : IF a \in report' THEN before[a] = start[a]
                            ELSE SameInventory(holdings[a], start[a])
    <3> TAKE a \in Accounts
    <3>1. CASE a \in touched
      BY <1>1, <2>1, <3>1 DEF Recorded
    <3>2. CASE a \notin touched
      BY <1>1, <2>1, <3>2, SameIsReflexive DEF Recorded
    <3> QED BY <3>1, <3>2
  <2> QED BY <2>1, <2>2 DEF Traced, ChangesAreReported, Active
<1> QED BY <1>2, <1>3, <1>4

LEMMA TracedBetween ==
    TypeOK /\ Traced
    /\ (PassThrough \/ RejectTransaction \/ BeginTransaction \/ Return \/ UNCHANGED vars)
    => Traced'
<1> SUFFICES ASSUME TypeOK, Traced,
                    PassThrough \/ RejectTransaction \/ BeginTransaction \/ Return
                    \/ UNCHANGED vars
             PROVE  Traced'
  OBVIOUS
<1>1. CASE PassThrough \/ RejectTransaction
  <2>1. phase' = "walk" /\ start' = holdings' /\ report' = {}
    BY <1>1 DEF PassThrough, RejectTransaction
  <2> QED BY <2>1, SameIsReflexive DEF Traced, ChangesAreReported, Active
<1>2. CASE BeginTransaction
  BY <1>2 DEF BeginTransaction, Traced, Recorded, ChangesAreReported
<1>3. CASE Return
  BY <1>3 DEF Return, Traced, ChangesAreReported, Active
<1>4. CASE UNCHANGED vars
  BY <1>4 DEF Traced, Recorded, ChangesAreReported, vars, walkVars, traceVars
<1> QED BY <1>1, <1>2, <1>3, <1>4

\* What the visitor is told is the truth, for every ledger: after each
\* transaction, every account that is not reported holds the positions it had
\* before, and every one that is reported comes with the inventory it had.
THEOREM Reported == Spec => []ChangesAreReported
<1> DEFINE IInv == TypeOK /\ Placed /\ Traced
<1>1. Init => IInv
  BY InitPlaced, SameIsReflexive DEF Init, Traced, ChangesAreReported, Active
<1>2. IInv /\ [Next]_vars => IInv'
  <2> SUFFICES ASSUME IInv, [Next]_vars PROVE IInv'
    OBVIOUS
  <2>1. TypeOK' /\ Placed'
    BY NextPlaced
  <2>2. Traced'
    BY TracedBetween, TracedByPass1, TracedByReducing, TracedByPass2,
       TracedByFinalizing DEF Next, Returned
  <2> QED BY <2>1, <2>2
<1>3. IInv => ChangesAreReported
  BY DEF Traced
<1> QED BY <1>1, <1>2, <1>3, PTL DEF Spec
-----------------------------------------------------------------------------
(* What is settled: a posting that was booked has an amount, and a cost    *)
(* only if it is booked.  A posting that reduced cash keeps its cost, and  *)
(* that is settled because a cost with a number names a currency and cash  *)
(* has none: the currencies are what the invariant follows.                *)

SettledCost(c) == c = None \/ c.booked \/ (SpecIsEmpty(c) /\ c.cur = None)
Settled(p) == ~p.auto /\ SettledCost(p.cost)

\* Only cash has no currency.
OwnLot(lot) == lot.cur = None => lot = Cash

LotsInv ==
    /\ \A a \in Accounts : \A q \in holdings[a] : OwnLot(q.lot)
    /\ \A j \in DOMAIN entries : OwnLot(entries[j].lot)
    /\ weights[None] = 0

PostingsInv ==
    /\ \A k \in DOMAIN postings : /\ postings[k].auto \/ postings[k].com # None
                                  /\ postings[k].auto => Named(postings[k].cost)
    /\ \A j \in DOMAIN entries : /\ entries[j].at \in DOMAIN postings
                                 /\ Settled(postings[entries[j].at])
    /\ \A u, v \in unknown : u.at = v.at => u = v

\* A posting that was booked has an entry.
HasEntry(es, k) == \E j \in DOMAIN es : es[j].at = k

\* A reduction finds a lot, and records what it took.
Fits(p, lot) == OwnLot(lot) /\ Matches(p, lot)
JobInv ==
    /\ ~job.posting.auto /\ Written(job.posting)
    /\ \A q \in job.candidates : Fits(job.posting, q.lot)
    /\ \A n \in DOMAIN job.steps : Fits(job.posting, job.steps[n].lot)
    /\ phase = "take" => job.steps # <<>> \/ (job.wanted # 0 /\ job.candidates # {})
    /\ phase = "record" /\ job.inferred /\ job.steps = <<>> => HasEntry(entries, job.at)
    /\ job.inferred => job.at \notin left

\* An unknown is over when it was booked or its currency group was dropped;
\* until then it waits for its turn, or for the reduction in progress.
Reducing == phase \in {"take", "record"}
Over(u) == HasEntry(entries, u.at) \/ u.cur \in dropped
InJob(u) == Reducing /\ u.at = job.at
InPhase(next) == phase = next \/ (Reducing /\ job.back = next)
UnknownInv ==
    /\ InPhase("bidders") =>
           \A u \in unknown : /\ Over(u) \/ u.cur = None \/ u.at \in left \/ InJob(u)
                              /\ u.at \in left => u.cur # None
    /\ phase = "free" => \A u \in unknown : Over(u) \/ u.cur = None
    /\ InPhase("settle") \/ phase = "undo" => \A u \in unknown : Over(u) \/ InJob(u)
    /\ InPhase("bidders") \/ phase = "free" => None \notin loose

Settling ==
    /\ ledger \in Ledgers
    /\ LotsInv /\ PostingsInv /\ UnknownInv
    /\ Reducing => JobInv
    /\ NothingUnresolved

\* What a written posting weighs, it weighs in a currency.
LEMMA WeighsInCurrency ==
    ASSUME NEW p \in Posting, ~p.auto, Written(p)
    PROVE  Weight(p).cur # None
<1>1. p.com # None /\ (p.cost # None /\ (p.cost.booked \/ HasNumber(p.cost)) => p.cost.cur # None)
  BY DEF Written, Named
<1>2. p.price # None => p.price.cur # None
  BY NoneIsNoValue DEF Posting, Price
<1> QED BY <1>1, <1>2 DEF Weight

\* A written cost that cash matches has no number, date or label.
LEMMA CashMatchesEmpty ==
    ASSUME NEW p \in Posting, Written(p), Matches(p, Cash)
    PROVE  SettledCost(p.cost)
<1> SUFFICES ASSUME p.cost # None, ~p.cost.booked
             PROVE  SpecIsEmpty(p.cost) /\ p.cost.cur = None
  BY DEF SettledCost
<1>1. p.cost.date = None /\ p.cost.label = None
  BY DEF Matches, Cash
<1>2. ~(HasNumber(p.cost) \/ p.cost.cur # None)
  BY DEF Matches, Cash, Written, Named
<1> QED BY <1>1, <1>2 DEF SpecIsEmpty

\* A posting that reduced a lot is settled, and weighs in a currency if it
\* weighs at all.
LEMMA ReducedIsSettled ==
    ASSUME NEW p \in Posting, ~p.auto, Written(p), NEW step \in Step,
           Fits(p, step.lot), NEW many \in BOOLEAN
    PROVE  LET q == Reduced(p, step, many)
           IN  /\ Settled(q) /\ q.com = p.com
               /\ Weight(q).cur = None => Weight(q).num = 0
<1> DEFINE cost == ToCost(step.lot)
           one == [p EXCEPT !.cost = cost]
<1>1. /\ cost.booked /\ ~HasNumber(cost) /\ cost.cur = step.lot.cur
      /\ cost.num = step.lot.num /\ cost # None
  BY ToCostType DEF ToCost, Step, HasNumber
<1>2. cost.cur = None => cost.num = 0
  BY <1>1 DEF Fits, OwnLot, Cash
<1>3. ASSUME NEW q, q.cost = cost, ~q.auto, q.units \in Int
      PROVE  Settled(q) /\ (Weight(q).cur = None => Weight(q).num = 0)
  <2> HIDE DEF cost
  <2>1. Settled(q)
    BY <1>1, <1>3 DEF Settled, SettledCost
  <2>2. Weight(q) = [cur |-> cost.cur, num |-> q.units * cost.num]
    BY <1>1, <1>3 DEF Weight
  <2>3. q.units * 0 = 0
    BY <1>3
  <2> QED BY <1>2, <2>1, <2>2, <2>3
<1> HIDE DEF cost
<1>4. CASE many
  <2>1. /\ Child(p, step).cost = cost /\ ~Child(p, step).auto
        /\ Child(p, step).com = p.com /\ Child(p, step).units \in Int
    BY DEF Child, Posting, Step, cost
  <2>2. Reduced(p, step, many) = Child(p, step)
    BY <1>4 DEF Reduced
  <2> QED BY <1>3, <2>1, <2>2
<1>5. CASE ~many /\ (step.lot = Cash \/ (p.cost # None /\ p.cost.booked))
  <2>1. Reduced(p, step, many) = p
    BY <1>5 DEF Reduced
  <2>2. Settled(p)
    BY <1>5, CashMatchesEmpty DEF Settled, SettledCost, Fits
  <2> QED BY <2>1, <2>2, WeighsInCurrency
<1>6. CASE ~many /\ ~(step.lot = Cash \/ (p.cost # None /\ p.cost.booked))
  <2>1. Reduced(p, step, many) = one
    BY <1>6 DEF Reduced, cost
  <2>2. one.cost = cost /\ ~one.auto /\ one.com = p.com /\ one.units \in Int
    BY DEF Posting
  <2> QED BY <1>3, <2>1, <2>2
<1> QED BY <1>4, <1>5, <1>6

\* A posting that augments is settled, and makes a lot with a currency.
LEMMA AugmentedIsSettled ==
    ASSUME NEW p \in Posting, ~p.auto, Written(p), NEW date \in Int,
           LotFinding(p.cost, p.units) = None
    PROVE  LET lot == ResolveLot(p.cost, p.units, date)
               q == [p EXCEPT !.cost = AugmentCostFor(@, lot)]
           IN  OwnLot(lot) /\ Settled(q) /\ q.com = p.com /\ Weight(q).cur # None
<1> DEFINE lot == ResolveLot(p.cost, p.units, date)
           q == [p EXCEPT !.cost = AugmentCostFor(@, lot)]
<1>1. CASE p.cost = None
  <2>1. lot = Cash /\ q = p
    BY <1>1 DEF ResolveLot, AugmentCostFor, Posting
  <2> QED BY <1>1, <2>1, WeighsInCurrency DEF OwnLot, Settled, SettledCost
<1>2. ASSUME p.cost # None
      PROVE  OwnLot(lot) /\ Settled(q) /\ q.com = p.com /\ Weight(q).cur # None
  <2>1. p.cost \in Cost
    BY <1>2 DEF Posting
  <2>2. p.cost.booked \/ HasNumber(p.cost)
    BY <1>2, NoneIsNoValue DEF LotFinding, Codes
  <2>3. p.cost.cur # None /\ lot.cur = p.cost.cur /\ lot \in Lot
    BY <1>2, <2>1, <2>2, ResolveLotType DEF Written, Named, ResolveLot, Posting
  <2> HIDE DEF lot
  <2>4. CASE p.cost.booked
    <3>1. q = p
      BY <2>4 DEF AugmentCostFor, Posting
    <3> QED BY <2>3, <2>4, <3>1, WeighsInCurrency DEF OwnLot, Settled, SettledCost
  <2>5. CASE ~p.cost.booked
    <3> DEFINE cost == [ToCost(lot) EXCEPT !.per = p.cost.per, !.total = p.cost.total]
    <3>1. q = [p EXCEPT !.cost = cost]
      BY <1>2, <2>5 DEF AugmentCostFor, Posting
    <3>2. cost.booked /\ cost.cur = p.cost.cur /\ cost \in Cost
      BY <2>1, <2>3, ToCostType DEF ToCost, Cost
    <3> HIDE DEF cost
    <3>3. q \in Posting /\ q.cost = cost /\ q.com = p.com /\ q.auto = p.auto
      BY <3>1, <3>2 DEF Posting
    <3>4. Written(q)
      BY <2>3, <3>2, <3>3 DEF Written, Named
    <3> HIDE DEF q
    <3> QED BY <2>3, <3>2, <3>3, <3>4, WeighsInCurrency DEF OwnLot, Settled, SettledCost
  <2> QED BY <2>4, <2>5
<1> QED BY <1>1, <1>2

\* What pass 2 puts in the place of an unknown is written.
LEMMA CandidateIsWritten ==
    ASSUME NEW p \in Posting, p.auto \/ p.com # None, p.auto => Named(p.cost),
           NEW c \in OptCurrency, c # None
    PROVE  ~Candidate(p, c).auto /\ Written(Candidate(p, c))
<1>1. CASE p.auto
  BY <1>1 DEF Candidate, Written, Posting
<1>2. CASE ~p.auto
  <2>1. /\ Candidate(p, c).cost = ResidualCost(p.cost, c, -weights[c])
        /\ Candidate(p, c).com = p.com /\ ~Candidate(p, c).auto
    BY <1>2 DEF Candidate, Posting
  <2>2. ResidualCost(p.cost, c, -weights[c]).cur = c
    BY DEF ResidualCost
  <2> QED BY <1>2, <2>1, <2>2 DEF Written, Named
<1> QED BY <1>1, <1>2

\* Only the end of a transaction adds to what was booked.
LEMMA SameOut ==
    ASSUME NothingUnresolved, phase # "error", UNCHANGED <<ledger, out>>
    PROVE  NothingUnresolved'
BY DEF NothingUnresolved

\* Postings grow at the end.
LEMMA AppendsPosting ==
    ASSUME TypeOK, Placed, PostingsInv, NEW p \in Posting,
           p.auto \/ p.com # None, p.auto => Named(p.cost),
           postings' = Append(postings, p), entries' = entries
    PROVE  /\ \A k \in DOMAIN postings' :
                 /\ postings'[k].auto \/ postings'[k].com # None
                 /\ postings'[k].auto => Named(postings'[k].cost)
           /\ \A j \in DOMAIN entries' : /\ entries'[j].at \in DOMAIN postings'
                                         /\ Settled(postings'[entries'[j].at])
<1>1. postings \in Seq(Posting)
  BY DEF TypeOK
<1>2. /\ DOMAIN postings = 1..Len(postings) /\ Len(postings) \in Nat
      /\ DOMAIN postings' = 1..(Len(postings) + 1)
      /\ postings'[Len(postings) + 1] = p
      /\ \A k \in DOMAIN postings : postings'[k] = postings[k] /\ k \in DOMAIN postings'
  BY <1>1
<1>3. \A k \in DOMAIN postings' : k \in DOMAIN postings \/ k = Len(postings) + 1
  BY <1>2
<1> QED BY <1>2, <1>3 DEF PostingsInv

\* The same, with the entry that was booked for it or for an unknown.
LEMMA SettlesPosting ==
    ASSUME TypeOK, Placed, PostingsInv, NEW p \in Posting, Settled(p), p.com # None,
           NEW e, entries' = Append(entries, e),
           \/ postings' = Append(postings, p) /\ e.at = Len(postings) + 1
           \/ e.at \in DOMAIN postings /\ postings' = [postings EXCEPT ![e.at] = p]
    PROVE  /\ \A k \in DOMAIN postings' :
                 /\ postings'[k].auto \/ postings'[k].com # None
                 /\ postings'[k].auto => Named(postings'[k].cost)
           /\ \A j \in DOMAIN entries' : /\ entries'[j].at \in DOMAIN postings'
                                         /\ Settled(postings'[entries'[j].at])
           /\ \A k \in DOMAIN postings : k # e.at => postings'[k] = postings[k]
           /\ HasEntry(entries', e.at)
           /\ \A k : k # e.at => (HasEntry(entries', k) <=> HasEntry(entries, k))
<1>1. postings \in Seq(Posting) /\ entries \in Seq(Entry)
  BY DEF TypeOK
<1>2. /\ DOMAIN postings \subseteq DOMAIN postings'
      /\ e.at \in DOMAIN postings' /\ postings'[e.at] = p
      /\ \A k \in DOMAIN postings : k # e.at => postings'[k] = postings[k]
      /\ \A k \in DOMAIN postings' : k \in DOMAIN postings \/ k = e.at
  <2>1. CASE postings' = Append(postings, p) /\ e.at = Len(postings) + 1
    <3>1. /\ DOMAIN postings = 1..Len(postings) /\ Len(postings) \in Nat
          /\ DOMAIN postings' = 1..(Len(postings) + 1)
          /\ postings'[Len(postings) + 1] = p
          /\ \A k \in DOMAIN postings : postings'[k] = postings[k]
      BY <1>1, <2>1
    <3> QED BY <2>1, <3>1
  <2>2. CASE e.at \in DOMAIN postings /\ postings' = [postings EXCEPT ![e.at] = p]
    BY <1>1, <2>2
  <2> QED BY <2>1, <2>2
<1>3. \A k \in DOMAIN postings' : /\ postings'[k].auto \/ postings'[k].com # None
                                  /\ postings'[k].auto => Named(postings'[k].cost)
  BY <1>2 DEF PostingsInv, Settled
<1>4. \A j \in DOMAIN entries' :
         (j \in DOMAIN entries /\ entries'[j] = entries[j]) \/ entries'[j] = e
  BY <1>1
<1>5. \A j \in DOMAIN entries' : /\ entries'[j].at \in DOMAIN postings'
                                 /\ Settled(postings'[entries'[j].at])
  BY <1>2, <1>4 DEF PostingsInv
<1>6. /\ \A j \in DOMAIN entries : j \in DOMAIN entries' /\ entries'[j] = entries[j]
      /\ \E j \in DOMAIN entries' : entries'[j] = e
  <2>1. /\ Len(entries) + 1 \in DOMAIN entries' /\ entries'[Len(entries) + 1] = e
        /\ \A j \in DOMAIN entries : j \in DOMAIN entries' /\ entries'[j] = entries[j]
    BY <1>1
  <2> QED BY <2>1
<1>7. /\ HasEntry(entries', e.at)
      /\ \A k : k # e.at => (HasEntry(entries', k) <=> HasEntry(entries, k))
  BY <1>4, <1>6 DEF HasEntry
<1> QED BY <1>2, <1>3, <1>5, <1>7

\* A lot added to an inventory has a currency, as those that are there.
LEMMA AddToOwns ==
    ASSUME NEW inv, NEW com, NEW lot, NEW units, NEW ord, OwnLot(lot),
           \A q \in inv : OwnLot(q.lot)
    PROVE  \A q \in AddTo(inv, com, lot, units, ord) : OwnLot(q.lot)
<1> DEFINE new == [com |-> com, lot |-> lot, units |-> units, ord |-> ord]
<1>1. new.lot = lot
  OBVIOUS
<1>2. ASSUME NEW q \in AddTo(inv, com, lot, units, ord)
      PROVE  q \in inv \/ q = new \/ \E r \in inv : q = [r EXCEPT !.units = @ + units]
  BY DEF AddTo
<1>3. ASSUME NEW r \in inv
      PROVE  OwnLot([r EXCEPT !.units = @ + units].lot)
  <2>1. [r EXCEPT !.units = @ + units].lot = r.lot
    OBVIOUS
  <2> QED BY <2>1
<1> HIDE DEF new
<1> QED BY <1>1, <1>2, <1>3

LEMMA AddedOwns ==
    ASSUME TypeOK, LotsInv, NEW p \in Posting, NEW lot, OwnLot(lot), NEW at, NEW group,
           NEW inferred, Added(p, lot, at, group, inferred)
    PROVE  /\ \A a \in Accounts : \A q \in holdings'[a] : OwnLot(q.lot)
           /\ \A j \in DOMAIN entries' : OwnLot(entries'[j].lot)
<1>1. /\ holdings \in [Accounts -> SUBSET Position] /\ p.acct \in Accounts
      /\ entries \in Seq(Entry)
  BY DEF TypeOK, Posting
<1> DEFINE inv == AddTo(holdings[p.acct], p.com, lot, p.units, clock)
<1>2. \A q \in inv : OwnLot(q.lot)
  BY <1>1, AddToOwns DEF LotsInv
<1>3. holdings' = [holdings EXCEPT ![p.acct] = inv]
  BY DEF Added
<1>4. PICK e : entries' = Append(entries, e) /\ e.lot = lot
  BY DEF Added
<1> HIDE DEF inv
<1>5. \A a \in Accounts : \A q \in holdings'[a] : OwnLot(q.lot)
  BY <1>1, <1>2, <1>3 DEF LotsInv
<1>6. \A j \in DOMAIN entries' :
         (j \in DOMAIN entries /\ entries'[j] = entries[j]) \/ entries'[j] = e
  BY <1>1, <1>4
<1> QED BY <1>4, <1>5, <1>6 DEF LotsInv

\* A reduction begins with a lot to consume.
LEMMA StartsReducing ==
    ASSUME TypeOK, LotsInv, NEW p \in Posting, ~p.auto, Written(p),
           Refusal(p) = None, DoesReduce(p), NEW at, NEW group, NEW back,
           NEW inferred \in BOOLEAN, StartReducing(p, at, group, inferred, back),
           inferred => at \notin left'
    PROVE  JobInv' /\ Reducing' /\ job'.back = back /\ job'.at = at
<1>1. /\ job' = [posting |-> p, at |-> at, inferred |-> inferred, group |-> group,
                 candidates |-> Candidates(holdings[p.acct], p),
                 wanted |-> Size(p.units), steps |-> <<>>, many |-> FALSE,
                 back |-> back]
      /\ phase' = "take"
  BY DEF StartReducing
<1>2. \A q \in Candidates(holdings[p.acct], p) : Fits(p, q.lot)
  BY DEF Candidates, Fits, LotsInv, Posting
<1>3. Candidates(holdings[p.acct], p) # {}
  <2>1. ReduceFinding(holdings[p.acct], p, booking[p.acct]) = None
    BY DEF Refusal
  <2> QED BY <2>1, NoneIsNoValue DEF ReduceFinding, Codes
<1>4. Size(p.units) # 0
  <2>1. p.units \in Int /\ p.units # 0
    BY DEF Posting, DoesReduce, Reduces
  <2> QED BY <2>1 DEF Size
<1>5. DOMAIN <<>> = {}
  OBVIOUS
<1> QED BY <1>1, <1>2, <1>3, <1>4, <1>5 DEF JobInv, Reducing

LEMMA SettlingPass1 ==
    ASSUME TypeOK, Placed, Settling, NEW k \in left,
           SetAside(k) \/ Defer(k) \/ Refuse(k) \/ Augment(k) \/ Reduce(k)
    PROVE  Settling'
<1> DEFINE p == ledger[i].postings[k]
<1>1. /\ phase = "pass1" /\ i \in DOMAIN ledger /\ ledger[i] \in Transaction
      /\ k \in DOMAIN ledger[i].postings /\ UNCHANGED walkVars
  BY DEF SetAside, Defer, Refuse, Augment, Reduce, Visit, Placed, Active, InPass1
<1>2. p \in Posting /\ Date \in Int /\ Written(p)
  <2>1. ledger[i].postings \in Seq(Posting) /\ ledger[i].date \in Int
        /\ ledger[i].kind = "txn"
    BY <1>1 DEF Transaction
  <2>2. p \in Posting /\ Date \in Int
    BY <1>1, <2>1 DEF Date
  <2> QED BY <1>1, <2>1, <2>2, AmountsAreNamed DEF Settling
<1>3. ledger' \in Ledgers /\ NothingUnresolved'
  BY <1>1, SameOut DEF Settling, walkVars
<1> HIDE DEF p
<1>4. phase' = "pass1" => UnknownInv' /\ ~Reducing'
  BY DEF UnknownInv, InPhase, Reducing
<1>5. CASE SetAside(k) \/ Defer(k)
  <2>1. /\ Set(p) /\ phase' = "pass1" /\ UNCHANGED <<holdings, entries, weights>>
    BY <1>1, <1>5 DEF SetAside, Defer, p
  <2>2. /\ postings' = Append(postings, p)
        /\ unknown' = unknown \cup {[at |-> Len(postings) + 1,
                                     cur |-> CandidateCurrency(p)]}
    BY <2>1 DEF Set
  <2>3. \A u \in unknown : u.at # Len(postings) + 1
    <3>1. postings \in Seq(Posting)
      BY DEF TypeOK
    <3> QED BY <3>1 DEF Placed
  <2>4. \A u, v \in unknown' : u.at = v.at => u = v
    BY <2>2, <2>3 DEF Settling, PostingsInv
  <2>5. PostingsInv'
    BY <1>2, <2>1, <2>2, <2>4, AppendsPosting DEF Settling, PostingsInv, Written
  <2>6. LotsInv'
    BY <2>1 DEF LotsInv, Settling
  <2> QED BY <1>3, <1>4, <2>1, <2>5, <2>6 DEF Settling
<1>6. CASE Refuse(k)
  <2>1. phase' = "pass1" /\ UNCHANGED <<holdings, postings, entries, unknown, weights>>
    BY <1>1, <1>6 DEF Refuse
  <2> QED BY <1>3, <1>4, <2>1 DEF Settling, LotsInv, PostingsInv
<1>7. CASE Augment(k)
  <2> DEFINE lot == ResolveLot(p.cost, p.units, Date)
             booked == [p EXCEPT !.cost = AugmentCostFor(@, lot)]
             group == IF p.cost = None THEN CashKey(p) ELSE p.cost.cur
  <2>1. /\ ~p.auto /\ Refusal(p) = None /\ ~DoesReduce(p)
        /\ Added(p, lot, Len(postings) + 1, group, FALSE)
        /\ postings' = Append(postings, booked) /\ Weigh(booked)
        /\ phase' = "pass1" /\ unknown' = unknown
    BY <1>1, <1>7 DEF Augment, p
  <2>2. LotFinding(p.cost, p.units) = None
    BY <2>1 DEF Refusal
  <2>3. /\ OwnLot(lot) /\ Settled(booked) /\ booked.com = p.com
        /\ Weight(booked).cur # None
    BY <1>2, <2>1, <2>2, AugmentedIsSettled
  <2>4. booked \in Posting
    BY <1>2, <2>1, AugmentsWell
  <2>5. PICK e : entries' = Append(entries, e) /\ e.at = Len(postings) + 1
    BY <2>1 DEF Added
  <2> HIDE DEF lot, booked, group
  <2>6. PostingsInv'
    BY <1>2, <2>1, <2>3, <2>4, <2>5, SettlesPosting DEF Settling, PostingsInv, Written
  <2>7. weights'[None] = 0
    BY <2>1, <2>3 DEF Weigh, Settling, LotsInv, TypeOK, OptCurrency
  <2>8. LotsInv'
    BY <1>2, <2>1, <2>3, <2>7, AddedOwns DEF Settling, LotsInv
  <2> QED BY <1>3, <1>4, <2>1, <2>6, <2>8 DEF Settling
<1>8. CASE Reduce(k)
  <2>1. /\ ~p.auto /\ Refusal(p) = None /\ DoesReduce(p)
        /\ StartReducing(p, Len(postings) + 1, None, FALSE, "pass1")
        /\ UNCHANGED <<holdings, postings, entries, unknown, weights>>
    BY <1>8 DEF Reduce, txnVars, p
  <2>2. JobInv' /\ Reducing' /\ job'.back = "pass1"
    BY <1>2, <2>1, StartsReducing DEF Settling
  <2>3. phase' = "take"
    BY <2>1 DEF StartReducing
  <2>4. UnknownInv'
    BY <2>2, <2>3 DEF UnknownInv, InPhase
  <2> QED BY <1>3, <2>1, <2>2, <2>4 DEF Settling, LotsInv, PostingsInv
<1> QED BY <1>5, <1>6, <1>7, <1>8

LEMMA SettlingTake ==
    ASSUME TypeOK, Placed, Settling, phase = "take", NEW q \in job.candidates, TakeLot(q)
    PROVE  Settling'
<1> DEFINE a == job.posting.acct
           take == IF job.wanted >= Size(q.units) THEN Size(q.units) ELSE job.wanted
           rest == [q EXCEPT !.units = IF @ >= 0 THEN @ - take ELSE @ + take]
           step == [lot |-> q.lot, units |-> take]
<1>1. /\ holdings' = [holdings EXCEPT ![a] = (@ \ {q}) \cup {rest}]
      /\ job' = [job EXCEPT !.candidates = @ \ {q}, !.wanted = @ - take,
                            !.steps = Append(@, step)]
      /\ UNCHANGED <<walkVars, phase, left, txnVars>>
  BY DEF TakeLot
<1>2. /\ JobInv /\ job \in Job /\ a \in Accounts
      /\ job.steps \in Seq(Step) /\ Reducing
  BY DEF Settling, Reducing, Placed, JobIsPlaced, Job, Posting
<1>3. Fits(job.posting, q.lot) /\ rest.lot = q.lot /\ step.lot = q.lot
  BY <1>2 DEF JobInv
<1> HIDE DEF take, rest, step
<1>4. /\ job'.posting = job.posting /\ job'.candidates = job.candidates \ {q}
      /\ job'.at = job.at /\ job'.back = job.back /\ job'.inferred = job.inferred
      /\ job'.steps = Append(job.steps, step)
  BY <1>1, <1>2 DEF Job
<1>5. /\ job'.steps # <<>>
      /\ \A n \in DOMAIN job'.steps :
            job'.steps[n] = step \/ (n \in DOMAIN job.steps /\ job'.steps[n] = job.steps[n])
  <2> HIDE DEF a
  <2>1. \A s \in Seq(Step) : /\ Append(s, step) # <<>>
                             /\ \A n \in DOMAIN Append(s, step) :
                                   \/ Append(s, step)[n] = step
                                   \/ n \in DOMAIN s /\ Append(s, step)[n] = s[n]
    OBVIOUS
  <2> QED BY <1>2, <1>4, <2>1
<1>6. JobInv' /\ Reducing'
  BY <1>1, <1>2, <1>3, <1>4, <1>5 DEF JobInv, Reducing
<1>7. LotsInv'
  <2>1. \A b \in Accounts : \A r \in holdings'[b] : r = rest \/ r \in holdings[b]
    BY <1>1, <1>2 DEF TypeOK
  <2>2. OwnLot(rest.lot)
    BY <1>3 DEF Fits
  <2> HIDE DEF a
  <2> QED BY <1>1, <2>1, <2>2 DEF Settling, LotsInv, txnVars
<1>8. UnknownInv' /\ PostingsInv'
  BY <1>1, <1>2, <1>4 DEF Settling, UnknownInv, InPhase, InJob, Reducing, Over, HasEntry,
                          PostingsInv, txnVars
<1>9. NothingUnresolved' /\ ledger' \in Ledgers
  BY <1>1, SameOut DEF Settling, walkVars
<1> QED BY <1>6, <1>7, <1>8, <1>9 DEF Settling

LEMMA SettlingEndTaking == TypeOK /\ Placed /\ Settling /\ EndTaking => Settling'
<1> SUFFICES ASSUME TypeOK, Placed, Settling, EndTaking PROVE Settling'
  OBVIOUS
<1> DEFINE several == Len(job.steps) > 1
           full == {q \in holdings[job.posting.acct] : q.units # 0}
<1>1. /\ phase = "take" /\ (job.wanted = 0 \/ job.candidates = {})
      /\ holdings' = [holdings EXCEPT ![job.posting.acct] = full]
      /\ job' = [job EXCEPT !.many = several]
      /\ phase' = "error" \/ (phase' = "record" /\ out' = out)
      /\ UNCHANGED <<ledger, left, txnVars>>
  BY DEF EndTaking
<1>2. JobInv /\ job \in Job /\ Reducing /\ job.posting.acct \in Accounts
  BY <1>1 DEF Settling, Reducing, Placed, JobIsPlaced, Job, Posting
<1>3. LotsInv'
  <2>1. \A b \in Accounts : holdings'[b] \subseteq holdings[b]
    BY <1>1, <1>2 DEF TypeOK
  <2> QED BY <1>1, <2>1 DEF Settling, LotsInv, txnVars
<1>4. PostingsInv' /\ ledger' \in Ledgers
  BY <1>1 DEF Settling, PostingsInv, txnVars
<1> HIDE DEF several, full
<1>5. /\ job'.posting = job.posting /\ job'.candidates = job.candidates
      /\ job'.at = job.at /\ job'.back = job.back /\ job'.inferred = job.inferred
      /\ job'.steps = job.steps
  BY <1>1, <1>2 DEF Job
<1>6. CASE phase' = "error"
  BY <1>3, <1>4, <1>6 DEF Settling, NothingUnresolved, UnknownInv, InPhase, Reducing
<1>7. CASE phase' = "record" /\ out' = out
  <2>1. JobInv'
    BY <1>1, <1>2, <1>5, <1>7 DEF JobInv, HasEntry, txnVars
  <2>2. UnknownInv'
    BY <1>1, <1>2, <1>5, <1>7 DEF Settling, UnknownInv, InPhase, InJob, Reducing, Over,
                                  HasEntry, txnVars
  <2>3. NothingUnresolved'
    BY <1>1, <1>7, SameOut DEF Settling
  <2> QED BY <1>3, <1>4, <1>7, <2>1, <2>2, <2>3 DEF Settling
<1> QED BY <1>1, <1>6, <1>7

LEMMA SettlingRecord == TypeOK /\ Placed /\ Settling /\ RecordStep => Settling'
<1> SUFFICES ASSUME TypeOK, Placed, Settling, RecordStep PROVE Settling'
  OBVIOUS
<1> DEFINE p == job.posting
           step == Head(job.steps)
           q == Reduced(p, step, job.many)
           at == IF job.inferred THEN job.at ELSE Len(postings) + 1
<1>1. /\ phase = "record" /\ job.steps # <<>>
      /\ \E e : entries' = Append(entries, e) /\ e.at = at /\ e.lot = step.lot
      /\ postings' = IF job.inferred THEN [postings EXCEPT ![at] = q]
                                     ELSE Append(postings, q)
      /\ IF job.inferred THEN UNCHANGED weights ELSE Weigh(q)
      /\ unknown' = IF job.inferred
                    THEN {[u EXCEPT !.cur = IF u.at = at THEN job.group ELSE @] :
                             u \in unknown}
                    ELSE unknown
      /\ job' = [job EXCEPT !.steps = Tail(@)]
      /\ UNCHANGED <<walkVars, holdings, phase, left, dropped, loose>>
  BY DEF RecordStep
<1>2. /\ JobInv /\ JobIsPlaced /\ job \in Job /\ p \in Posting /\ p.units # 0
      /\ job.steps \in Seq(Step) /\ job.many \in BOOLEAN /\ Reducing
      /\ job.inferred => job.at \in DOMAIN postings
      /\ job.inferred \in BOOLEAN
  BY <1>1 DEF Settling, Reducing, Placed, JobIsPlaced, Job
<1>3. /\ step \in Step /\ Fits(p, step.lot)
      /\ \A n \in DOMAIN Tail(job.steps) : Fits(p, Tail(job.steps)[n].lot)
  <2>1. /\ step = job.steps[1] /\ 1 \in DOMAIN job.steps
        /\ \A n \in DOMAIN Tail(job.steps) : /\ n + 1 \in DOMAIN job.steps
                                             /\ Tail(job.steps)[n] = job.steps[n + 1]
    BY <1>1, <1>2
  <2>2. step \in Step
    BY <1>2, <2>1
  <2> QED BY <1>2, <2>1, <2>2 DEF JobInv
<1>4. Settled(q) /\ q.com = p.com /\ (Weight(q).cur = None => Weight(q).num = 0)
  BY <1>2, <1>3, ReducedIsSettled DEF JobInv
<1>5. q \in Posting
  BY <1>2, <1>3, ReducedType
<1>6. p.com # None
  BY <1>2 DEF JobInv, Written
<1>7. PICK e : entries' = Append(entries, e) /\ e.at = at /\ e.lot = step.lot
  BY <1>1
<1>8. \/ postings' = Append(postings, q) /\ e.at = Len(postings) + 1
      \/ e.at \in DOMAIN postings /\ postings' = [postings EXCEPT ![e.at] = q]
  BY <1>1, <1>2, <1>7
<1>9. job.inferred => at = job.at
  OBVIOUS
<1>10. /\ job'.posting = p /\ job'.candidates = job.candidates
       /\ job'.at = job.at /\ job'.back = job.back /\ job'.inferred = job.inferred
       /\ job'.steps = Tail(job.steps)
  BY <1>1, <1>2 DEF Job
<1>11. ~job.inferred => at \notin DOMAIN postings
  <2>1. postings \in Seq(Posting)
    BY DEF TypeOK
  <2> QED BY <2>1
<1> HIDE DEF q, at, step
<1>12. /\ \A k \in DOMAIN postings' : /\ postings'[k].auto \/ postings'[k].com # None
                                      /\ postings'[k].auto => Named(postings'[k].cost)
       /\ \A j \in DOMAIN entries' : /\ entries'[j].at \in DOMAIN postings'
                                     /\ Settled(postings'[entries'[j].at])
       /\ \A k \in DOMAIN postings : k # at => postings'[k] = postings[k]
       /\ HasEntry(entries', at)
       /\ \A k : k # at => (HasEntry(entries', k) <=> HasEntry(entries, k))
  BY <1>4, <1>5, <1>6, <1>7, <1>8, SettlesPosting DEF Settling
<1> HIDE DEF p
\* The unknowns stay where they are.
<1>13. \A v \in unknown' : \E u \in unknown :
          /\ v.at = u.at /\ (u.at # at => v = u) /\ (v = u \/ job.inferred)
          /\ u \in Unknown
  <2>1. \A u \in unknown : u \in Unknown
    BY DEF TypeOK
  <2>2. ASSUME job.inferred, NEW v \in unknown'
        PROVE  \E u \in unknown : /\ v.at = u.at /\ (u.at # at => v = u)
                                  /\ u \in Unknown
    <3>1. PICK u \in unknown : v = [u EXCEPT !.cur = IF u.at = at THEN job.group ELSE @]
      BY <1>1, <2>2
    <3>2. u \in Unknown
      BY <2>1
    <3>3. v.at = u.at /\ (u.at # at => v = u)
      BY <3>1, <3>2 DEF Unknown
    <3> QED BY <3>2, <3>3
  <2>3. ~job.inferred => unknown' = unknown
    BY <1>1
  <2> QED BY <2>1, <2>2, <2>3
<1>14. \A u, v \in unknown' : u.at = v.at => u = v
  <2>1. CASE ~job.inferred
    BY <1>1, <2>1 DEF Settling, PostingsInv
  <2>2. CASE job.inferred
    <3>1. unknown' = {[u EXCEPT !.cur = IF u.at = at THEN job.group ELSE @] : u \in unknown}
      BY <1>1, <2>2
    <3>2. ASSUME NEW u \in unknown
          PROVE  [u EXCEPT !.cur = IF u.at = at THEN job.group ELSE @].at = u.at
      BY DEF TypeOK, Unknown
    <3> SUFFICES ASSUME NEW v \in unknown', NEW w \in unknown', v.at = w.at
                 PROVE  v = w
      OBVIOUS
    <3>3. PICK u \in unknown : v = [u EXCEPT !.cur = IF u.at = at THEN job.group ELSE @]
      BY <3>1
    <3>4. PICK x \in unknown : w = [x EXCEPT !.cur = IF x.at = at THEN job.group ELSE @]
      BY <3>1
    <3>5. u.at = x.at
      BY <3>2, <3>3, <3>4
    <3>6. u = x
      BY <3>5 DEF Settling, PostingsInv
    <3> QED BY <3>3, <3>4, <3>6
  <2> QED BY <1>2, <2>1, <2>2
<1>15. PostingsInv'
  BY <1>12, <1>14 DEF PostingsInv
<1>16. LotsInv'
  <2>1. entries \in Seq(Entry) /\ weights \in [OptCurrency -> Int] /\ None \in OptCurrency
    BY DEF TypeOK, OptCurrency
  <2>2. \A j \in DOMAIN entries' :
           (j \in DOMAIN entries /\ entries'[j] = entries[j]) \/ entries'[j] = e
    BY <1>7, <2>1
  <2>3. OwnLot(e.lot)
    BY <1>3, <1>7 DEF Fits
  <2>4. weights'[None] = 0
    <3>1. weights[None] = 0
      BY DEF Settling, LotsInv
    <3>2. CASE ~job.inferred
      <4>1. weights' = [weights EXCEPT ![Weight(q).cur] = @ + Weight(q).num]
        BY <1>1, <3>2 DEF Weigh
      <4> QED BY <1>4, <2>1, <3>1, <4>1
    <3> QED BY <1>1, <1>2, <3>1, <3>2
  <2> QED BY <1>1, <2>2, <2>3, <2>4 DEF Settling, LotsInv
<1>17. JobInv' /\ Reducing'
  <2>1. job.inferred => HasEntry(entries', job.at)
    BY <1>9, <1>12
  <2> QED BY <1>1, <1>2, <1>3, <1>10, <2>1 DEF JobInv, Reducing, p
<1>18. UnknownInv'
  <2>1. job.back # "pass1" <=> job.inferred
    BY <1>2 DEF JobIsPlaced
  <2>2. CASE ~job.inferred
    BY <1>1, <1>10, <2>1, <2>2 DEF UnknownInv, InPhase, Reducing
  <2>3. CASE job.inferred
    <3>1. ASSUME NEW v \in unknown', v.at # at
          PROVE  /\ v \in unknown /\ postings'[v.at] = postings[v.at]
                 /\ v.at # job.at
      <4>1. v \in unknown
        BY <1>13, <3>1
      <4>2. v.at \in DOMAIN postings
        BY <4>1 DEF Placed
      <4> QED BY <1>9, <1>12, <2>3, <3>1, <4>1, <4>2
    <3>2. ASSUME NEW v \in unknown', v.at = at
          PROVE  Over(v)' /\ InJob(v)' /\ v.at \notin left'
      <4>1. v.at = job.at /\ job'.at = job.at /\ job'.inferred
        BY <1>2, <1>9, <1>10, <2>3, <3>2
      <4>2. HasEntry(entries', v.at)
        BY <1>12, <3>2
      <4>3. v.at \notin left'
        BY <1>17, <4>1 DEF JobInv
      <4> QED BY <1>17, <4>1, <4>2, <4>3 DEF Over, InJob
    <3>3. ASSUME NEW v \in unknown', v.at # at
          PROVE  /\ Over(v)' <=> Over(v)
                 /\ ~InJob(v)
      <4>1. HasEntry(entries', v.at) <=> HasEntry(entries, v.at)
        BY <1>12, <3>3
      <4>2. dropped' = dropped
        BY <1>1
      <4> QED BY <3>1, <3>3, <4>1, <4>2 DEF Over, InJob
    <3> QED BY <1>1, <1>2, <1>10, <3>1, <3>2, <3>3
            DEF Settling, UnknownInv, InPhase, Reducing
  <2> QED BY <1>2, <2>2, <2>3
<1>19. NothingUnresolved' /\ ledger' \in Ledgers
  BY <1>1, SameOut DEF Settling, walkVars
<1> QED BY <1>15, <1>16, <1>17, <1>18, <1>19 DEF Settling

LEMMA SettlingEndReducing == TypeOK /\ Placed /\ Settling /\ EndReducing => Settling'
<1> SUFFICES ASSUME TypeOK, Placed, Settling, EndReducing PROVE Settling'
  OBVIOUS
<1>1. /\ phase = "record" /\ job.steps = <<>> /\ phase' = job.back
      /\ UNCHANGED <<walkVars, holdings, left, txnVars>>
  BY DEF EndReducing
<1>2. /\ JobInv /\ Reducing /\ job.back \in {"pass1", "bidders", "settle"}
      /\ job.inferred <=> job.back # "pass1"
  BY <1>1 DEF Settling, Reducing, Placed, JobIsPlaced
<1>3. LotsInv' /\ PostingsInv' /\ ledger' \in Ledgers
  BY <1>1 DEF Settling, LotsInv, PostingsInv, walkVars, txnVars
<1>4. NothingUnresolved'
  BY <1>1, SameOut DEF Settling, walkVars
<1>5. ~Reducing'
  BY <1>1, <1>2 DEF Reducing
<1>6. \A u \in unknown : InJob(u) /\ job.inferred => Over(u)
  BY <1>1, <1>2 DEF JobInv, InJob, Over
<1>7. UnknownInv'
  BY <1>1, <1>2, <1>5, <1>6 DEF Settling, UnknownInv, InPhase, Reducing, Over, HasEntry, txnVars
<1> QED BY <1>3, <1>4, <1>5, <1>7 DEF Settling

\* What holds of the other unknowns when the turn of one comes.
Waits(v, next, still) ==
    /\ next = "bidders" => /\ Over(v) \/ v.cur = None \/ v.at \in still
                           /\ v.at \in still => v.cur # None
    /\ next = "settle" => Over(v)

LEMMA SettlingResolve ==
    ASSUME TypeOK, Placed, Settling, phase \in {"bidders", "free"}, None \notin loose,
           NEW u \in unknown, NEW c \in OptCurrency, c # None,
           NEW curs, u.cur \in curs, NEW next \in {"bidders", "settle"},
           NEW still, u.at \notin still, Resolve(u, c, curs, next, still),
           \A v \in unknown \ {u} : Waits(v, next, still)
    PROVE  Settling'
<1> DEFINE p == Candidate(postings[u.at], c)
           lot == ResolveLot(p.cost, p.units, Date)
           booked == [p EXCEPT !.cost = AugmentCostFor(@, lot)]
<1>1. /\ ledger[i] \in Transaction /\ Date \in Int
      /\ u \in Unknown /\ u.at \in DOMAIN postings
      /\ postings \in Seq(Posting) /\ postings[u.at] \in Posting
      /\ weights \in [OptCurrency -> Int]
  BY DEF Placed, Active, Transaction, Date, TypeOK, Unknown
<1>2. p \in Posting
  BY <1>1, CandidateType
<1>3. ~p.auto /\ Written(p) /\ p.com # None
  <2>1. ~p.auto /\ Written(p)
    BY <1>1, CandidateIsWritten DEF Settling, PostingsInv
  <2> QED BY <2>1 DEF Written
<1>4. /\ left' = still /\ UNCHANGED <<walkVars, weights, loose>>
  BY DEF Resolve, txnVars
<1>5. NothingUnresolved' /\ ledger' \in Ledgers
  BY <1>4, SameOut DEF Settling, walkVars
<1>6. \A v \in unknown : v.at = u.at => v = u
  BY DEF Settling, PostingsInv
<1>7. CASE Refusal(p) # None
  <2>1. /\ dropped' = dropped \cup curs /\ phase' = next
        /\ UNCHANGED <<holdings, postings, entries, unknown>>
    BY <1>7 DEF Resolve
  <2>2. LotsInv' /\ PostingsInv' /\ ~Reducing'
    BY <1>4, <2>1 DEF Settling, LotsInv, PostingsInv, Reducing
  <2>3. Over(u)' /\ \A v \in unknown : Over(v) => Over(v)'
    BY <2>1 DEF Over, HasEntry
  <2>4. UnknownInv'
    BY <1>4, <2>1, <2>2, <2>3 DEF UnknownInv, InPhase, Waits
  <2> QED BY <1>5, <2>2, <2>4 DEF Settling
<1>8. CASE Refusal(p) = None /\ ~DoesReduce(p)
  <2>1. /\ Added(p, lot, u.at, c, TRUE)
        /\ postings' = [postings EXCEPT ![u.at] = booked]
        /\ unknown' = (unknown \ {u}) \cup {[u EXCEPT !.cur = c]}
        /\ phase' = next /\ dropped' = dropped
    BY <1>8 DEF Resolve
  <2>2. LotFinding(p.cost, p.units) = None
    BY <1>8 DEF Refusal
  <2>3. OwnLot(lot) /\ Settled(booked) /\ booked.com = p.com
    BY <1>1, <1>2, <1>3, <2>2, AugmentedIsSettled
  <2>4. booked \in Posting
    BY <1>1, <1>2, <1>8, AugmentsWell
  <2>5. PICK e : entries' = Append(entries, e) /\ e.at = u.at
    BY <2>1 DEF Added
  <2> HIDE DEF p, lot, booked
  <2>6. /\ \A k \in DOMAIN postings' : /\ postings'[k].auto \/ postings'[k].com # None
                                       /\ postings'[k].auto => Named(postings'[k].cost)
        /\ \A j \in DOMAIN entries' : /\ entries'[j].at \in DOMAIN postings'
                                      /\ Settled(postings'[entries'[j].at])
        /\ \A k \in DOMAIN postings : k # u.at => postings'[k] = postings[k]
        /\ HasEntry(entries', u.at)
        /\ \A k : k # u.at => (HasEntry(entries', k) <=> HasEntry(entries, k))
    <3>1. /\ e.at \in DOMAIN postings /\ postings' = [postings EXCEPT ![e.at] = booked]
          /\ PostingsInv /\ booked.com # None
      BY <1>1, <1>3, <2>1, <2>3, <2>5 DEF Settling
    <3>2. /\ \A k \in DOMAIN postings' :
                /\ postings'[k].auto \/ postings'[k].com # None
                /\ postings'[k].auto => Named(postings'[k].cost)
          /\ \A j \in DOMAIN entries' : /\ entries'[j].at \in DOMAIN postings'
                                        /\ Settled(postings'[entries'[j].at])
          /\ \A k \in DOMAIN postings : k # e.at => postings'[k] = postings[k]
          /\ HasEntry(entries', e.at)
          /\ \A k : k # e.at => (HasEntry(entries', k) <=> HasEntry(entries, k))
      BY <2>3, <2>4, <2>5, <3>1, SettlesPosting
    <3> QED BY <2>5, <3>2
  <2> DEFINE w == [u EXCEPT !.cur = c]
  <2>7. w.at = u.at
    BY <1>1 DEF Unknown
  <2>8. \A v \in unknown' : v = w \/ (v \in unknown \ {u} /\ v.at # u.at)
    BY <1>6, <2>1
  <2> HIDE DEF w
  <2>9. PostingsInv'
    BY <2>6, <2>7, <2>8 DEF Settling, PostingsInv
  <2>10. LotsInv'
    BY <1>2, <1>4, <2>1, <2>3, AddedOwns DEF Settling, LotsInv
  <2>11. ~Reducing'
    BY <2>1 DEF Reducing
  <2>12. Over(w)' /\ \A v \in unknown : v.at # u.at /\ Over(v) => Over(v)'
    BY <2>1, <2>6, <2>7 DEF Over, Placed
  <2>13. UnknownInv'
    BY <1>4, <2>1, <2>7, <2>8, <2>11, <2>12 DEF UnknownInv, InPhase, Waits
  <2> QED BY <1>5, <2>9, <2>10, <2>11, <2>13 DEF Settling
<1>9. CASE Refusal(p) = None /\ DoesReduce(p)
  <2>1. /\ StartReducing(p, u.at, c, TRUE, next)
        /\ UNCHANGED <<holdings, postings, entries, unknown, dropped>>
    BY <1>9 DEF Resolve, txnVars
  <2> HIDE DEF p
  <2>2. JobInv' /\ Reducing' /\ job'.back = next /\ job'.at = u.at
    BY <1>2, <1>3, <1>4, <1>9, <2>1, StartsReducing DEF Settling
  <2>3. LotsInv' /\ PostingsInv'
    BY <1>4, <2>1 DEF Settling, LotsInv, PostingsInv
  <2>4. InJob(u)' /\ \A v \in unknown : Over(v) => Over(v)'
    BY <2>1, <2>2 DEF Over, InJob, HasEntry
  <2>5. phase' = "take"
    BY <2>1 DEF StartReducing
  <2>6. UnknownInv'
    BY <1>4, <2>1, <2>2, <2>4, <2>5 DEF UnknownInv, InPhase, Waits
  <2> QED BY <1>5, <2>2, <2>3, <2>6 DEF Settling
<1> QED BY <1>7, <1>8, <1>9

LEMMA SettlingPass2 ==
    TypeOK /\ Placed /\ Settling
    /\ (BeginPass2 \/ (\E u \in unknown : FailBidders(u) \/ ResolveBidder(u))
        \/ EndBidders \/ FailFree \/ NoneFree
        \/ \E u \in unknown, c \in loose : ResolveFree(u, c))
    => Settling'
<1> SUFFICES ASSUME TypeOK, Placed, Settling PROVE
       /\ BeginPass2 => Settling'
       /\ (\E u \in unknown : FailBidders(u)) => Settling'
       /\ (\E u \in unknown : ResolveBidder(u)) => Settling'
       /\ EndBidders \/ NoneFree => Settling'
       /\ FailFree => Settling'
       /\ (\E u \in unknown, c \in loose : ResolveFree(u, c)) => Settling'
  OBVIOUS
<1>1. ASSUME UNCHANGED <<walkVars, holdings, postings, entries, unknown, weights>>,
             phase # "error", phase' \in {"bidders", "free", "settle"}, UnknownInv'
      PROVE  Settling'
  <2>1. NothingUnresolved' /\ ledger' \in Ledgers
    BY <1>1, SameOut DEF Settling, walkVars
  <2>2. LotsInv' /\ PostingsInv' /\ ~Reducing'
    BY <1>1 DEF Settling, LotsInv, PostingsInv, Reducing
  <2> QED BY <1>1, <2>1, <2>2 DEF Settling
<1>2. ASSUME BeginPass2 PROVE Settling'
  <2>1. /\ phase = "pass1" /\ phase' = "bidders"
        /\ left' = {u.at : u \in {v \in unknown : v.cur \notin dropped \cup {None}}}
        /\ loose' = {c \in OptCurrency :
                        weights[c] # 0 /\ \A u \in unknown : 
                            u.cur \notin dropped \cup {None} => u.cur # c}
        /\ UNCHANGED <<walkVars, holdings, postings, entries, unknown, weights, dropped>>
    BY <1>2 DEF BeginPass2
  <2>2. \A u \in unknown : /\ u.cur \in dropped \/ u.cur = None \/ u.at \in left'
                           /\ u.at \in left' => u.cur # None
    BY <2>1 DEF Settling, PostingsInv
  <2>3. None \notin loose'
    BY <2>1 DEF Settling, LotsInv
  <2>4. UnknownInv'
    BY <2>1, <2>2, <2>3 DEF UnknownInv, InPhase, Reducing, Over
  <2> QED BY <1>1, <2>1, <2>4
<1>3. ASSUME NEW u \in unknown, FailBidders(u) PROVE Settling'
  <2>1. /\ phase = "bidders" /\ phase' = "bidders"
        /\ dropped' = dropped \cup {u.cur}
        /\ left' = left \ {v.at : v \in {w \in unknown : w.at \in left /\ w.cur = u.cur}}
        /\ UNCHANGED <<walkVars, holdings, postings, entries, unknown, weights, loose>>
    BY <1>3 DEF FailBidders, GiveUp, Rivals
  <2>2. \A v \in unknown : /\ Over(v) => Over(v)'
                           /\ v.at \in left => v.at \in left' \/ Over(v)'
                           /\ v.at \in left' => v.at \in left
    BY <2>1 DEF Over, HasEntry, Settling, PostingsInv
  <2>3. UnknownInv'
    BY <2>1, <2>2 DEF Settling, UnknownInv, InPhase, InJob, Reducing
  <2> QED BY <1>1, <2>1, <2>3
<1>4. ASSUME NEW u \in unknown, ResolveBidder(u) PROVE Settling'
  <2>1. /\ phase = "bidders" /\ u.at \in left
        /\ Resolve(u, u.cur, {u.cur}, "bidders", left \ {u.at})
    BY <1>4 DEF ResolveBidder, First
  <2>2. u.cur \in OptCurrency /\ u.cur # None /\ None \notin loose
    BY <2>1 DEF TypeOK, Unknown, Settling, UnknownInv, InPhase
  <2>3. \A v \in unknown \ {u} : Waits(v, "bidders", left \ {u.at})
    BY <2>1 DEF Settling, UnknownInv, PostingsInv, InPhase, InJob, Reducing, Waits
  <2> QED BY <2>1, <2>2, <2>3, SettlingResolve
<1>5. ASSUME EndBidders \/ NoneFree PROVE Settling'
  <2>1. /\ \/ phase = "bidders" /\ phase' = "free" /\ left = {}
           \/ phase = "free" /\ phase' = "settle" /\ \A u \in unknown : u.cur # None
        /\ UNCHANGED <<walkVars, holdings, postings, entries, unknown, weights, loose,
                       dropped, left>>
    BY <1>5 DEF EndBidders, NoneFree, Free, txnVars
  <2>2. \A v \in unknown : Over(v) <=> Over(v)'
    BY <2>1 DEF Over, HasEntry
  <2>3. UnknownInv'
    BY <2>1, <2>2 DEF Settling, UnknownInv, InPhase, InJob, Reducing
  <2> QED BY <1>1, <2>1, <2>3
<1>6. ASSUME FailFree PROVE Settling'
  <2>1. /\ phase = "free" /\ phase' = "settle" /\ dropped' = dropped \cup {None}
        /\ UNCHANGED <<walkVars, holdings, postings, entries, unknown, weights, loose>>
    BY <1>6 DEF FailFree, GiveUp
  <2>2. \A v \in unknown : Over(v)'
    BY <2>1 DEF Settling, UnknownInv, Over, HasEntry
  <2>3. UnknownInv'
    BY <2>1, <2>2 DEF UnknownInv, InPhase, Reducing
  <2> QED BY <1>1, <2>1, <2>3
<1>7. ASSUME NEW u \in unknown, NEW c \in loose, ResolveFree(u, c) PROVE Settling'
  <2>1. /\ phase = "free" /\ {v \in unknown : v.cur = None} = {u}
        /\ Resolve(u, c, {c, None}, "settle", {})
    BY <1>7 DEF ResolveFree, Free
  <2>2. c \in OptCurrency /\ c # None /\ u.cur = None /\ None \notin loose
    BY <2>1 DEF TypeOK, Settling, UnknownInv
  <2>3. \A v \in unknown \ {u} : Waits(v, "settle", {})
    BY <2>1 DEF Settling, UnknownInv, Waits
  <2> QED BY <2>1, <2>2, <2>3, SettlingResolve
<1> QED BY <1>2, <1>3, <1>4, <1>5, <1>6, <1>7

LEMMA SettlingFinalize ==
    TypeOK /\ Placed /\ Settling /\ (Settle \/ (\E j \in left : Undo(j)) \/ Commit)
    => Settling'
<1> SUFFICES ASSUME TypeOK, Placed, Settling PROVE
       /\ Settle => Settling'
       /\ (\E j \in left : Undo(j)) => Settling'
       /\ Commit => Settling'
  OBVIOUS
<1>1. ASSUME Settle PROVE Settling'
  <2>1. /\ phase = "settle" /\ phase' = "undo" /\ UNCHANGED <<walkVars, holdings, txnVars>>
    BY <1>1 DEF Settle
  <2>2. LotsInv' /\ PostingsInv' /\ UnknownInv' /\ ~Reducing'
    BY <2>1 DEF Settling, LotsInv, PostingsInv, UnknownInv, InPhase, InJob, Reducing, Over,
                HasEntry, txnVars
  <2> QED BY <2>1, <2>2, SameOut DEF Settling, walkVars
<1>2. ASSUME NEW j \in left, Undo(j) PROVE Settling'
  <2> DEFINE e == entries[j]
             inv == AddTo(holdings[e.acct], e.com, e.lot, Restored(e), clock)
  <2>1. /\ phase = "undo" /\ phase' = "undo" /\ holdings' = [holdings EXCEPT ![e.acct] = inv]
        /\ UNCHANGED <<walkVars, txnVars>>
    BY <1>2 DEF Undo
  <2>2. e \in Entry /\ e.acct \in Accounts /\ OwnLot(e.lot)
    <3>1. j \in DOMAIN entries /\ entries \in Seq(Entry)
      BY <2>1 DEF Placed, TypeOK
    <3>2. e \in Entry
      BY <3>1
    <3>3. OwnLot(e.lot)
      BY <3>1 DEF Settling, LotsInv
    <3> QED BY <3>2, <3>3 DEF Entry
  <2>3. \A q \in inv : OwnLot(q.lot)
    BY <2>2, AddToOwns DEF Settling, LotsInv
  <2> HIDE DEF inv, e
  <2>4. LotsInv'
    <3>1. \A a \in Accounts : holdings'[a] = IF a = e.acct THEN inv ELSE holdings[a]
      BY <2>1, <2>2 DEF TypeOK
    <3>2. entries' = entries /\ weights' = weights
      BY <2>1 DEF txnVars
    <3> QED BY <2>3, <3>1, <3>2 DEF Settling, LotsInv
  <2>5. PostingsInv' /\ UnknownInv' /\ ~Reducing'
    BY <2>1 DEF Settling, PostingsInv, UnknownInv, InPhase, InJob, Reducing, Over, HasEntry,
                txnVars
  <2> QED BY <2>1, <2>4, <2>5, SameOut DEF Settling, walkVars
<1>3. ASSUME Commit PROVE Settling'
  <2>1. /\ phase = "undo" /\ phase' = "walk"
        /\ out' = out \cup Keep(Restrict(postings, Survivors))
        /\ UNCHANGED <<ledger, holdings, txnVars>>
    BY <1>3 DEF Commit
  <2>2. LotsInv' /\ PostingsInv' /\ UnknownInv' /\ ~Reducing'
    BY <2>1 DEF Settling, LotsInv, PostingsInv, UnknownInv, InPhase, Reducing, txnVars
  <2>3. \A k \in Survivors : Settled(postings[k])
    <3> SUFFICES ASSUME NEW k \in Survivors PROVE Settled(postings[k])
      OBVIOUS
    <3>1. \A u \in unknown : Over(u)
      BY <2>1 DEF Settling, UnknownInv, InJob, Reducing
    <3>2. \A x \in Range(entries) : \E n \in DOMAIN entries : x = entries[n]
      BY DEF Range
    <3> QED BY <3>1, <3>2 DEF Survivors, Over, HasEntry, Settling, PostingsInv
  <2>4. \A r \in Keep(Restrict(postings, Survivors)) : Settled(r.posting)
    <3>1. \A k \in DOMAIN Restrict(postings, Survivors) :
             k \in Survivors /\ Restrict(postings, Survivors)[k] = postings[k]
      BY DEF Restrict
    <3> QED BY <2>3, <3>1 DEF Keep
  <2>5. NothingUnresolved'
    BY <2>1, <2>4 DEF Settling, NothingUnresolved, Settled, SettledCost
  <2> QED BY <2>1, <2>2, <2>5 DEF Settling
<1> QED BY <1>1, <1>2, <1>3

LEMMA SettlingBetween ==
    TypeOK /\ Settling
    /\ (PassThrough \/ RejectTransaction \/ BeginTransaction \/ Return \/ UNCHANGED vars)
    => Settling'
<1> SUFFICES ASSUME TypeOK, Settling,
                    PassThrough \/ RejectTransaction \/ BeginTransaction \/ Return
                    \/ UNCHANGED vars
             PROVE  Settling'
  OBVIOUS
<1>1. CASE UNCHANGED vars
  BY <1>1 DEF Settling, LotsInv, PostingsInv, UnknownInv, JobInv, InPhase, InJob, Reducing,
              Over, HasEntry, NothingUnresolved, vars, walkVars, txnVars
<1>2. CASE PassThrough \/ RejectTransaction \/ Return
  <2>1. /\ phase = "walk" /\ phase' \in {"walk", "done"}
        /\ UNCHANGED <<ledger, holdings, txnVars>>
    BY <1>2 DEF PassThrough, RejectTransaction, Return, walkVars
  <2>2. LotsInv' /\ PostingsInv' /\ UnknownInv' /\ ~Reducing'
    BY <2>1 DEF Settling, LotsInv, PostingsInv, UnknownInv, InPhase, Reducing, txnVars
  <2>3. NothingUnresolved'
    <3>1. CASE PassThrough \/ Return
      BY <2>1, <3>1, SameOut DEF Settling, PassThrough, Return, walkVars
    <3>2. CASE RejectTransaction
      <4>1. /\ StructureFinding(ledger[i].postings) # None
            /\ out' = out \cup Keep(ledger[i].postings)
        BY <3>2 DEF RejectTransaction
      <4>2. \A r \in Keep(ledger[i].postings) : r.txn = i
        BY DEF Keep
      <4> QED BY <2>1, <4>1, <4>2 DEF Settling, NothingUnresolved
    <3> QED BY <1>2, <3>1, <3>2
  <2> QED BY <2>1, <2>2, <2>3 DEF Settling
<1>3. CASE BeginTransaction
  <2>1. /\ phase = "walk" /\ phase' = "pass1" /\ UNCHANGED <<ledger, out, holdings>>
        /\ postings' = <<>> /\ entries' = <<>> /\ unknown' = {}
        /\ weights' = [c \in OptCurrency |-> 0]
    BY <1>3 DEF BeginTransaction
  <2>2. LotsInv' /\ PostingsInv' /\ UnknownInv' /\ ~Reducing'
    BY <2>1 DEF Settling, LotsInv, PostingsInv, UnknownInv, InPhase, Reducing, OptCurrency
  <2> QED BY <2>1, <2>2, SameOut DEF Settling
<1> QED BY <1>1, <1>2, <1>3

\* Of a transaction that was booked, every posting that stays has an amount, and
\* a cost only if it is booked or the posting reduced cash: whatever was left
\* out, however the unknowns were resolved or refused and their groups dropped.
THEOREM Resolved == Spec => []NothingUnresolved
<1> DEFINE IInv == TypeOK /\ Placed /\ Settling
<1>1. Init => IInv
  <2> SUFFICES ASSUME Init PROVE Settling
    BY InitPlaced
  <2> QED BY DEF Init, Settling, LotsInv, PostingsInv, UnknownInv, InPhase, Reducing,
                 NothingUnresolved, OptCurrency
<1>2. IInv /\ [Next]_vars => IInv'
  <2> SUFFICES ASSUME IInv, [Next]_vars PROVE IInv'
    OBVIOUS
  <2>1. TypeOK' /\ Placed'
    BY NextPlaced
  <2>2. Settling'
    BY SettlingBetween, SettlingPass1, SettlingTake, SettlingEndTaking, SettlingRecord,
       SettlingEndReducing, SettlingPass2, SettlingFinalize DEF Next, Returned
  <2> QED BY <2>1, <2>2
<1>3. IInv => NothingUnresolved
  BY DEF Settling
<1> QED BY <1>1, <1>2, <1>3, PTL DEF Spec

-----------------------------------------------------------------------------
(* Sums over finite sets: what MapThenSumSet returns does not depend on    *)
(* the order in which it takes the elements.                               *)

\* What is true of 0 and of every successor is true of the naturals.
Below == OpToRel(<, Nat)
LEMMA SetInduction ==
    ASSUME NEW T, 0 \in T, \A n \in Nat : n \in T => n + 1 \in T
    PROVE  \A n \in Nat : n \in T
<1> SUFFICES ASSUME Nat \ T # {} PROVE FALSE
  OBVIOUS
<1>1. IsWellFoundedOn(Below, Nat)
  BY NatLessThanWellFounded DEF Below
<1>2. PICK x \in Nat \ T : \A y \in Nat \ T : <<y, x>> \notin Below
  BY <1>1, WFMin
<1>3. ASSUME NEW y \in Nat, y \notin T PROVE x <= y
  <2>1. x \in Nat /\ <<y, x>> \notin Below
    BY <1>2, <1>3
  <2> QED BY <2>1 DEF Below, OpToRel
<1>4. x - 1 \in Nat
  BY <1>2
<1>5. x - 1 \in T
  BY <1>2, <1>3, <1>4
<1> QED BY <1>2, <1>4, <1>5

Sum(f, S) == MapThenSumSet(LAMBDA x : f[x], S)

\* The fold takes the element picked first.
Picked(s) == CHOOSE x \in s : TRUE
Less(s, x) == s \ {x}
More(s, x) == s \cup {x}

Adds(f, S, sum) ==
    sum = [s \in SUBSET S |-> IF s = {} THEN 0 ELSE f[Picked(s)] + sum[Less(s, Picked(s))]]

LEMMA SumFolds ==
    ASSUME NEW f, NEW S
    PROVE  Sum(f, S) = (CHOOSE sum : Adds(f, S, sum))[S]
BY DEF Sum, MapThenSumSet, MapThenFoldSet, Adds, Picked, Less

LEMMA PickedIsIn == \A s : s # {} => Picked(s) \in s
BY DEF Picked

LEMMA Lessens ==
    ASSUME NEW s, IsFiniteSet(s), NEW x \in s
    PROVE  /\ IsFiniteSet(Less(s, x)) /\ Less(s, x) \subseteq s /\ x \notin Less(s, x)
           /\ Cardinality(s) \in Nat /\ Cardinality(Less(s, x)) \in Nat
           /\ Cardinality(s) = Cardinality(Less(s, x)) + 1
<1>1. IsFiniteSet(Less(s, x)) /\ Cardinality(Less(s, x)) = Cardinality(s) - 1
  BY FS_RemoveElement DEF Less
<1>2. Cardinality(s) \in Nat /\ Cardinality(Less(s, x)) \in Nat
  BY <1>1, FS_CardinalityType
<1>3. Less(s, x) \subseteq s /\ x \notin Less(s, x)
  BY DEF Less
<1> QED BY <1>1, <1>2, <1>3

\* The function the fold is defined by exists: here it is right for sets of up
\* to n elements.
Part(f, S, sum, n) ==
    \A s \in SUBSET S : Cardinality(s) <= n =>
        sum[s] = IF s = {} THEN 0 ELSE f[Picked(s)] + sum[Less(s, Picked(s))]

LEMMA FoldExists ==
    ASSUME NEW f, NEW S, IsFiniteSet(S)
    PROVE  \E sum : Adds(f, S, sum)
<1> DEFINE T == {n \in Nat : \E sum : Part(f, S, sum, n)}
<1>1. \A s \in SUBSET S : IsFiniteSet(s) /\ Cardinality(s) \in Nat
  BY FS_Subset, FS_CardinalityType
<1>2. 0 \in T
  <2> DEFINE zero == [s \in SUBSET S |-> 0]
  <2>1. \A s \in SUBSET S : Cardinality(s) <= 0 => s = {} /\ zero[s] = 0
    BY <1>1, FS_EmptySet
  <2>2. Part(f, S, zero, 0)
    BY <2>1 DEF Part
  <2> QED BY <2>2
<1>3. ASSUME NEW n \in Nat, n \in T PROVE n + 1 \in T
  <2>1. PICK sum : Part(f, S, sum, n)
    BY <1>3
  <2> DEFINE more == [s \in SUBSET S |-> IF Cardinality(s) <= n THEN sum[s]
                                         ELSE f[Picked(s)] + sum[Less(s, Picked(s))]]
  <2>2. ASSUME NEW s \in SUBSET S, Cardinality(s) <= n + 1
        PROVE  more[s] = IF s = {} THEN 0 ELSE f[Picked(s)] + more[Less(s, Picked(s))]
    <3>1. CASE s = {}
      <4>1. Cardinality(s) <= n
        BY <3>1, FS_EmptySet
      <4>2. sum[s] = 0
        BY <2>1, <3>1, <4>1 DEF Part
      <4> QED BY <3>1, <4>1, <4>2
    <3>2. CASE s # {}
      <4>1. Picked(s) \in s
        BY <3>2, PickedIsIn
      <4>2. /\ Less(s, Picked(s)) \in SUBSET S
            /\ Cardinality(Less(s, Picked(s))) \in Nat
            /\ Cardinality(s) = Cardinality(Less(s, Picked(s))) + 1
        BY <1>1, <4>1, Lessens
      <4>3. Cardinality(Less(s, Picked(s))) <= n
        BY <2>2, <4>2
      <4>4. more[Less(s, Picked(s))] = sum[Less(s, Picked(s))]
        BY <4>2, <4>3
      <4>5. more[s] = f[Picked(s)] + sum[Less(s, Picked(s))]
        <5>1. CASE Cardinality(s) <= n
          <6>1. sum[s] = f[Picked(s)] + sum[Less(s, Picked(s))]
            BY <2>1, <3>2, <5>1 DEF Part
          <6> QED BY <5>1, <6>1
        <5>2. CASE ~(Cardinality(s) <= n)
          BY <5>2
        <5> QED BY <5>1, <5>2
      <4> HIDE DEF more
      <4> QED BY <3>2, <4>4, <4>5
    <3> QED BY <3>1, <3>2
  <2> HIDE DEF more
  <2>3. Part(f, S, more, n + 1)
    BY <2>2 DEF Part
  <2> QED BY <2>3
<1>4. \A n \in Nat : n \in T => n + 1 \in T
  BY <1>3
<1> HIDE DEF T
<1>5. Cardinality(S) \in T
  BY <1>1, <1>2, <1>4, SetInduction
<1>6. PICK sum : Part(f, S, sum, Cardinality(S))
  BY <1>5 DEF T
<1> DEFINE whole == [s \in SUBSET S |-> sum[s]]
<1>7. ASSUME NEW s \in SUBSET S
      PROVE  whole[s] = IF s = {} THEN 0 ELSE f[Picked(s)] + whole[Less(s, Picked(s))]
  <2>1. Cardinality(s) <= Cardinality(S)
    BY FS_Subset
  <2>2. whole[s] = IF s = {} THEN 0 ELSE f[Picked(s)] + sum[Less(s, Picked(s))]
    BY <1>6, <2>1 DEF Part
  <2>3. Less(s, Picked(s)) \in SUBSET S
    BY DEF Less
  <2> QED BY <2>2, <2>3
<1>8. whole = [s \in SUBSET S |-> whole[s]]
  OBVIOUS
<1> HIDE DEF whole
<1>9. Adds(f, S, whole)
  BY <1>7, <1>8 DEF Adds
<1> QED BY <1>9

Agree(f, g, S) == \A x \in S : f[x] = g[x]

\* The fold of a set is that of any larger one, and depends on the values in
\* the set alone.
LEMMA FoldsAgree ==
    ASSUME NEW f, NEW g, NEW S, NEW R, IsFiniteSet(S), IsFiniteSet(R),
           NEW a, NEW b, Adds(f, S, a), Adds(g, R, b)
    PROVE  \A s : s \subseteq S /\ s \subseteq R /\ Agree(f, g, s) => a[s] = b[s]
<1> DEFINE Same(s) == s \subseteq S /\ s \subseteq R /\ Agree(f, g, s)
           T == {n \in Nat : \A s : Same(s) /\ Cardinality(s) = n => a[s] = b[s]}
<1>1. /\ \A s \in SUBSET S : a[s] = IF s = {} THEN 0 ELSE f[Picked(s)] + a[Less(s, Picked(s))]
      /\ \A s \in SUBSET R : b[s] = IF s = {} THEN 0 ELSE g[Picked(s)] + b[Less(s, Picked(s))]
  BY DEF Adds
<1>2. \A s \in SUBSET S : IsFiniteSet(s) /\ Cardinality(s) \in Nat
  BY FS_Subset, FS_CardinalityType
<1>3. 0 \in T
  <2>1. ASSUME NEW s, Same(s), Cardinality(s) = 0 PROVE a[s] = b[s]
    <3>1. s = {}
      BY <1>2, <2>1, FS_EmptySet
    <3> QED BY <1>1, <3>1
  <2> QED BY <2>1
<1>4. ASSUME NEW n \in Nat, n \in T PROVE n + 1 \in T
  <2>1. ASSUME NEW s, Same(s), Cardinality(s) = n + 1 PROVE a[s] = b[s]
    <3>1. s # {}
      BY <1>2, <2>1, FS_EmptySet
    <3>2. Picked(s) \in s
      BY <3>1, PickedIsIn
    <3>3. Less(s, Picked(s)) \subseteq s /\ Cardinality(Less(s, Picked(s))) = n
      <4>1. /\ Less(s, Picked(s)) \subseteq s /\ Cardinality(Less(s, Picked(s))) \in Nat
            /\ Cardinality(s) = Cardinality(Less(s, Picked(s))) + 1
        BY <1>2, <2>1, <3>2, Lessens
      <4> QED BY <2>1, <4>1
    <3>4. Same(Less(s, Picked(s)))
      BY <2>1, <3>3 DEF Agree
    <3>5. a[Less(s, Picked(s))] = b[Less(s, Picked(s))]
      BY <1>4, <3>3, <3>4
    <3>6. f[Picked(s)] = g[Picked(s)]
      BY <2>1, <3>2 DEF Agree
    <3> QED BY <1>1, <2>1, <3>1, <3>5, <3>6
  <2> QED BY <2>1
<1>5. \A n \in Nat : n \in T => n + 1 \in T
  BY <1>4
<1> HIDE DEF T
<1>6. \A n \in Nat : n \in T
  BY <1>3, <1>5, SetInduction
<1> QED BY <1>2, <1>6 DEF T

LEMMA SumIsAdded ==
    ASSUME NEW f, NEW S, IsFiniteSet(S), NEW sum, Adds(f, S, sum), NEW s \in SUBSET S
    PROVE  sum[s] = Sum(f, s)
<1> DEFINE own == CHOOSE a : Adds(f, s, a)
<1>1. IsFiniteSet(s)
  BY FS_Subset
<1>2. Adds(f, s, own)
  BY <1>1, FoldExists
<1>3. Sum(f, s) = own[s]
  BY SumFolds
<1> HIDE DEF own
<1>4. s \subseteq S /\ s \subseteq s /\ Agree(f, f, s)
  BY DEF Agree
<1>5. sum[s] = own[s]
  BY <1>1, <1>2, <1>4, FoldsAgree
<1> QED BY <1>3, <1>5

LEMMA SumRecurs ==
    ASSUME NEW f, NEW S, IsFiniteSet(S)
    PROVE  Sum(f, S) = IF S = {} THEN 0 ELSE f[Picked(S)] + Sum(f, Less(S, Picked(S)))
<1>1. PICK sum : Adds(f, S, sum)
  BY FoldExists
<1>2. sum[S] = IF S = {} THEN 0 ELSE f[Picked(S)] + sum[Less(S, Picked(S))]
  BY <1>1 DEF Adds
<1>3. sum[S] = Sum(f, S)
  BY <1>1, SumIsAdded
<1>4. Less(S, Picked(S)) \in SUBSET S
  BY DEF Less
<1>5. sum[Less(S, Picked(S))] = Sum(f, Less(S, Picked(S)))
  BY <1>1, <1>4, SumIsAdded
<1> QED BY <1>2, <1>3, <1>5

\* A fold that takes its values from another expression is the same sum.
LEMMA SumSame ==
    ASSUME NEW f, NEW g, NEW S, IsFiniteSet(S), \A x \in S : f[x] = g[x]
    PROVE  Sum(f, S) = Sum(g, S)
<1>1. PICK a : Adds(f, S, a)
  BY FoldExists
<1>2. PICK b : Adds(g, S, b)
  BY FoldExists
<1>3. a[S] = b[S]
  <2>1. Agree(f, g, S) /\ S \subseteq S
    BY DEF Agree
  <2> QED BY <1>1, <1>2, <2>1, FoldsAgree
<1>4. a[S] = Sum(f, S) /\ b[S] = Sum(g, S)
  BY <1>1, <1>2, SumIsAdded
<1> QED BY <1>3, <1>4

LEMMA SumEmpty == \A f : Sum(f, {}) = 0
BY FS_EmptySet, SumRecurs

\* Inductions are over the number of elements.
OfSize(S, n) == IsFiniteSet(S) /\ Cardinality(S) = n

LEMMA OneLess ==
    ASSUME NEW S, NEW n \in Nat, OfSize(S, n + 1), NEW x \in S
    PROVE  OfSize(Less(S, x), n)
<1>1. /\ IsFiniteSet(Less(S, x)) /\ Cardinality(Less(S, x)) \in Nat
      /\ Cardinality(S) = Cardinality(Less(S, x)) + 1
  BY Lessens DEF OfSize
<1>2. Cardinality(Less(S, x)) = n
  BY <1>1 DEF OfSize
<1> QED BY <1>1, <1>2 DEF OfSize

LEMMA NotEmpty ==
    ASSUME NEW S, NEW n \in Nat, OfSize(S, n + 1)
    PROVE  S # {} /\ Picked(S) \in S /\ IsFiniteSet(S)
<1>1. S # {}
  BY FS_EmptySet DEF OfSize
<1> QED BY <1>1, PickedIsIn DEF OfSize

LEMMA SizeZero == \A S : OfSize(S, 0) => S = {}
BY FS_EmptySet DEF OfSize

LEMMA HasSize ==
    ASSUME NEW S, IsFiniteSet(S)
    PROVE  Cardinality(S) \in Nat /\ OfSize(S, Cardinality(S))
BY FS_CardinalityType DEF OfSize

LEMMA SumType ==
    ASSUME NEW f, NEW S, IsFiniteSet(S), \A x \in S : f[x] \in Int
    PROVE  Sum(f, S) \in Int
<1> DEFINE T == {n \in Nat : \A R : R \subseteq S /\ OfSize(R, n) => Sum(f, R) \in Int}
<1>1. 0 \in T
  BY SizeZero, SumEmpty
<1>2. ASSUME NEW n \in Nat, n \in T PROVE n + 1 \in T
  <2>1. ASSUME NEW R, R \subseteq S, OfSize(R, n + 1) PROVE Sum(f, R) \in Int
    <3>1. R # {} /\ Picked(R) \in R /\ IsFiniteSet(R)
      BY <2>1, NotEmpty
    <3>2. OfSize(Less(R, Picked(R)), n) /\ Less(R, Picked(R)) \subseteq S
      BY <2>1, <3>1, OneLess DEF Less
    <3>3. Sum(f, Less(R, Picked(R))) \in Int
      BY <1>2, <3>2
    <3>4. Sum(f, R) = f[Picked(R)] + Sum(f, Less(R, Picked(R)))
      BY <3>1, SumRecurs
    <3>5. f[Picked(R)] \in Int
      BY <2>1, <3>1
    <3> QED BY <3>3, <3>4, <3>5
  <2> QED BY <2>1
<1>3. \A n \in Nat : n \in T => n + 1 \in T
  BY <1>2
<1> HIDE DEF T
<1>4. Cardinality(S) \in T
  BY <1>1, <1>3, HasSize, SetInduction
<1> QED BY <1>4, HasSize DEF T

\* Any element may be taken first.
LEMMA SumLess ==
    ASSUME NEW f, NEW S, IsFiniteSet(S), \A x \in S : f[x] \in Int, NEW x \in S
    PROVE  Sum(f, S) = f[x] + Sum(f, Less(S, x))
<1> DEFINE T == {n \in Nat : \A R : R \subseteq S /\ OfSize(R, n) =>
                     \A y \in R : Sum(f, R) = f[y] + Sum(f, Less(R, y))}
<1>1. 0 \in T
  BY SizeZero
<1>2. ASSUME NEW n \in Nat, n \in T PROVE n + 1 \in T
  <2>1. ASSUME NEW R, R \subseteq S, OfSize(R, n + 1), NEW y \in R
        PROVE  Sum(f, R) = f[y] + Sum(f, Less(R, y))
    <3> DEFINE p == Picked(R)
    <3>1. p \in R /\ IsFiniteSet(R) /\ Sum(f, R) = f[p] + Sum(f, Less(R, p))
      BY <2>1, NotEmpty, SumRecurs
    <3> HIDE DEF p
    <3>2. /\ OfSize(Less(R, p), n) /\ Less(R, p) \subseteq S
          /\ OfSize(Less(R, y), n) /\ Less(R, y) \subseteq S
      BY <2>1, <3>1, OneLess DEF Less
    <3>3. CASE p = y
      BY <3>1, <3>3
    <3>4. CASE p # y
      <4>1. y \in Less(R, p) /\ p \in Less(R, y) /\ Less(Less(R, p), y) = Less(Less(R, y), p)
        BY <2>1, <3>1, <3>4 DEF Less
      <4>2. Sum(f, Less(R, p)) = f[y] + Sum(f, Less(Less(R, p), y))
        BY <1>2, <3>2, <4>1
      <4>3. Sum(f, Less(R, y)) = f[p] + Sum(f, Less(Less(R, p), y))
        BY <1>2, <3>2, <4>1
      <4>4. f[y] \in Int /\ f[p] \in Int
        BY <2>1, <3>1
      <4>5. Sum(f, Less(Less(R, p), y)) \in Int
        <5>1. IsFiniteSet(Less(R, p)) /\ Less(Less(R, p), y) \subseteq S
          BY <3>2 DEF OfSize, Less
        <5>2. IsFiniteSet(Less(Less(R, p), y))
          BY <4>1, <5>1, Lessens
        <5> QED BY <5>1, <5>2, SumType
      <4> QED BY <3>1, <4>2, <4>3, <4>4, <4>5
    <3> QED BY <3>3, <3>4
  <2> QED BY <2>1
<1>3. \A n \in Nat : n \in T => n + 1 \in T
  BY <1>2
<1> HIDE DEF T
<1>4. Cardinality(S) \in T
  BY <1>1, <1>3, HasSize, SetInduction
<1> QED BY <1>4, HasSize DEF T

LEMMA SumMore ==
    ASSUME NEW f, NEW S, IsFiniteSet(S), NEW x, x \notin S,
           \A y \in More(S, x) : f[y] \in Int
    PROVE  IsFiniteSet(More(S, x)) /\ Sum(f, More(S, x)) = f[x] + Sum(f, S)
<1>1. IsFiniteSet(More(S, x))
  BY FS_AddElement DEF More
<1>2. x \in More(S, x) /\ Less(More(S, x), x) = S
  BY DEF More, Less
<1>3. Sum(f, More(S, x)) = f[x] + Sum(f, Less(More(S, x), x))
  BY <1>1, <1>2, SumLess
<1> QED BY <1>1, <1>2, <1>3

\* What adds nothing may be left out.
LEMMA SumOfZeros ==
    ASSUME NEW f, NEW S, IsFiniteSet(S), \A x \in S : f[x] \in Int, NEW R \in SUBSET S,
           \A x \in S \ R : f[x] = 0
    PROVE  Sum(f, S) = Sum(f, R)
<1> DEFINE T == {n \in Nat : \A Q : Q \subseteq S /\ R \subseteq Q /\ OfSize(Q, n)
                                        => Sum(f, Q) = Sum(f, R)}
<1>1. 0 \in T
  <2>1. ASSUME NEW Q, R \subseteq Q, OfSize(Q, 0) PROVE Q = R
    BY <2>1, SizeZero
  <2> QED BY <2>1
<1>2. ASSUME NEW n \in Nat, n \in T PROVE n + 1 \in T
  <2>1. ASSUME NEW Q, Q \subseteq S, R \subseteq Q, OfSize(Q, n + 1)
        PROVE  Sum(f, Q) = Sum(f, R)
    <3>1. CASE Q = R
      BY <3>1
    <3>2. CASE Q # R
      <4>1. PICK x \in Q : x \notin R
        BY <2>1, <3>2
      <4>2. OfSize(Less(Q, x), n) /\ Less(Q, x) \subseteq S /\ R \subseteq Less(Q, x)
        BY <2>1, <4>1, OneLess DEF Less
      <4>3. Sum(f, Less(Q, x)) = Sum(f, R)
        BY <1>2, <4>2
      <4>4. Sum(f, Q) = f[x] + Sum(f, Less(Q, x)) /\ f[x] = 0
        BY <2>1, <4>1, SumLess DEF OfSize
      <4>5. Sum(f, Less(Q, x)) \in Int
        BY <4>2, SumType DEF OfSize
      <4> QED BY <4>3, <4>4, <4>5
    <3> QED BY <3>1, <3>2
  <2> QED BY <2>1
<1>3. \A n \in Nat : n \in T => n + 1 \in T
  BY <1>2
<1> HIDE DEF T
<1>4. Cardinality(S) \in T
  BY <1>1, <1>3, HasSize, SetInduction
<1> QED BY <1>4, HasSize DEF T

\* Disjoint sets.
LEMMA SumOfBoth ==
    ASSUME NEW f, NEW S, NEW R, IsFiniteSet(S), IsFiniteSet(R),
           \A x \in S \cup R : f[x] \in Int, \A x \in R : x \notin S
    PROVE  Sum(f, S \cup R) = Sum(f, S) + Sum(f, R)
<1> DEFINE T == {n \in Nat : \A Q : Q \subseteq R /\ OfSize(Q, n)
                                        => Sum(f, S \cup Q) = Sum(f, S) + Sum(f, Q)}
<1>1. 0 \in T
  <2>1. Sum(f, S) \in Int
    BY SumType
  <2>2. ASSUME NEW Q, OfSize(Q, 0) PROVE Sum(f, S \cup Q) = Sum(f, S) + Sum(f, Q)
    <3>1. Q = {} /\ S \cup Q = S
      BY <2>2, SizeZero
    <3> QED BY <2>1, <3>1, SumEmpty
  <2> QED BY <2>2
<1>2. ASSUME NEW n \in Nat, n \in T PROVE n + 1 \in T
  <2>1. ASSUME NEW Q, Q \subseteq R, OfSize(Q, n + 1)
        PROVE  Sum(f, S \cup Q) = Sum(f, S) + Sum(f, Q)
    <3> DEFINE x == Picked(Q)
               q == Less(Q, x)
    <3>1. x \in Q /\ IsFiniteSet(Q)
      BY <2>1, NotEmpty
    <3> HIDE DEF x
    <3>2. OfSize(q, n) /\ q \subseteq R
      BY <2>1, <3>1, OneLess DEF Less
    <3>3. Less(S \cup Q, x) = S \cup q /\ IsFiniteSet(S \cup Q) /\ IsFiniteSet(q)
      <4>1. x \notin S
        BY <2>1, <3>1
      <4> QED BY <3>1, <3>2, <4>1, FS_Union DEF Less, OfSize
    <3> HIDE DEF q
    <3>4. Sum(f, S \cup q) = Sum(f, S) + Sum(f, q)
      BY <1>2, <3>2
    <3>5. Sum(f, S \cup Q) = f[x] + Sum(f, S \cup q)
      <4> DEFINE W == S \cup Q
      <4>1. IsFiniteSet(W) /\ x \in W /\ \A y \in W : f[y] \in Int
        BY <2>1, <3>1, <3>3
      <4> HIDE DEF W
      <4>2. Sum(f, W) = f[x] + Sum(f, Less(W, x))
        BY <4>1, SumLess
      <4> QED BY <3>3, <4>2 DEF W
    <3>6. Sum(f, Q) = f[x] + Sum(f, q)
      BY <2>1, <3>1, SumLess DEF q
    <3>7. Sum(f, S) \in Int /\ Sum(f, q) \in Int /\ f[x] \in Int
      BY <2>1, <3>1, <3>2, <3>3, SumType
    <3> QED BY <3>4, <3>5, <3>6, <3>7
  <2> QED BY <2>1
<1>3. \A n \in Nat : n \in T => n + 1 \in T
  BY <1>2
<1> HIDE DEF T
<1>4. Cardinality(R) \in T
  BY <1>1, <1>3, HasSize, SetInduction
<1> QED BY <1>4, HasSize DEF T

\* A bijection that keeps the values keeps the sum.
Matched(f, g, S, R, to) ==
    /\ \A x \in S : to[x] \in R /\ g[to[x]] = f[x]
    /\ \A x, y \in S : to[x] = to[y] => x = y
    /\ \A z \in R : \E x \in S : to[x] = z

LEMMA SumMatched ==
    ASSUME NEW f, NEW g, NEW S, NEW R, NEW to, IsFiniteSet(S), IsFiniteSet(R),
           \A x \in S : f[x] \in Int, Matched(f, g, S, R, to)
    PROVE  Sum(f, S) = Sum(g, R)
<1> DEFINE T == {n \in Nat : \A Q, P : Q \subseteq S /\ P \subseteq R /\ OfSize(Q, n)
                                 /\ Matched(f, g, Q, P, to) => Sum(f, Q) = Sum(g, P)}
<1>1. 0 \in T
  <2>1. ASSUME NEW Q, NEW P, OfSize(Q, 0), Matched(f, g, Q, P, to)
        PROVE  Sum(f, Q) = Sum(g, P)
    <3>1. Q = {} /\ P = {}
      BY <2>1, SizeZero DEF Matched
    <3> QED BY <3>1, SumEmpty
  <2> QED BY <2>1
<1>2. ASSUME NEW n \in Nat, n \in T PROVE n + 1 \in T
  <2>1. ASSUME NEW Q, NEW P, Q \subseteq S, P \subseteq R, OfSize(Q, n + 1),
               Matched(f, g, Q, P, to)
        PROVE  Sum(f, Q) = Sum(g, P)
    <3> DEFINE x == Picked(Q)
    <3>1. x \in Q /\ IsFiniteSet(Q)
      BY <2>1, NotEmpty
    <3> HIDE DEF x
    <3>2. OfSize(Less(Q, x), n) /\ Less(Q, x) \subseteq S
      BY <2>1, <3>1, OneLess DEF Less
    <3>3. to[x] \in P /\ g[to[x]] = f[x]
      BY <2>1, <3>1 DEF Matched
    <3>4. IsFiniteSet(P) /\ Less(P, to[x]) \subseteq R
      BY <2>1, FS_Subset DEF Less
    <3>5. Matched(f, g, Less(Q, x), Less(P, to[x]), to)
      BY <2>1, <3>1, <3>3 DEF Matched, Less
    <3>6. Sum(f, Less(Q, x)) = Sum(g, Less(P, to[x]))
      BY <1>2, <3>2, <3>4, <3>5
    <3>7. Sum(f, Q) = f[x] + Sum(f, Less(Q, x))
      BY <2>1, <3>1, SumLess
    <3>8. \A z \in P : g[z] \in Int
      BY <2>1 DEF Matched
    <3>9. Sum(g, P) = g[to[x]] + Sum(g, Less(P, to[x]))
      BY <3>3, <3>4, <3>8, SumLess
    <3> QED BY <3>3, <3>6, <3>7, <3>9
  <2> QED BY <2>1
<1>3. \A n \in Nat : n \in T => n + 1 \in T
  BY <1>2
<1> HIDE DEF T
<1>4. Cardinality(S) \in T
  BY <1>1, <1>3, HasSize, SetInduction
<1> QED BY <1>4, HasSize DEF T
-----------------------------------------------------------------------------
(* Entries and postings: every entry is that of one posting, with its      *)
(* account, commodity and units, and of an unknown only once it is booked. *)

Posts(e, p) == e.acct = p.acct /\ e.com = p.com /\ e.units = p.units
DistinctAts(es) == \A j, k \in DOMAIN es : es[j].at = es[k].at => j = k
EntriesPost(es, ps) == \A j \in DOMAIN es : Posts(es[j], ps[es[j].at])
Owned(es, us) ==
    \A j \in DOMAIN es : \A u \in us :
        u.at = es[j].at => es[j].inferred /\ u.cur = es[j].group
Books(es, ps, us) == DistinctAts(es) /\ EntriesPost(es, ps) /\ Owned(es, us)

JobWaits ==
    /\ job.inferred => job.group # None
    /\ job.inferred /\ (phase = "take" \/ job.steps # <<>>) => ~HasEntry(entries, job.at)
    /\ phase = "record" => Len(job.steps) <= 1 \/ (job.many /\ ~job.inferred)

EntriesInv ==
    /\ Books(entries, postings, unknown)
    /\ \A j \in DOMAIN entries : entries[j].inferred => entries[j].group # None
    /\ InPhase("pass1") => \A j \in DOMAIN entries : ~entries[j].inferred
    /\ InPhase("bidders") => \A k \in left : ~HasEntry(entries, k)
    /\ Reducing => JobWaits

\* One more entry, and its posting.
LEMMA BooksOneMore ==
    ASSUME TypeOK, PostingsInv, EntriesInv,
           NEW p, NEW e, Posts(e, p), entries' = Append(entries, e),
           ~HasEntry(entries, e.at),
           \/ postings' = Append(postings, p) /\ e.at = Len(postings) + 1
           \/ e.at \in DOMAIN postings /\ postings' = [postings EXCEPT ![e.at] = p],
           \A u \in unknown' : IF u.at = e.at THEN e.inferred /\ u.cur = e.group
                               ELSE u \in unknown
    PROVE  /\ Books(entries', postings', unknown')
           /\ \A j \in DOMAIN entries' : entries'[j] = e \/ \E k \in DOMAIN entries : entries'[j] = entries[k]
           /\ HasEntry(entries', e.at)
           /\ \A k : k # e.at => (HasEntry(entries', k) <=> HasEntry(entries, k))
<1>1. postings \in Seq(Posting) /\ entries \in Seq(Entry)
  BY DEF TypeOK
<1>2. /\ postings'[e.at] = p
      /\ \A k \in DOMAIN postings : k # e.at => postings'[k] = postings[k]
  <2>1. CASE postings' = Append(postings, p) /\ e.at = Len(postings) + 1
    <3>1. /\ DOMAIN postings = 1..Len(postings) /\ Len(postings) \in Nat
          /\ postings'[Len(postings) + 1] = p
          /\ \A k \in DOMAIN postings : postings'[k] = postings[k]
      BY <1>1, <2>1
    <3> QED BY <2>1, <3>1
  <2>2. CASE e.at \in DOMAIN postings /\ postings' = [postings EXCEPT ![e.at] = p]
    BY <1>1, <2>2
  <2> QED BY <2>1, <2>2
<1>3. /\ \A j \in DOMAIN entries' :
            (j \in DOMAIN entries /\ entries'[j] = entries[j])
            \/ (j = Len(entries) + 1 /\ entries'[j] = e)
      /\ \A j \in DOMAIN entries : j \in DOMAIN entries' /\ entries'[j] = entries[j]
      /\ Len(entries) + 1 \in DOMAIN entries' /\ entries'[Len(entries) + 1] = e
  BY <1>1
<1>4. \A j \in DOMAIN entries : entries[j].at \in DOMAIN postings /\ entries[j].at # e.at
  BY DEF PostingsInv, HasEntry
<1>5. DistinctAts(entries')
  BY <1>3, <1>4 DEF DistinctAts, EntriesInv, Books
<1>6. EntriesPost(entries', postings')
  BY <1>2, <1>3, <1>4 DEF EntriesPost, EntriesInv, Books
<1>7. Owned(entries', unknown')
  BY <1>3, <1>4 DEF Owned, EntriesInv, Books
<1>8. /\ HasEntry(entries', e.at)
      /\ \A k : k # e.at => (HasEntry(entries', k) <=> HasEntry(entries, k))
  BY <1>3 DEF HasEntry
<1> QED BY <1>3, <1>5, <1>6, <1>7, <1>8 DEF Books

\* What is booked for a posting keeps its account, commodity and units.
LEMMA AugmentedPosts ==
    ASSUME NEW p \in Posting, NEW lot, NEW e,
           e.acct = p.acct, e.com = p.com, e.units = p.units
    PROVE  Posts(e, [p EXCEPT !.cost = AugmentCostFor(@, lot)])
BY DEF Posts, Posting

LEMMA ReducedKeeps ==
    ASSUME NEW p \in Posting, NEW step, NEW many
    PROVE  Reduced(p, step, many).acct = p.acct /\ Reduced(p, step, many).com = p.com
<1>1. Child(p, step).acct = p.acct /\ Child(p, step).com = p.com
  BY DEF Child, Posting
<1>2. \A cost : [p EXCEPT !.cost = cost].acct = p.acct /\ [p EXCEPT !.cost = cost].com = p.com
  BY DEF Posting
<1> QED BY <1>1, <1>2 DEF Reduced

LEMMA PostedPass1 ==
    ASSUME TypeOK, Placed, Settling, EntriesInv, NEW k \in left,
           SetAside(k) \/ Defer(k) \/ Refuse(k) \/ Augment(k) \/ Reduce(k)
    PROVE  EntriesInv'
<1> DEFINE p == ledger[i].postings[k]
<1>1. /\ phase = "pass1" /\ ledger[i] \in Transaction
      /\ k \in DOMAIN ledger[i].postings
      /\ \A j \in DOMAIN entries : ~entries[j].inferred
  BY DEF SetAside, Defer, Refuse, Augment, Reduce, Visit, Placed, Active, InPass1,
         EntriesInv, InPhase
<1>2. p \in Posting
  BY <1>1 DEF Transaction
<1>3. /\ PostingsInv /\ postings \in Seq(Posting) /\ Len(postings) \in Nat
      /\ Len(postings) + 1 \notin DOMAIN postings
      /\ ~HasEntry(entries, Len(postings) + 1)
      /\ \A u \in unknown : u.at # Len(postings) + 1
  <2>1. postings \in Seq(Posting) /\ PostingsInv
    BY DEF TypeOK, Settling
  <2>2. DOMAIN postings = 1..Len(postings) /\ Len(postings) \in Nat
    BY <2>1
  <2> QED BY <2>1, <2>2 DEF HasEntry, PostingsInv, Placed
<1> HIDE DEF p
<1>4. CASE SetAside(k) \/ Defer(k)
  <2>1. /\ Set(p) /\ phase' = "pass1" /\ entries' = entries
    BY <1>1, <1>4 DEF SetAside, Defer, p
  <2>2. /\ postings' = Append(postings, p)
        /\ \A u \in unknown' : u \in unknown \/ u.at = Len(postings) + 1
    BY <2>1 DEF Set
  <2>3. \A n \in DOMAIN postings : postings'[n] = postings[n]
    BY <1>3, <2>2
  <2>4. Books(entries', postings', unknown')
    BY <1>3, <2>1, <2>2, <2>3 DEF EntriesInv, Books, EntriesPost, Owned, PostingsInv, HasEntry
  <2> QED BY <1>1, <2>1, <2>4 DEF EntriesInv, InPhase, Reducing
<1>5. CASE Refuse(k)
  BY <1>1, <1>5 DEF Refuse, EntriesInv, InPhase, Reducing
<1>6. CASE Augment(k)
  <2> DEFINE lot == ResolveLot(p.cost, p.units, Date)
             booked == [p EXCEPT !.cost = AugmentCostFor(@, lot)]
             group == IF p.cost = None THEN CashKey(p) ELSE p.cost.cur
  <2>1. /\ Added(p, lot, Len(postings) + 1, group, FALSE)
        /\ postings' = Append(postings, booked)
        /\ phase' = "pass1" /\ unknown' = unknown
    BY <1>1, <1>6 DEF Augment, p
  <2> HIDE DEF lot, group
  <2>2. PICK e : /\ entries' = Append(entries, e) /\ e.at = Len(postings) + 1
                 /\ e.acct = p.acct /\ e.com = p.com /\ e.units = p.units
                 /\ ~e.inferred
    BY <2>1 DEF Added
  <2>3. Posts(e, booked)
    BY <1>2, <2>2, AugmentedPosts
  <2> HIDE DEF booked
  <2>4. /\ ~HasEntry(entries, e.at)
        /\ \A u \in unknown' : IF u.at = e.at THEN e.inferred /\ u.cur = e.group
                              ELSE u \in unknown
        /\ \/ postings' = Append(postings, booked) /\ e.at = Len(postings) + 1
           \/ e.at \in DOMAIN postings /\ postings' = [postings EXCEPT ![e.at] = booked]
    BY <1>3, <2>1, <2>2
  <2>5. /\ Books(entries', postings', unknown')
        /\ \A j \in DOMAIN entries' : entries'[j] = e \/ \E n \in DOMAIN entries : entries'[j] = entries[n]
    BY <1>3, <2>2, <2>3, <2>4, BooksOneMore
  <2> QED BY <1>1, <2>1, <2>2, <2>5 DEF EntriesInv, InPhase, Reducing
<1>7. CASE Reduce(k)
  <2>1. /\ StartReducing(p, Len(postings) + 1, None, FALSE, "pass1")
        /\ UNCHANGED <<postings, entries, unknown>>
    BY <1>7 DEF Reduce, txnVars, p
  <2>2. phase' = "take" /\ job'.inferred = FALSE /\ job'.back = "pass1"
    BY <2>1 DEF StartReducing
  <2> QED BY <1>1, <2>1, <2>2 DEF EntriesInv, InPhase, Reducing, JobWaits
<1> QED BY <1>4, <1>5, <1>6, <1>7

LEMMA PostedTaking ==
    ASSUME TypeOK, Placed, Settling, EntriesInv,
           (phase = "take" /\ \E q \in job.candidates : TakeLot(q)) \/ EndTaking
    PROVE  EntriesInv'
<1>1. /\ phase = "take" /\ JobIsPlaced /\ job \in Job /\ job.steps \in Seq(Step) /\ Reducing
      /\ UNCHANGED <<left, txnVars>>
  BY DEF TakeLot, EndTaking, Placed, JobIsPlaced, Job, Reducing
<1>2. /\ Books(entries', postings', unknown') /\ entries' = entries /\ left' = left
      /\ JobWaits
  BY <1>1 DEF EntriesInv, txnVars
<1>3. CASE \E q \in job.candidates : TakeLot(q)
  <2>1. PICK q \in job.candidates : TakeLot(q)
    BY <1>3
  <2>2. /\ phase' = phase /\ job'.inferred = job.inferred /\ job'.group = job.group
        /\ job'.at = job.at /\ job'.back = job.back
    BY <1>1, <2>1 DEF TakeLot, Job
  <2> QED BY <1>1, <1>2, <2>2 DEF EntriesInv, InPhase, Reducing, JobWaits
<1>4. CASE EndTaking
  <2>1. /\ job'.inferred = job.inferred /\ job'.group = job.group /\ job'.at = job.at
        /\ job'.back = job.back /\ job'.steps = job.steps
        /\ Len(job.steps) > 1 => job'.many
    BY <1>1, <1>4 DEF EndTaking, Job
  <2>2. /\ phase' = "error" \/ phase' = "record"
        /\ phase' = "record" /\ Len(job.steps) > 1 => ~job.inferred
    BY <1>4 DEF EndTaking
  <2>3. Len(job.steps) \in Nat
    BY <1>1
  <2>4. phase' = "record" => JobWaits'
    <3>1. phase' = "record" => Len(job.steps) <= 1 \/ (job'.many /\ ~job.inferred)
      BY <2>1, <2>2, <2>3
    <3>2. ~HasEntry(entries, job.at) \/ ~job.inferred
      BY <1>1, <1>2 DEF JobWaits
    <3> QED BY <1>2, <2>1, <3>1, <3>2 DEF JobWaits
  <2> QED BY <1>1, <1>2, <2>1, <2>2, <2>4 DEF EntriesInv, InPhase, Reducing
<1> QED BY <1>1, <1>3, <1>4

LEMMA PostedRecord == TypeOK /\ Placed /\ Settling /\ EntriesInv /\ RecordStep => EntriesInv'
<1> SUFFICES ASSUME TypeOK, Placed, Settling, EntriesInv, RecordStep PROVE EntriesInv'
  OBVIOUS
<1> DEFINE p == job.posting
           step == Head(job.steps)
           q == Reduced(p, step, job.many)
           at == IF job.inferred THEN job.at ELSE Len(postings) + 1
<1>1. /\ phase = "record" /\ job.steps # <<>>
      /\ \E e : /\ entries' = Append(entries, e) /\ e.at = at
                /\ e.acct = p.acct /\ e.com = p.com /\ e.units = q.units
                /\ e.inferred = job.inferred /\ (job.inferred => e.group = job.group)
      /\ postings' = IF job.inferred THEN [postings EXCEPT ![at] = q]
                                     ELSE Append(postings, q)
      /\ unknown' = IF job.inferred
                    THEN {[u EXCEPT !.cur = IF u.at = at THEN job.group ELSE @] :
                             u \in unknown}
                    ELSE unknown
      /\ job' = [job EXCEPT !.steps = Tail(@)]
      /\ UNCHANGED <<phase, left>>
  BY DEF RecordStep
<1>2. /\ JobIsPlaced /\ job \in Job /\ p \in Posting /\ job.steps \in Seq(Step) /\ Reducing
      /\ job.inferred => job.at \in DOMAIN postings
      /\ job.inferred \in BOOLEAN /\ JobWaits /\ PostingsInv
      /\ job.inferred <=> job.back # "pass1"
  BY <1>1 DEF Settling, EntriesInv, Reducing, Placed, JobIsPlaced, Job
<1>3. PICK e : /\ entries' = Append(entries, e) /\ e.at = at
               /\ e.acct = p.acct /\ e.com = p.com /\ e.units = q.units
               /\ e.inferred = job.inferred /\ (job.inferred => e.group = job.group)
  BY <1>1
<1>4. Posts(e, q)
  <2>1. q.acct = p.acct /\ q.com = p.com
    BY <1>2, ReducedKeeps
  <2> HIDE DEF q
  <2> QED BY <1>3, <2>1 DEF Posts
<1>5. /\ postings \in Seq(Posting) /\ Len(postings) \in Nat
      /\ Len(postings) + 1 \notin DOMAIN postings
      /\ ~HasEntry(entries, Len(postings) + 1)
      /\ \A u \in unknown : u.at # Len(postings) + 1 /\ u \in Unknown
  <2>1. postings \in Seq(Posting) /\ \A u \in unknown : u \in Unknown
    BY DEF TypeOK
  <2>2. DOMAIN postings = 1..Len(postings) /\ Len(postings) \in Nat
    BY <2>1
  <2> QED BY <1>2, <2>1, <2>2 DEF HasEntry, PostingsInv, Placed
<1> HIDE DEF q, step
<1>6. ~HasEntry(entries, e.at)
  BY <1>1, <1>2, <1>3, <1>5 DEF JobWaits
<1>7. \/ postings' = Append(postings, q) /\ e.at = Len(postings) + 1
      \/ e.at \in DOMAIN postings /\ postings' = [postings EXCEPT ![e.at] = q]
  BY <1>1, <1>2, <1>3
<1>8. \A u \in unknown' : IF u.at = e.at THEN e.inferred /\ u.cur = e.group
                          ELSE u \in unknown
  <2>1. CASE ~job.inferred
    BY <1>1, <1>3, <1>5, <2>1
  <2>2. CASE job.inferred
    <3> SUFFICES ASSUME NEW v \in unknown'
                 PROVE  IF v.at = e.at THEN e.inferred /\ v.cur = e.group ELSE v \in unknown
      OBVIOUS
    <3>1. PICK u \in unknown : v = [u EXCEPT !.cur = IF u.at = at THEN job.group ELSE @]
      BY <1>1, <2>2
    <3>2. u \in Unknown
      BY <1>5
    <3>3. v.at = u.at /\ (u.at = at => v.cur = job.group) /\ (u.at # at => v = u)
      BY <3>1, <3>2 DEF Unknown
    <3> QED BY <1>3, <2>2, <3>3
  <2> QED BY <1>2, <2>1, <2>2
<1> HIDE DEF at, p
<1>9. /\ Books(entries', postings', unknown')
      /\ \A j \in DOMAIN entries' : entries'[j] = e \/ \E k \in DOMAIN entries : entries'[j] = entries[k]
      /\ \A k : k # e.at => (HasEntry(entries', k) <=> HasEntry(entries, k))
  BY <1>2, <1>3, <1>4, <1>6, <1>7, <1>8, BooksOneMore
<1>10. /\ job'.inferred = job.inferred /\ job'.group = job.group /\ job'.at = job.at
       /\ job'.back = job.back /\ job'.steps = Tail(job.steps) /\ job'.many = job.many
  BY <1>1, <1>2 DEF Job
<1>11. Len(job.steps) <= 1 => Tail(job.steps) = <<>> /\ Len(Tail(job.steps)) <= 1
  BY <1>1, <1>2
<1>12. JobWaits'
  BY <1>1, <1>2, <1>10, <1>11 DEF JobWaits
<1>13. \A j \in DOMAIN entries' : entries'[j].inferred =>
          /\ entries'[j].group # None
          /\ job.inferred \/ \E k \in DOMAIN entries : entries[k].inferred
  BY <1>2, <1>3, <1>9 DEF EntriesInv, JobWaits
<1>14. InPhase("pass1")' => \A j \in DOMAIN entries' : ~entries'[j].inferred
  <2>1. InPhase("pass1")' => InPhase("pass1") /\ ~job.inferred
    BY <1>1, <1>2, <1>10 DEF InPhase, Reducing
  <2> QED BY <1>13, <2>1 DEF EntriesInv
<1>15. InPhase("bidders")' => \A k \in left' : ~HasEntry(entries', k)
  <2> SUFFICES ASSUME InPhase("bidders")', NEW k \in left PROVE ~HasEntry(entries', k)
    BY <1>1
  <2>1. InPhase("bidders") /\ job.inferred
    BY <1>1, <1>2, <1>10 DEF InPhase, Reducing
  <2>2. job.at \notin left
    BY <1>2, <2>1 DEF Settling, JobInv
  <2>3. e.at = job.at
    BY <1>3, <2>1 DEF at
  <2> QED BY <1>9, <2>1, <2>2, <2>3 DEF EntriesInv
<1> QED BY <1>9, <1>12, <1>13, <1>14, <1>15 DEF EntriesInv

LEMMA PostedEndReducing ==
    TypeOK /\ Placed /\ Settling /\ EntriesInv /\ EndReducing => EntriesInv'
<1> SUFFICES ASSUME TypeOK, Placed, Settling, EntriesInv, EndReducing PROVE EntriesInv'
  OBVIOUS
<1>1. /\ phase = "record" /\ job.steps = <<>> /\ phase' = job.back
      /\ UNCHANGED <<left, txnVars>>
  BY DEF EndReducing
<1>2. Reducing /\ job.back \in {"pass1", "bidders", "settle"}
  BY <1>1 DEF Reducing, Placed, JobIsPlaced
<1> QED BY <1>1, <1>2 DEF EntriesInv, InPhase, Reducing, txnVars

LEMMA PostedResolve ==
    ASSUME TypeOK, Placed, Settling, EntriesInv, phase \in {"bidders", "free"},
           NEW u \in unknown, ~HasEntry(entries, u.at),
           NEW c \in OptCurrency, c # None, NEW curs, NEW next \in {"bidders", "settle"},
           NEW still, u.at \notin still, next = "bidders" => phase = "bidders" /\ still \subseteq left,
           Resolve(u, c, curs, next, still)
    PROVE  EntriesInv'
<1> DEFINE p == Candidate(postings[u.at], c)
           lot == ResolveLot(p.cost, p.units, Date)
           booked == [p EXCEPT !.cost = AugmentCostFor(@, lot)]
<1>1. /\ Date \in Int /\ u \in Unknown /\ u.at \in DOMAIN postings
      /\ postings \in Seq(Posting) /\ postings[u.at] \in Posting
      /\ weights \in [OptCurrency -> Int] /\ PostingsInv
  BY DEF Placed, Active, Transaction, Date, TypeOK, Unknown, Settling
<1>2. p \in Posting
  BY <1>1, CandidateType
<1>3. left' = still
  BY DEF Resolve
<1>4. ~Reducing /\ (next = "bidders" => InPhase("bidders") /\ still \subseteq left)
  BY DEF Reducing, InPhase
<1>5. CASE Refusal(p) # None
  <2>1. phase' = next /\ UNCHANGED <<postings, entries, unknown>>
    BY <1>5 DEF Resolve
  <2>2. ~Reducing' /\ (InPhase("bidders")' => next = "bidders") /\ ~InPhase("pass1")'
    BY <2>1 DEF Reducing, InPhase
  <2> QED BY <1>3, <1>4, <2>1, <2>2 DEF EntriesInv
<1>6. CASE Refusal(p) = None /\ ~DoesReduce(p)
  <2>1. /\ Added(p, lot, u.at, c, TRUE)
        /\ postings' = [postings EXCEPT ![u.at] = booked]
        /\ unknown' = (unknown \ {u}) \cup {[u EXCEPT !.cur = c]}
        /\ phase' = next
    BY <1>6 DEF Resolve
  <2> HIDE DEF lot
  <2>2. PICK e : /\ entries' = Append(entries, e) /\ e.at = u.at /\ e.group = c
                 /\ e.acct = p.acct /\ e.com = p.com /\ e.units = p.units
                 /\ e.inferred
    BY <2>1 DEF Added
  <2>3. Posts(e, booked)
    BY <1>2, <2>2, AugmentedPosts
  <2> HIDE DEF p, booked
  <2>4. \A v \in unknown' : IF v.at = e.at THEN e.inferred /\ v.cur = e.group
                            ELSE v \in unknown
    <3>1. [u EXCEPT !.cur = c].at = u.at /\ [u EXCEPT !.cur = c].cur = c
      BY <1>1 DEF Unknown
    <3>2. \A v \in unknown : v.at = u.at => v = u
      BY <1>1 DEF PostingsInv
    <3> QED BY <2>1, <2>2, <3>1, <3>2
  <2>5. /\ ~HasEntry(entries, e.at)
        /\ \/ postings' = Append(postings, booked) /\ e.at = Len(postings) + 1
           \/ e.at \in DOMAIN postings /\ postings' = [postings EXCEPT ![e.at] = booked]
    BY <1>1, <2>1, <2>2
  <2>6. /\ Books(entries', postings', unknown')
        /\ \A j \in DOMAIN entries' : entries'[j] = e \/ \E n \in DOMAIN entries : entries'[j] = entries[n]
        /\ \A k : k # e.at => (HasEntry(entries', k) <=> HasEntry(entries, k))
    BY <1>1, <2>2, <2>3, <2>4, <2>5, BooksOneMore
  <2>7. ~Reducing' /\ (InPhase("bidders")' => next = "bidders") /\ ~InPhase("pass1")'
    BY <2>1 DEF Reducing, InPhase
  <2>8. next = "bidders" => \A k \in still : ~HasEntry(entries', k)
    BY <1>4, <2>2, <2>6 DEF EntriesInv
  <2> QED BY <1>3, <2>2, <2>6, <2>7, <2>8 DEF EntriesInv
<1>7. CASE Refusal(p) = None /\ DoesReduce(p)
  <2>1. /\ StartReducing(p, u.at, c, TRUE, next)
        /\ UNCHANGED <<postings, entries, unknown>>
    BY <1>7 DEF Resolve, txnVars
  <2> HIDE DEF p
  <2>2. /\ phase' = "take" /\ job'.inferred /\ job'.at = u.at /\ job'.group = c
        /\ job'.back = next
    BY <2>1 DEF StartReducing
  <2>3. JobWaits' /\ ~InPhase("pass1")' /\ (InPhase("bidders")' => next = "bidders")
    BY <2>1, <2>2 DEF JobWaits, InPhase
  <2> QED BY <1>3, <1>4, <2>1, <2>3 DEF EntriesInv
<1> QED BY <1>5, <1>6, <1>7

LEMMA PostedPass2 ==
    TypeOK /\ Placed /\ Settling /\ EntriesInv
    /\ (BeginPass2 \/ (\E u \in unknown : FailBidders(u) \/ ResolveBidder(u))
        \/ EndBidders \/ FailFree \/ NoneFree
        \/ \E u \in unknown, c \in loose : ResolveFree(u, c))
    => EntriesInv'
<1> SUFFICES ASSUME TypeOK, Placed, Settling, EntriesInv PROVE
       /\ BeginPass2 => EntriesInv'
       /\ (\E u \in unknown : FailBidders(u)) => EntriesInv'
       /\ (\E u \in unknown : ResolveBidder(u)) => EntriesInv'
       /\ EndBidders \/ NoneFree \/ FailFree => EntriesInv'
       /\ (\E u \in unknown, c \in loose : ResolveFree(u, c)) => EntriesInv'
  OBVIOUS
<1>1. ASSUME BeginPass2 PROVE EntriesInv'
  <2>1. /\ phase = "pass1" /\ phase' = "bidders" /\ UNCHANGED <<postings, entries, unknown>>
        /\ \A k \in left' : \E u \in unknown : k = u.at
    BY <1>1 DEF BeginPass2
  <2>2. \A j \in DOMAIN entries : ~entries[j].inferred
    BY <2>1 DEF EntriesInv, InPhase
  <2>3. \A k \in left' : ~HasEntry(entries, k)
    BY <2>1, <2>2 DEF EntriesInv, Books, Owned, HasEntry
  <2> QED BY <2>1, <2>3 DEF EntriesInv, InPhase, Reducing
<1>2. ASSUME NEW u \in unknown, FailBidders(u) PROVE EntriesInv'
  <2>1. /\ phase = "bidders" /\ phase' = "bidders" /\ left' \subseteq left
        /\ UNCHANGED <<postings, entries, unknown>>
    BY <1>2 DEF FailBidders, GiveUp
  <2> QED BY <2>1 DEF EntriesInv, InPhase, Reducing
<1>3. ASSUME NEW u \in unknown, ResolveBidder(u) PROVE EntriesInv'
  <2>1. /\ phase = "bidders" /\ u.at \in left
        /\ Resolve(u, u.cur, {u.cur}, "bidders", left \ {u.at})
    BY <1>3 DEF ResolveBidder, First
  <2>2. u.cur \in OptCurrency /\ u.cur # None /\ ~HasEntry(entries, u.at)
    BY <2>1 DEF TypeOK, Unknown, Settling, UnknownInv, InPhase, EntriesInv
  <2> DEFINE still == left \ {u.at}
  <2>3. u.at \notin still /\ still \subseteq left
    OBVIOUS
  <2> HIDE DEF still
  <2> QED BY <2>1, <2>2, <2>3, PostedResolve DEF still
<1>4. ASSUME EndBidders \/ NoneFree \/ FailFree PROVE EntriesInv'
  <2>1. /\ phase \in {"bidders", "free"} /\ phase' \in {"free", "settle"}
        /\ UNCHANGED <<postings, entries, unknown>>
    BY <1>4 DEF EndBidders, NoneFree, FailFree, GiveUp, txnVars
  <2> QED BY <2>1 DEF EntriesInv, InPhase, Reducing
<1>5. ASSUME NEW u \in unknown, NEW c \in loose, ResolveFree(u, c) PROVE EntriesInv'
  <2>1. /\ phase = "free" /\ u.cur = None
        /\ Resolve(u, c, {c, None}, "settle", {})
    BY <1>5 DEF ResolveFree, Free
  <2>2. c \in OptCurrency /\ c # None
    BY <2>1 DEF TypeOK, Settling, UnknownInv
  <2>3. ~HasEntry(entries, u.at)
    BY <2>1 DEF EntriesInv, Books, Owned, HasEntry
  <2>4. u.at \notin {}
    OBVIOUS
  <2> QED BY <2>1, <2>2, <2>3, <2>4, PostedResolve
<1> QED BY <1>1, <1>2, <1>3, <1>4, <1>5

LEMMA PostedElse ==
    EntriesInv
    /\ (Settle \/ (\E j \in left : Undo(j)) \/ Commit
        \/ PassThrough \/ RejectTransaction \/ BeginTransaction \/ Return \/ UNCHANGED vars)
    => EntriesInv'
<1> SUFFICES ASSUME EntriesInv,
                    Settle \/ (\E j \in left : Undo(j)) \/ Commit
                    \/ PassThrough \/ RejectTransaction \/ BeginTransaction \/ Return
                    \/ UNCHANGED vars
             PROVE  EntriesInv'
  OBVIOUS
<1>1. CASE Settle \/ (\E j \in left : Undo(j)) \/ Commit
           \/ PassThrough \/ RejectTransaction \/ Return
  <2>1. /\ UNCHANGED <<postings, entries, unknown>>
        /\ phase' \in {"undo", "walk", "done"}
    BY <1>1 DEF Settle, Undo, Commit, PassThrough, RejectTransaction, Return, txnVars
  <2> QED BY <2>1 DEF EntriesInv, InPhase, Reducing
<1>2. CASE BeginTransaction
  <2>1. /\ phase' = "pass1" /\ postings' = <<>> /\ entries' = <<>> /\ unknown' = {}
    BY <1>2 DEF BeginTransaction
  <2>2. DOMAIN entries' = {}
    BY <2>1
  <2> QED BY <2>1, <2>2 DEF EntriesInv, InPhase, Reducing, Books, DistinctAts, EntriesPost, Owned
<1>3. CASE UNCHANGED vars
  <2>1. UNCHANGED <<postings, entries, unknown, phase, job, left>>
    BY <1>3 DEF vars, txnVars
  <2>2. JobWaits' <=> JobWaits
    BY <2>1 DEF JobWaits
  <2> QED BY <2>1, <2>2 DEF EntriesInv, InPhase, Reducing
<1> QED BY <1>1, <1>2, <1>3
-----------------------------------------------------------------------------
(* What an account holds of a commodity, what the postings that were       *)
(* booked add up to, and what a reduction has consumed so far.             *)

Record == [txn : Nat, at : Nat, posting : Posting]
UnitsHeld == [q \in Position |-> q.units]
UnitsKept == [r \in Record |-> r.posting.units]
UnitsBooked(es) == [j \in DOMAIN es |-> es[j].units]

Of(inv, c) == {q \in inv : q.com = c}
Held(inv, c) == Sum(UnitsHeld, Of(inv, c))
Kept(a, c) == {r \in out : /\ r.posting.acct = a /\ r.posting.com = c
                           /\ StructureFinding(ledger[r.txn].postings) = None}
EntriesOf(es, a, c) == {j \in DOMAIN es : es[j].acct = a /\ es[j].com = c}
Total(steps) == Sum([n \in DOMAIN steps |-> steps[n].units], DOMAIN steps)
Toward(p, n) == IF p.units < 0 THEN -n ELSE n

\* The sums of HoldingsAddUp are these.
LEMMA SumOfHeld ==
    ASSUME NEW S \in SUBSET Position, IsFiniteSet(S)
    PROVE  MapThenSumSet(LAMBDA q : q.units, S) = Sum(UnitsHeld, S)
<1> DEFINE Right(a) == a = [s \in SUBSET S |->
                IF s = {} THEN 0 ELSE Picked(s).units + a[Less(s, Picked(s))]]
           own == CHOOSE a : Right(a)
<1>1. MapThenSumSet(LAMBDA q : q.units, S) = own[S]
  BY DEF MapThenSumSet, MapThenFoldSet, Picked, Less
<1>2. PICK sum : Adds(UnitsHeld, S, sum)
  BY FoldExists
<1>3. \A s \in SUBSET S : s # {} => UnitsHeld[Picked(s)] = Picked(s).units
  BY PickedIsIn DEF UnitsHeld
<1> HIDE DEF UnitsHeld
<1>4. ASSUME NEW a PROVE Right(a) <=> Adds(UnitsHeld, S, a)
  BY <1>3 DEF Adds
<1>5. \E a : Right(a)
  BY <1>2, <1>4
<1>6. Right(own)
  BY <1>5
<1> HIDE DEF Right, own
<1>7. own[S] = Sum(UnitsHeld, S)
  BY <1>4, <1>6, SumIsAdded
<1> QED BY <1>1, <1>7

LEMMA SumOfKept ==
    ASSUME NEW S \in SUBSET Record, IsFiniteSet(S)
    PROVE  MapThenSumSet(LAMBDA r : r.posting.units, S) = Sum(UnitsKept, S)
<1> DEFINE Right(a) == a = [s \in SUBSET S |->
                IF s = {} THEN 0 ELSE Picked(s).posting.units + a[Less(s, Picked(s))]]
           own == CHOOSE a : Right(a)
<1>1. MapThenSumSet(LAMBDA r : r.posting.units, S) = own[S]
  BY DEF MapThenSumSet, MapThenFoldSet, Picked, Less
<1>2. PICK sum : Adds(UnitsKept, S, sum)
  BY FoldExists
<1>3. \A s \in SUBSET S : s # {} => UnitsKept[Picked(s)] = Picked(s).posting.units
  BY PickedIsIn DEF UnitsKept
<1> HIDE DEF UnitsKept
<1>4. ASSUME NEW a PROVE Right(a) <=> Adds(UnitsKept, S, a)
  BY <1>3 DEF Adds
<1>5. \E a : Right(a)
  BY <1>2, <1>4
<1>6. Right(own)
  BY <1>5
<1> HIDE DEF Right, own
<1>7. own[S] = Sum(UnitsKept, S)
  BY <1>4, <1>6, SumIsAdded
<1> QED BY <1>1, <1>7

\* Positions that come and go.
LEMMA HeldType ==
    ASSUME NEW inv \in SUBSET Position, IsFiniteSet(inv), NEW c
    PROVE  /\ IsFiniteSet(Of(inv, c)) /\ Held(inv, c) \in Int
           /\ \A q \in Of(inv, c) : UnitsHeld[q] = q.units /\ q.units \in Int
<1>1. IsFiniteSet(Of(inv, c))
  BY FS_Subset DEF Of
<1>2. \A q \in Of(inv, c) : UnitsHeld[q] = q.units /\ q.units \in Int
  BY DEF Of, UnitsHeld, Position
<1>3. Held(inv, c) \in Int
  BY <1>1, <1>2, SumType DEF Held
<1> QED BY <1>1, <1>2, <1>3

LEMMA HeldMore ==
    ASSUME NEW inv \in SUBSET Position, IsFiniteSet(inv), NEW q \in Position, q \notin inv,
           NEW c
    PROVE  /\ More(inv, q) \in SUBSET Position /\ IsFiniteSet(More(inv, q))
           /\ Held(More(inv, q), c) = Held(inv, c) + (IF q.com = c THEN q.units ELSE 0)
<1>1. More(inv, q) \in SUBSET Position /\ IsFiniteSet(More(inv, q))
  BY FS_AddElement DEF More
<1>2. CASE q.com = c
  <2>1. Of(More(inv, q), c) = More(Of(inv, c), q) /\ q \notin Of(inv, c)
    BY <1>2 DEF Of, More
  <2>2. \A r \in More(Of(inv, c), q) : UnitsHeld[r] = r.units /\ r.units \in Int
    BY <1>1, <2>1, HeldType
  <2>3. IsFiniteSet(Of(inv, c)) /\ Held(inv, c) \in Int
    BY HeldType
  <2>4. Sum(UnitsHeld, More(Of(inv, c), q)) = UnitsHeld[q] + Sum(UnitsHeld, Of(inv, c))
    BY <2>1, <2>2, <2>3, SumMore
  <2>5. UnitsHeld[q] = q.units /\ q.units \in Int
    BY <2>2 DEF More
  <2> QED BY <1>1, <1>2, <2>1, <2>3, <2>4, <2>5 DEF Held
<1>3. CASE q.com # c
  <2>1. Of(More(inv, q), c) = Of(inv, c)
    BY <1>3 DEF Of, More
  <2>2. Held(inv, c) \in Int
    BY HeldType
  <2> QED BY <1>1, <1>3, <2>1, <2>2 DEF Held
<1> QED BY <1>2, <1>3

LEMMA HeldLess ==
    ASSUME NEW inv \in SUBSET Position, IsFiniteSet(inv), NEW q \in inv, NEW c
    PROVE  /\ Less(inv, q) \in SUBSET Position /\ IsFiniteSet(Less(inv, q))
           /\ Held(Less(inv, q), c) = Held(inv, c) - (IF q.com = c THEN q.units ELSE 0)
<1>1. Less(inv, q) \in SUBSET Position /\ IsFiniteSet(Less(inv, q)) /\ q \notin Less(inv, q)
  BY Lessens
<1>2. More(Less(inv, q), q) = inv /\ q \in Position
  BY DEF More, Less
<1>3. Held(inv, c) = Held(Less(inv, q), c) + (IF q.com = c THEN q.units ELSE 0)
  BY <1>1, <1>2, HeldMore
<1>4. Held(Less(inv, q), c) \in Int /\ q.units \in Int
  BY <1>1, <1>2, HeldType DEF Position
<1> QED BY <1>1, <1>3, <1>4

LEMMA HeldAdd ==
    ASSUME NEW inv \in SUBSET Position, IsFiniteSet(inv), OnePerLot(inv),
           NEW com \in OptCurrency, NEW lot \in Lot, NEW units \in Int, NEW ord \in Nat, NEW c
    PROVE  /\ IsFiniteSet(AddTo(inv, com, lot, units, ord))
           /\ Held(AddTo(inv, com, lot, units, ord), c)
              = Held(inv, c) + (IF com = c THEN units ELSE 0)
<1> DEFINE old == {q \in inv : q.com = com /\ q.lot = lot}
           new == [com |-> com, lot |-> lot, units |-> units, ord |-> ord]
<1>1. CASE old = {}
  <2>1. AddTo(inv, com, lot, units, ord) = More(inv, new)
    BY <1>1 DEF AddTo, More
  <2>2. new \in Position /\ new \notin inv /\ new.com = com /\ new.units = units
    BY <1>1 DEF Position
  <2> HIDE DEF new
  <2> QED BY <2>1, <2>2, HeldMore
<1>2. CASE old # {}
  <2>1. PICK q \in inv : q.com = com /\ q.lot = lot
    BY <1>2
  <2>2. old = {q} /\ q \in Position /\ q.units \in Int
    BY <2>1 DEF OnePerLot, Position
  <2> DEFINE rest == [q EXCEPT !.units = @ + units]
             left1 == Less(inv, q)
  <2>3. AddTo(inv, com, lot, units, ord)
        = IF q.units + units # 0 THEN More(left1, rest) ELSE left1
    <3>1. AddTo(inv, com, lot, units, ord) = (inv \ old) \cup
             {[r EXCEPT !.units = @ + units] : r \in {x \in old : x.units + units # 0}}
      BY <1>2 DEF AddTo
    <3> HIDE DEF old
    <3>2. {[r EXCEPT !.units = @ + units] : r \in {x \in old : x.units + units # 0}}
          = IF q.units + units # 0 THEN {rest} ELSE {}
      BY <2>2
    <3> QED BY <2>2, <3>1, <3>2 DEF More, Less
  <2>4. /\ rest \in Position /\ rest.com = com /\ rest.units = q.units + units
        /\ rest.lot = lot
    BY <2>1, <2>2 DEF Position
  <2>5. rest \notin left1
    BY <2>1, <2>4 DEF OnePerLot, Less
  <2>6. /\ left1 \in SUBSET Position /\ IsFiniteSet(left1)
        /\ Held(left1, c) = Held(inv, c) - (IF com = c THEN q.units ELSE 0)
    BY <2>1, HeldLess
  <2>7. Held(inv, c) \in Int
    BY HeldType
  <2> HIDE DEF rest, left1
  <2>8. /\ IsFiniteSet(More(left1, rest))
        /\ Held(More(left1, rest), c)
           = Held(left1, c) + (IF com = c THEN q.units + units ELSE 0)
    BY <2>4, <2>5, <2>6, HeldMore
  <2> QED BY <2>2, <2>3, <2>6, <2>7, <2>8
<1> QED BY <1>1, <1>2

LEMMA HeldTake ==
    ASSUME NEW inv \in SUBSET Position, IsFiniteSet(inv), OnePerLot(inv), NEW q \in inv,
           NEW n \in Int, NEW c
    PROVE  /\ IsFiniteSet((inv \ {q}) \cup {[q EXCEPT !.units = n]})
           /\ Held((inv \ {q}) \cup {[q EXCEPT !.units = n]}, c)
              = Held(inv, c) + (IF q.com = c THEN n - q.units ELSE 0)
<1> DEFINE rest == [q EXCEPT !.units = n]
           left1 == Less(inv, q)
<1>1. q \in Position /\ q.units \in Int
  BY DEF Position
<1>2. (inv \ {q}) \cup {rest} = More(left1, rest)
  BY DEF More, Less
<1>3. /\ rest \in Position /\ rest.com = q.com /\ rest.units = n /\ rest.lot = q.lot
  BY <1>1 DEF Position
<1>4. rest \notin left1
  BY <1>3 DEF OnePerLot, Less
<1>5. /\ left1 \in SUBSET Position /\ IsFiniteSet(left1)
      /\ Held(left1, c) = Held(inv, c) - (IF q.com = c THEN q.units ELSE 0)
  BY HeldLess
<1>6. Held(inv, c) \in Int
  BY HeldType
<1> HIDE DEF rest, left1
<1>7. /\ IsFiniteSet(More(left1, rest))
      /\ Held(More(left1, rest), c) = Held(left1, c) + (IF q.com = c THEN n ELSE 0)
  BY <1>3, <1>4, <1>5, HeldMore
<1>8. Held(More(left1, rest), c) = Held(inv, c) + (IF q.com = c THEN n - q.units ELSE 0)
  BY <1>1, <1>5, <1>6, <1>7
<1> QED BY <1>2, <1>7, <1>8 DEF rest

\* Emptied positions hold nothing.
LEMMA HeldFull ==
    ASSUME NEW inv \in SUBSET Position, IsFiniteSet(inv), NEW c
    PROVE  /\ IsFiniteSet({q \in inv : q.units # 0})
           /\ Held({q \in inv : q.units # 0}, c) = Held(inv, c)
<1> DEFINE full == {q \in inv : q.units # 0}
<1>1. IsFiniteSet(full)
  BY FS_Subset
<1>2. /\ IsFiniteSet(Of(inv, c)) /\ \A q \in Of(inv, c) : UnitsHeld[q] \in Int
      /\ Of(full, c) \in SUBSET Of(inv, c)
      /\ \A q \in Of(inv, c) \ Of(full, c) : UnitsHeld[q] = 0
  <2>1. /\ IsFiniteSet(Of(inv, c))
        /\ \A q \in Of(inv, c) : UnitsHeld[q] = q.units /\ q.units \in Int
    BY HeldType
  <2>2. Of(full, c) \in SUBSET Of(inv, c)
        /\ \A q \in Of(inv, c) \ Of(full, c) : q.units = 0
    BY DEF Of
  <2> HIDE DEF full
  <2> QED BY <2>1, <2>2
<1> HIDE DEF full
<1>3. Sum(UnitsHeld, Of(inv, c)) = Sum(UnitsHeld, Of(full, c))
  BY <1>2, SumOfZeros
<1> QED BY <1>1, <1>3 DEF Held, full

\* Steps that are recorded.
StepUnits(s) == [n \in DOMAIN s |-> s[n].units]

LEMMA SeqFacts ==
    ASSUME NEW s \in Seq(Step)
    PROVE  /\ Len(s) \in Nat /\ DOMAIN s = 1 .. Len(s) /\ IsFiniteSet(DOMAIN s)
           /\ \A n \in DOMAIN s : StepUnits(s)[n] = s[n].units /\ s[n].units \in Int
           /\ Total(s) = Sum(StepUnits(s), DOMAIN s) /\ Total(s) \in Int
<1>1. Len(s) \in Nat /\ DOMAIN s = 1 .. Len(s)
  OBVIOUS
<1>2. IsFiniteSet(DOMAIN s)
  BY <1>1, FS_Interval
<1>3. \A n \in DOMAIN s : s[n] \in Step
  OBVIOUS
<1>4. \A n \in DOMAIN s : StepUnits(s)[n] = s[n].units /\ s[n].units \in Int
  BY <1>3 DEF StepUnits, Step
<1>5. Total(s) = Sum(StepUnits(s), DOMAIN s)
  BY DEF Total, StepUnits
<1>6. Sum(StepUnits(s), DOMAIN s) \in Int
  BY <1>2, <1>4, SumType
<1> QED BY <1>1, <1>2, <1>4, <1>5, <1>6

LEMMA TotalNone == Total(<<>>) = 0
<1>1. DOMAIN <<>> = {}
  OBVIOUS
<1> QED BY <1>1, SumEmpty DEF Total

LEMMA TotalAppend ==
    ASSUME NEW s \in Seq(Step), NEW step \in Step
    PROVE  Total(Append(s, step)) = Total(s) + step.units
<1> DEFINE t == Append(s, step)
           x == Len(s) + 1
<1>1. /\ t \in Seq(Step) /\ x \notin DOMAIN s /\ DOMAIN t = More(DOMAIN s, x)
      /\ t[x] = step /\ \A n \in DOMAIN s : t[n] = s[n]
  BY DEF More
<1> HIDE DEF t, x
<1>2. /\ IsFiniteSet(DOMAIN s) /\ Total(s) = Sum(StepUnits(s), DOMAIN s) /\ Total(s) \in Int
      /\ Total(t) = Sum(StepUnits(t), DOMAIN t)
      /\ \A n \in DOMAIN t : StepUnits(t)[n] = t[n].units /\ t[n].units \in Int
      /\ \A n \in DOMAIN s : StepUnits(s)[n] = s[n].units
  BY <1>1, SeqFacts
<1>3. Sum(StepUnits(t), More(DOMAIN s, x)) = StepUnits(t)[x] + Sum(StepUnits(t), DOMAIN s)
  BY <1>1, <1>2, SumMore
<1>4. \A n \in DOMAIN s : StepUnits(t)[n] = StepUnits(s)[n]
  BY <1>1, <1>2 DEF More
<1>5. Sum(StepUnits(t), DOMAIN s) = Sum(StepUnits(s), DOMAIN s)
  BY <1>2, <1>4, SumSame
<1>6. StepUnits(t)[x] = step.units /\ step.units \in Int
  BY <1>1, <1>2 DEF More
<1>7. Total(t) = Total(s) + step.units
  BY <1>1, <1>2, <1>3, <1>5, <1>6
<1> QED BY <1>7 DEF t

LEMMA TotalTail ==
    ASSUME NEW s \in Seq(Step), s # <<>>
    PROVE  /\ Tail(s) \in Seq(Step) /\ Head(s) \in Step
           /\ Total(s) = Head(s).units + Total(Tail(s))
<1> DEFINE t == Tail(s)
           to == [n \in DOMAIN t |-> n + 1]
<1>1. /\ t \in Seq(Step) /\ 1 \in DOMAIN s /\ Head(s) = s[1] /\ Head(s) \in Step
      /\ \A n \in DOMAIN t : n \in Nat /\ to[n] = n + 1 /\ to[n] \in Less(DOMAIN s, 1) /\ t[n] = s[to[n]]
      /\ \A n \in Less(DOMAIN s, 1) : n - 1 \in DOMAIN t /\ to[n - 1] = n
  BY DEF Less
<1> HIDE DEF t, to
<1>2. /\ IsFiniteSet(DOMAIN s) /\ Total(s) = Sum(StepUnits(s), DOMAIN s)
      /\ \A n \in DOMAIN s : StepUnits(s)[n] = s[n].units /\ StepUnits(s)[n] \in Int
      /\ IsFiniteSet(DOMAIN t) /\ Total(t) = Sum(StepUnits(t), DOMAIN t) /\ Total(t) \in Int
      /\ \A n \in DOMAIN t : StepUnits(t)[n] = t[n].units /\ StepUnits(t)[n] \in Int
  BY <1>1, SeqFacts
<1>3. Sum(StepUnits(s), DOMAIN s) = StepUnits(s)[1] + Sum(StepUnits(s), Less(DOMAIN s, 1))
  BY <1>1, <1>2, SumLess
<1>4. Matched(StepUnits(t), StepUnits(s), DOMAIN t, Less(DOMAIN s, 1), to)
  <2>1. \A n \in DOMAIN t : StepUnits(s)[to[n]] = StepUnits(t)[n]
    <3>1. Less(DOMAIN s, 1) \subseteq DOMAIN s
      BY DEF Less
    <3> TAKE n \in DOMAIN t
    <3>2. to[n] \in DOMAIN s /\ t[n] = s[to[n]]
      BY <1>1, <3>1
    <3>3. StepUnits(t)[n] = t[n].units /\ StepUnits(s)[to[n]] = s[to[n]].units
      BY <1>2, <3>2
    <3> QED BY <3>2, <3>3
  <2>2. \A m, n \in DOMAIN t : to[m] = to[n] => m = n
    BY <1>1
  <2> QED BY <1>1, <2>1, <2>2 DEF Matched
<1>5. IsFiniteSet(Less(DOMAIN s, 1))
  BY <1>1, <1>2, Lessens
<1>6. Sum(StepUnits(t), DOMAIN t) = Sum(StepUnits(s), Less(DOMAIN s, 1))
  BY <1>2, <1>4, <1>5, SumMatched
<1>7. StepUnits(s)[1] = Head(s).units
  BY <1>1, <1>2
<1> QED BY <1>1, <1>2, <1>3, <1>6, <1>7 DEF t

\* An entry counts until it is undone, and a reduction in progress owes the
\* steps that it has still to record.
Stands(j) == phase = "undo" => j \in left \/ entries[j].group \notin dropped
Standing(a, c) == {j \in EntriesOf(entries, a, c) : Stands(j)}
BookedSum(es, a, c) == Sum(UnitsBooked(es), EntriesOf(es, a, c))
Due(a, c) == IF Reducing /\ job.posting.acct = a /\ job.posting.com = c
             THEN Toward(job.posting, Total(job.steps)) ELSE 0
InProgress(a, c) ==
    IF phase \in Active
    THEN Sum(UnitsBooked(entries), Standing(a, c)) + Due(a, c) ELSE 0
Balanced(a, c) ==
    Held(holdings[a], c) = Sum(UnitsKept, Kept(a, c)) + InProgress(a, c)

\* The inventories are finite, and what is out is of earlier transactions.
Finite == IsFiniteSet(out) /\ \A a \in Accounts : IsFiniteSet(holdings[a])
Earlier ==
    /\ phase # "error" => \A r \in out : r.txn < i
    /\ phase \in Active => StructureFinding(ledger[i].postings) = None

\* The steps of a reduction account for what it wanted.
OwnPair(p) == <<p.acct, p.com>>
Consumed ==
    /\ job.wanted >= 0 /\ \A n \in DOMAIN job.steps : job.steps[n].units >= 0
    /\ \A q \in job.candidates : q.com = job.posting.com
    /\ phase = "take" => Total(job.steps) = Size(job.posting.units) - job.wanted
    /\ phase = "record" /\ ~job.many =>
           \/ job.steps = <<>> \/ OwnPair(job.posting) \in strayed
           \/ Total(job.steps) = Size(job.posting.units)

\* What undoing an entry adds back is what booking it took.
GivesBack(e) == e.reduces /\ e.units <= 0 => e.taken = -e.units \/ OwnPair(e) \in strayed

Adding ==
    /\ Finite /\ Earlier
    /\ Reducing => Consumed
    /\ \A j \in DOMAIN entries : GivesBack(entries[j])
    /\ phase = "undo" => \A j \in left : entries[j].group \in dropped
    /\ phase # "error" => \A a \in Accounts, c \in Currencies :
                              <<a, c>> \in strayed \/ Balanced(a, c)

LEMMA BookedType ==
    ASSUME NEW es \in Seq(Entry), NEW a, NEW c
    PROVE  /\ IsFiniteSet(EntriesOf(es, a, c)) /\ BookedSum(es, a, c) \in Int
           /\ EntriesOf(es, a, c) \subseteq DOMAIN es
           /\ \A j \in DOMAIN es : UnitsBooked(es)[j] = es[j].units /\ es[j].units \in Int
<1>1. DOMAIN es = 1 .. Len(es) /\ Len(es) \in Nat /\ \A j \in DOMAIN es : es[j] \in Entry
  OBVIOUS
<1>2. IsFiniteSet(DOMAIN es)
  BY <1>1, FS_Interval
<1>3. EntriesOf(es, a, c) \subseteq DOMAIN es
  BY DEF EntriesOf
<1>4. IsFiniteSet(EntriesOf(es, a, c))
  BY <1>2, <1>3, FS_Subset
<1>5. \A j \in DOMAIN es : UnitsBooked(es)[j] = es[j].units /\ es[j].units \in Int
  BY <1>1 DEF UnitsBooked, Entry
<1>6. BookedSum(es, a, c) \in Int
  BY <1>3, <1>4, <1>5, SumType DEF BookedSum
<1> QED BY <1>3, <1>4, <1>5, <1>6

LEMMA BookedMore ==
    ASSUME NEW es \in Seq(Entry), NEW e \in Entry, NEW a, NEW c
    PROVE  BookedSum(Append(es, e), a, c)
           = BookedSum(es, a, c) + (IF e.acct = a /\ e.com = c THEN e.units ELSE 0)
<1> DEFINE fs == Append(es, e)
           x == Len(es) + 1
<1>1. /\ fs \in Seq(Entry) /\ x \notin DOMAIN es /\ fs[x] = e
      /\ \A j : j \in DOMAIN fs <=> j \in DOMAIN es \/ j = x
      /\ \A j \in DOMAIN es : fs[j] = es[j]
  OBVIOUS
<1> HIDE DEF fs, x
<1>2. /\ EntriesOf(es, a, c) \subseteq DOMAIN es /\ IsFiniteSet(EntriesOf(es, a, c))
      /\ \A j \in DOMAIN es : UnitsBooked(es)[j] = es[j].units /\ es[j].units \in Int
      /\ BookedSum(es, a, c) \in Int
      /\ EntriesOf(fs, a, c) \subseteq DOMAIN fs
      /\ \A j \in DOMAIN fs : UnitsBooked(fs)[j] = fs[j].units /\ fs[j].units \in Int
  BY <1>1, BookedType
<1>3. Sum(UnitsBooked(fs), EntriesOf(es, a, c)) = BookedSum(es, a, c)
  <2>1. \A j \in EntriesOf(es, a, c) :
           UnitsBooked(fs)[j] = UnitsBooked(es)[j] /\ UnitsBooked(fs)[j] \in Int
    BY <1>1, <1>2
  <2> QED BY <1>2, <2>1, SumSame DEF BookedSum
<1>4. CASE e.acct = a /\ e.com = c
  <2>1. EntriesOf(fs, a, c) = More(EntriesOf(es, a, c), x) /\ x \notin EntriesOf(es, a, c)
    BY <1>1, <1>4 DEF EntriesOf, More
  <2>2. \A j \in More(EntriesOf(es, a, c), x) : UnitsBooked(fs)[j] \in Int
    BY <1>2, <2>1
  <2>3. Sum(UnitsBooked(fs), More(EntriesOf(es, a, c), x))
        = UnitsBooked(fs)[x] + Sum(UnitsBooked(fs), EntriesOf(es, a, c))
    BY <1>2, <2>1, <2>2, SumMore
  <2>4. UnitsBooked(fs)[x] = e.units /\ e.units \in Int
    BY <1>1, <1>2
  <2> QED BY <1>2, <1>3, <1>4, <2>1, <2>3, <2>4 DEF BookedSum, fs
<1>5. CASE ~(e.acct = a /\ e.com = c)
  <2>1. EntriesOf(fs, a, c) = EntriesOf(es, a, c)
    BY <1>1, <1>5 DEF EntriesOf
  <2> QED BY <1>2, <1>3, <1>5, <2>1 DEF BookedSum, fs
<1> QED BY <1>4, <1>5

\* Everything that is added up is a number.
LEMMA AddingTypes ==
    ASSUME TypeOK, Finite, NEW a \in Accounts, NEW c
    PROVE  /\ Held(holdings[a], c) \in Int
           /\ IsFiniteSet(Kept(a, c)) /\ Kept(a, c) \subseteq Record
           /\ Sum(UnitsKept, Kept(a, c)) \in Int
           /\ \A r \in Record : UnitsKept[r] = r.posting.units /\ UnitsKept[r] \in Int
<1>1. holdings[a] \in SUBSET Position /\ IsFiniteSet(holdings[a])
  BY DEF TypeOK, Finite
<1>2. Held(holdings[a], c) \in Int
  BY <1>1, HeldType
<1>3. Kept(a, c) \subseteq out /\ out \subseteq Record
  BY DEF Kept, TypeOK, Record
<1>4. IsFiniteSet(Kept(a, c))
  BY <1>3, FS_Subset DEF Finite
<1>5. \A r \in Record : UnitsKept[r] = r.posting.units /\ UnitsKept[r] \in Int
  BY DEF UnitsKept, Record, Posting
<1>6. Sum(UnitsKept, Kept(a, c)) \in Int
  BY <1>3, <1>4, <1>5, SumType
<1> QED BY <1>2, <1>3, <1>4, <1>5, <1>6

LEMMA DueType ==
    ASSUME TypeOK, Placed, NEW a, NEW c
    PROVE  Due(a, c) \in Int
<1>1. CASE Reducing
  <2>1. job \in Job /\ job.steps \in Seq(Step)
    BY <1>1 DEF Placed, JobIsPlaced, Reducing, Job
  <2>2. Total(job.steps) \in Int
    BY <2>1, SeqFacts
  <2> QED BY <2>2 DEF Due, Toward
<1>2. CASE ~Reducing
  BY <1>2 DEF Due
<1> QED BY <1>1, <1>2

\* Before the entries are undone all of them stand, and a step is balanced when
\* what it does to an inventory is what it books and what it leaves to record.
LEMMA AddingStep ==
    ASSUME TypeOK, Placed, Adding, TypeOK', Finite',
           phase \in Active, phase # "undo", phase' \in Active, phase' # "undo",
           ledger' = ledger, i' = i, out' = out, strayed \subseteq strayed',
           Reducing' => Consumed',
           \A j \in DOMAIN entries' : GivesBack(entries[j])',
           \A a \in Accounts, c \in Currencies :
              \/ <<a, c>> \in strayed'
              \/ Due(a, c)' = Due(a, c)
                              + (Held(holdings'[a], c) - Held(holdings[a], c))
                              - (BookedSum(entries', a, c) - BookedSum(entries, a, c))
    PROVE  Adding'
<1>1. Earlier'
  BY DEF Adding, Earlier, Active
<1>2. ASSUME NEW a \in Accounts, NEW c \in Currencies, <<a, c>> \notin strayed'
      PROVE  Balanced(a, c)'
  <2>1. /\ Held(holdings[a], c) = Sum(UnitsKept, Kept(a, c)) + InProgress(a, c)
        /\ InProgress(a, c) = Sum(UnitsBooked(entries), Standing(a, c)) + Due(a, c)
    BY <1>2 DEF Adding, Balanced, InProgress, Active
  <2>2. /\ Standing(a, c) = EntriesOf(entries, a, c)
        /\ Standing(a, c)' = EntriesOf(entries', a, c)
    BY DEF Standing, Stands, EntriesOf
  <2>3. /\ Held(holdings[a], c) \in Int /\ Sum(UnitsKept, Kept(a, c)) \in Int
        /\ Due(a, c) \in Int
    BY AddingTypes, DueType DEF Adding
  <2>4. entries \in Seq(Entry) /\ entries' \in Seq(Entry)
        /\ holdings'[a] \in SUBSET Position /\ IsFiniteSet(holdings'[a])
    BY DEF TypeOK, Finite
  <2>5. /\ BookedSum(entries, a, c) \in Int /\ BookedSum(entries', a, c) \in Int
        /\ Held(holdings'[a], c) \in Int
    BY <2>4, BookedType, HeldType
  <2>6. Due(a, c)' = Due(a, c) + (Held(holdings'[a], c) - Held(holdings[a], c))
                     - (BookedSum(entries', a, c) - BookedSum(entries, a, c))
    BY <1>2
  <2>7. Kept(a, c)' = Kept(a, c)
    BY DEF Kept
  <2>8. InProgress(a, c) = BookedSum(entries, a, c) + Due(a, c)
    BY <2>1, <2>2 DEF BookedSum
  <2>9. InProgress(a, c)' = BookedSum(entries', a, c) + Due(a, c)'
    BY <2>2 DEF InProgress, BookedSum
  <2>10. Held(holdings'[a], c) = Sum(UnitsKept, Kept(a, c)) + InProgress(a, c)'
    BY <2>1, <2>3, <2>5, <2>6, <2>8, <2>9
  <2> QED BY <2>7, <2>10 DEF Balanced
<1> QED BY <1>1, <1>2 DEF Adding

\* The entry of an augmenting posting is what its inventory gains.
LEMMA AddedBalances ==
    ASSUME TypeOK, Finite, NEW p \in Posting, NEW lot \in Lot, NEW at \in Nat,
           NEW group \in OptCurrency, NEW inferred \in BOOLEAN,
           Added(p, lot, at, group, inferred)
    PROVE  /\ \A a \in Accounts : IsFiniteSet(holdings'[a])
           /\ \A j \in DOMAIN entries' :
                 ~entries'[j].reduces \/ (j \in DOMAIN entries /\ entries'[j] = entries[j])
           /\ \A a \in Accounts, c \in Currencies :
                 Held(holdings'[a], c) - Held(holdings[a], c)
                 = BookedSum(entries', a, c) - BookedSum(entries, a, c)
<1> DEFINE e == [at |-> at, group |-> group, acct |-> p.acct, com |-> p.com,
                 lot |-> lot, units |-> p.units, reduces |-> FALSE, taken |-> 0,
                 inferred |-> inferred]
           inv == AddTo(holdings[p.acct], p.com, lot, p.units, clock)
<1>1. entries' = Append(entries, e) /\ holdings' = [holdings EXCEPT ![p.acct] = inv]
  BY DEF Added
<1>2. /\ p.acct \in Accounts /\ p.com \in OptCurrency /\ p.units \in Int
      /\ entries \in Seq(Entry) /\ holdings \in [Accounts -> SUBSET Position]
      /\ OnePerLot(holdings[p.acct]) /\ IsFiniteSet(holdings[p.acct]) /\ clock \in Nat
  BY DEF Posting, TypeOK, Finite
<1>3. /\ e \in Entry /\ e.acct = p.acct /\ e.com = p.com /\ e.units = p.units
      /\ ~e.reduces
  BY <1>2 DEF Entry
<1>4. IsFiniteSet(inv)
      /\ \A c : Held(inv, c) = Held(holdings[p.acct], c) + (IF p.com = c THEN p.units ELSE 0)
  <2> DEFINE own == holdings[p.acct]
             com == p.com
             units == p.units
  <2>1. /\ own \in SUBSET Position /\ IsFiniteSet(own) /\ OnePerLot(own)
        /\ com \in OptCurrency /\ units \in Int /\ clock \in Nat
    BY <1>2
  <2> HIDE DEF own, com, units
  <2>2. ASSUME NEW c
        PROVE  /\ IsFiniteSet(AddTo(own, com, lot, units, clock))
               /\ Held(AddTo(own, com, lot, units, clock), c)
                  = Held(own, c) + (IF com = c THEN units ELSE 0)
    BY <2>1, HeldAdd
  <2> QED BY <2>2 DEF own, com, units
<1> HIDE DEF e, inv
<1>5. \A j \in DOMAIN entries' :
         ~entries'[j].reduces \/ (j \in DOMAIN entries /\ entries'[j] = entries[j])
  <2>1. \A j \in DOMAIN entries' :
           entries'[j] = e \/ (j \in DOMAIN entries /\ entries'[j] = entries[j])
    BY <1>1, <1>2
  <2> QED BY <1>3, <2>1
<1>6. ASSUME NEW a \in Accounts, NEW c
      PROVE  Held(holdings'[a], c) - Held(holdings[a], c)
             = BookedSum(entries', a, c) - BookedSum(entries, a, c)
  <2>1. BookedSum(entries', a, c)
        = BookedSum(entries, a, c) + (IF e.acct = a /\ e.com = c THEN e.units ELSE 0)
    BY <1>1, <1>2, <1>3, BookedMore
  <2>2. BookedSum(entries, a, c) \in Int
    BY <1>2, BookedType
  <2>3. Held(holdings[a], c) \in Int
    BY AddingTypes
  <2>4. Held(holdings'[a], c)
        = Held(holdings[a], c) + (IF p.acct = a /\ p.com = c THEN p.units ELSE 0)
    <3>1. CASE p.acct = a
      <4>1. holdings'[a] = inv
        BY <1>1, <1>2, <3>1
      <4> QED BY <1>4, <3>1, <4>1
    <3>2. CASE p.acct # a
      <4>1. holdings'[a] = holdings[a]
        BY <1>1, <1>2, <3>2
      <4> QED BY <2>3, <3>2, <4>1
    <3> QED BY <3>1, <3>2
  <2> QED BY <1>2, <1>3, <2>1, <2>2, <2>3, <2>4
<1>7. \A a \in Accounts : IsFiniteSet(holdings'[a])
  BY <1>1, <1>2, <1>4 DEF Finite
<1> QED BY <1>5, <1>6, <1>7

\* A reduction begins with nothing consumed, and owes nothing.
LEMMA StartsConsuming ==
    ASSUME TypeOK, NEW p \in Posting, NEW at, NEW group, NEW inferred, NEW back,
           StartReducing(p, at, group, inferred, back)
    PROVE  /\ Consumed' /\ phase' = "take"
           /\ \A a, c : Due(a, c)' = 0
<1>1. /\ job'.posting = p /\ job'.wanted = Size(p.units) /\ job'.steps = <<>>
      /\ job'.candidates = Candidates(holdings[p.acct], p)
      /\ phase' = "take"
  BY DEF StartReducing
<1>2. Size(p.units) \in Nat
  BY SizeIsNat DEF Posting
<1>3. \A q \in Candidates(holdings[p.acct], p) : q.com = p.com
  BY DEF Candidates
<1>4. Total(<<>>) = 0 /\ DOMAIN <<>> = {}
  BY TotalNone
<1>5. Consumed'
  BY <1>1, <1>2, <1>3, <1>4 DEF Consumed
<1>6. \A a, c : Due(a, c)' = 0
  BY <1>1, <1>4 DEF Due, Toward
<1> QED BY <1>1, <1>5, <1>6

\* Steps that move no units.
LEMMA AddingQuiet ==
    ASSUME TypeOK, Placed, Adding, TypeOK',
           phase \in Active, phase # "undo", phase' \in Active, phase' # "undo",
           UNCHANGED <<ledger, i, out, strayed, holdings, entries>>,
           Reducing' => Consumed',
           \A a \in Accounts, c \in Currencies : Due(a, c)' = Due(a, c)
    PROVE  Adding'
<1>1. Finite' /\ strayed \subseteq strayed'
  BY DEF Adding, Finite
<1>2. \A j \in DOMAIN entries' : GivesBack(entries[j])'
  BY DEF Adding, GivesBack
<1>3. ASSUME NEW a \in Accounts, NEW c \in Currencies
      PROVE  Due(a, c)' = Due(a, c)
                          + (Held(holdings'[a], c) - Held(holdings[a], c))
                          - (BookedSum(entries', a, c) - BookedSum(entries, a, c))
  <2>1. Held(holdings[a], c) \in Int /\ Due(a, c) \in Int
    BY AddingTypes, DueType DEF Adding
  <2>2. BookedSum(entries, a, c) \in Int
    BY BookedType DEF TypeOK
  <2> QED BY <2>1, <2>2
<1> QED BY <1>1, <1>2, <1>3, AddingStep

\* A posting that augments moves its own units.
LEMMA AddingAdded ==
    ASSUME TypeOK, Placed, Adding, TypeOK', NEW p \in Posting, NEW lot \in Lot,
           NEW at \in Nat, NEW group \in OptCurrency, NEW inferred \in BOOLEAN,
           Added(p, lot, at, group, inferred),
           phase \in Active, phase # "undo", phase' \in Active, phase' # "undo",
           ~Reducing, ~Reducing', UNCHANGED <<ledger, i, out, strayed>>
    PROVE  Adding'
<1>1. /\ \A a \in Accounts : IsFiniteSet(holdings'[a])
      /\ \A j \in DOMAIN entries' :
            ~entries'[j].reduces \/ (j \in DOMAIN entries /\ entries'[j] = entries[j])
      /\ \A a \in Accounts, c \in Currencies :
            Held(holdings'[a], c) - Held(holdings[a], c)
            = BookedSum(entries', a, c) - BookedSum(entries, a, c)
  BY AddedBalances DEF Adding
<1>2. Finite' /\ strayed \subseteq strayed'
  BY <1>1 DEF Adding, Finite
<1>3. \A j \in DOMAIN entries' : GivesBack(entries[j])'
  BY <1>1 DEF Adding, GivesBack
<1>4. ASSUME NEW a \in Accounts, NEW c \in Currencies
      PROVE  Due(a, c)' = Due(a, c)
                          + (Held(holdings'[a], c) - Held(holdings[a], c))
                          - (BookedSum(entries', a, c) - BookedSum(entries, a, c))
  <2>1. Due(a, c)' = 0 /\ Due(a, c) = 0
    BY DEF Due
  <2>2. entries \in Seq(Entry) /\ entries' \in Seq(Entry)
    BY DEF TypeOK
  <2>3. BookedSum(entries, a, c) \in Int /\ BookedSum(entries', a, c) \in Int
    BY <2>2, BookedType
  <2> QED BY <1>1, <2>1, <2>3
<1> QED BY <1>2, <1>3, <1>4, AddingStep

LEMMA AddingPass1 ==
    ASSUME TypeOK, Placed, Adding, TypeOK', NEW k \in left,
           SetAside(k) \/ Defer(k) \/ Refuse(k) \/ Augment(k) \/ Reduce(k)
    PROVE  Adding'
<1> DEFINE p == ledger[i].postings[k]
<1>1. /\ phase = "pass1" /\ i \in DOMAIN ledger /\ ledger[i] \in Transaction
      /\ k \in DOMAIN ledger[i].postings /\ UNCHANGED walkVars /\ strayed' = strayed
  BY DEF SetAside, Defer, Refuse, Augment, Reduce, Visit, Placed, Active, InPass1
<1>2. p \in Posting /\ Date \in Int
  <2>1. ledger[i].postings \in Seq(Posting) /\ ledger[i].date \in Int
    BY <1>1 DEF Transaction
  <2> QED BY <1>1, <2>1 DEF Date
<1> HIDE DEF p
<1>3. /\ phase \in Active /\ phase # "undo" /\ ~Reducing
      /\ \A a, c : Due(a, c) = 0
  BY <1>1 DEF Active, Reducing, Due
<1>4. CASE SetAside(k) \/ Defer(k) \/ Refuse(k)
  <2>1. phase' = "pass1" /\ UNCHANGED <<holdings, entries>>
    BY <1>1, <1>4 DEF SetAside, Defer, Refuse
  <2>2. ~Reducing' /\ \A a, c : Due(a, c)' = 0
    BY <2>1 DEF Reducing, Due
  <2> QED BY <1>1, <1>3, <2>1, <2>2, AddingQuiet DEF Active, walkVars
<1>5. CASE Augment(k)
  <2> DEFINE lot == ResolveLot(p.cost, p.units, Date)
             group == IF p.cost = None THEN CashKey(p) ELSE p.cost.cur
             at == Len(postings) + 1
  <2>1. /\ Refusal(p) = None /\ ~DoesReduce(p) /\ phase' = "pass1"
        /\ Added(p, lot, at, group, FALSE)
    BY <1>1, <1>5 DEF Augment, p
  <2>2. lot \in Lot
    BY <1>2, <2>1, AugmentsWell
  <2>3. group \in OptCurrency
    BY <1>2 DEF CashKey, Posting, Cost, Price, OptCurrency
  <2>4. at \in Nat
    BY DEF TypeOK
  <2>5. ~Reducing' /\ phase' \in Active /\ phase' # "undo"
    BY <2>1 DEF Reducing, Active
  <2> HIDE DEF lot, group, at
  <2> QED BY <1>1, <1>2, <1>3, <2>1, <2>2, <2>3, <2>4, <2>5, AddingAdded DEF walkVars
<1>6. CASE Reduce(k)
  <2>1. /\ StartReducing(p, Len(postings) + 1, None, FALSE, "pass1")
        /\ UNCHANGED <<holdings, entries>>
    BY <1>6 DEF Reduce, txnVars, p
  <2>2. Consumed' /\ phase' = "take" /\ \A a, c : Due(a, c)' = 0
    BY <1>2, <2>1, StartsConsuming
  <2> QED BY <1>1, <1>3, <2>1, <2>2, AddingQuiet DEF Active, walkVars
<1> QED BY <1>4, <1>5, <1>6

LEMMA AddingResolve ==
    ASSUME TypeOK, Placed, Adding, TypeOK', phase \in {"bidders", "free"},
           NEW u \in unknown, NEW c \in OptCurrency, NEW curs,
           NEW next \in {"bidders", "settle"}, NEW still,
           Resolve(u, c, curs, next, still)
    PROVE  Adding'
<1> DEFINE p == Candidate(postings[u.at], c)
           lot == ResolveLot(p.cost, p.units, Date)
<1>1. /\ Date \in Int /\ u \in Unknown /\ u.at \in DOMAIN postings
      /\ postings \in Seq(Posting) /\ postings[u.at] \in Posting
      /\ weights \in [OptCurrency -> Int]
  BY DEF Placed, Active, Transaction, Date, TypeOK, Unknown
<1>2. p \in Posting
  BY <1>1, CandidateType
<1>3. /\ phase \in Active /\ phase # "undo" /\ ~Reducing /\ next \in Active /\ next # "undo"
      /\ \A a, d : Due(a, d) = 0
  BY DEF Active, Reducing, Due
<1> HIDE DEF p
<1>4. CASE Refusal(p) # None
  <2>1. phase' = next /\ UNCHANGED <<walkVars, strayed, holdings, entries>>
    BY <1>4 DEF Resolve, p
  <2>2. ~Reducing' /\ \A a, d : Due(a, d)' = 0
    BY <2>1 DEF Reducing, Due
  <2> QED BY <1>3, <2>1, <2>2, AddingQuiet DEF walkVars
<1>5. CASE Refusal(p) = None /\ ~DoesReduce(p)
  <2>1. /\ Added(p, lot, u.at, c, TRUE)
        /\ phase' = next /\ UNCHANGED <<walkVars, strayed>>
    BY <1>5 DEF Resolve, p
  <2>2. lot \in Lot /\ u.at \in Nat
    BY <1>1, <1>2, <1>5, AugmentsWell DEF Unknown
  <2>3. ~Reducing'
    BY <2>1 DEF Reducing
  <2> HIDE DEF lot
  <2> DEFINE at == u.at
  <2>4. at \in Nat /\ Added(p, lot, at, c, TRUE)
    BY <2>1, <2>2
  <2> HIDE DEF at
  <2> QED BY <1>2, <1>3, <2>1, <2>2, <2>3, <2>4, AddingAdded DEF walkVars
<1>6. CASE Refusal(p) = None /\ DoesReduce(p)
  <2>1. /\ StartReducing(p, u.at, c, TRUE, next)
        /\ UNCHANGED <<walkVars, strayed, holdings, entries>>
    BY <1>6 DEF Resolve, txnVars, p
  <2>2. Consumed' /\ phase' = "take" /\ \A a, d : Due(a, d)' = 0
    BY <1>2, <2>1, StartsConsuming
  <2> QED BY <1>3, <2>1, <2>2, AddingQuiet DEF Active, walkVars
<1> QED BY <1>4, <1>5, <1>6

\* What is taken from a lot of the other direction is what the posting says.
LEMMA TakesToward ==
    ASSUME NEW units \in Int, NEW own \in Int, NEW wanted \in Int, wanted >= 0, own # 0,
           NEW take, take = (IF wanted >= Size(units) THEN Size(units) ELSE wanted),
           NEW rest, rest = (IF units >= 0 THEN units - take ELSE units + take)
    PROVE  /\ take \in Int /\ take >= 0 /\ take <= wanted /\ rest \in Int
           /\ Sign(units) # Sign(own) => rest - units = IF own < 0 THEN -take ELSE take
<1>1. Size(units) \in Int /\ Size(units) >= 0 /\ (units = 0 => Size(units) = 0)
  BY DEF Size
<1>2. take \in Int /\ take >= 0 /\ take <= wanted /\ (units = 0 => take = 0)
  BY <1>1
<1>3. rest \in Int
  BY <1>2
<1>4. Sign(units) # Sign(own) => (own < 0 /\ units >= 0) \/ (own > 0 /\ units <= 0)
  BY DEF Sign
<1> QED BY <1>2, <1>3, <1>4

LEMMA AddingTake ==
    ASSUME TypeOK, Placed, Adding, TypeOK', phase = "take", NEW q \in job.candidates,
           TakeLot(q)
    PROVE  Adding'
<1> DEFINE p == job.posting
           take == IF job.wanted >= Size(q.units) THEN Size(q.units) ELSE job.wanted
           rest == IF q.units >= 0 THEN q.units - take ELSE q.units + take
           step == [lot |-> q.lot, units |-> take]
           inv == (holdings[p.acct] \ {q}) \cup {[q EXCEPT !.units = rest]}
<1>1. /\ holdings' = [holdings EXCEPT ![p.acct] = inv]
      /\ job' = [job EXCEPT !.candidates = @ \ {q}, !.wanted = @ - take,
                            !.steps = Append(@, step)]
      /\ strayed' = IF Sign(q.units) = Sign(p.units)
                    THEN strayed \cup {<<p.acct, q.com>>} ELSE strayed
      /\ UNCHANGED <<ledger, i, out, entries, phase>>
  BY DEF TakeLot, Strays, walkVars, txnVars
<1>2. /\ job \in Job /\ p \in Posting /\ p.units # 0 /\ q \in holdings[p.acct]
      /\ Consumed /\ Reducing
  BY DEF Adding, Reducing, Placed, JobIsPlaced, Job
<1>3. /\ p.acct \in Accounts /\ p.units \in Int /\ job.wanted \in Int /\ job.wanted >= 0
      /\ job.steps \in Seq(Step) /\ q.com = p.com
  BY <1>2 DEF Posting, Job, Consumed
<1>4. /\ holdings \in [Accounts -> SUBSET Position] /\ q \in Position
      /\ OnePerLot(holdings[p.acct]) /\ IsFiniteSet(holdings[p.acct])
  BY <1>2, <1>3 DEF TypeOK, Adding, Finite
<1>5. q.units \in Int /\ q.lot \in Lot
  BY <1>4 DEF Position
<1>6. /\ take \in Int /\ take >= 0 /\ take <= job.wanted /\ rest \in Int
      /\ Sign(q.units) # Sign(p.units) => rest - q.units = IF p.units < 0 THEN -take ELSE take
  <2> DEFINE units == q.units
             own == p.units
             wanted == job.wanted
  <2>1. /\ units \in Int /\ own \in Int /\ own # 0 /\ wanted \in Int /\ wanted >= 0
        /\ take = (IF wanted >= Size(units) THEN Size(units) ELSE wanted)
        /\ rest = (IF units >= 0 THEN units - take ELSE units + take)
    BY <1>2, <1>3, <1>5
  <2> HIDE DEF units, own, wanted, take, rest
  <2>2. /\ take \in Int /\ take >= 0 /\ take <= wanted /\ rest \in Int
        /\ Sign(units) # Sign(own) => rest - units = IF own < 0 THEN -take ELSE take
    BY <2>1, TakesToward
  <2> QED BY <2>2 DEF units, own, wanted
<1>7. step \in Step /\ step.units = take
  BY <1>5, <1>6 DEF Step
<1> HIDE DEF take, rest, step
<1>8. /\ IsFiniteSet(inv)
      /\ \A c : Held(inv, c) = Held(holdings[p.acct], c)
                               + (IF q.com = c THEN rest - q.units ELSE 0)
  <2> DEFINE own == holdings[p.acct]
  <2>1. own \in SUBSET Position /\ IsFiniteSet(own) /\ OnePerLot(own) /\ q \in own
    BY <1>2, <1>3, <1>4
  <2> HIDE DEF own
  <2>2. ASSUME NEW c
        PROVE  /\ IsFiniteSet((own \ {q}) \cup {[q EXCEPT !.units = rest]})
               /\ Held((own \ {q}) \cup {[q EXCEPT !.units = rest]}, c)
                  = Held(own, c) + (IF q.com = c THEN rest - q.units ELSE 0)
    BY <1>6, <2>1, HeldTake
  <2> QED BY <2>2 DEF own
<1> HIDE DEF inv
<1>9. /\ job'.posting = job.posting /\ job'.candidates = job.candidates \ {q}
      /\ job'.wanted = job.wanted - take /\ job'.steps = Append(job.steps, step)
  BY <1>1, <1>2 DEF Job
<1>10. /\ Total(job.steps) \in Int /\ Total(job'.steps) = Total(job.steps) + take
       /\ \A n \in DOMAIN job'.steps :
             job'.steps[n] = step \/ (n \in DOMAIN job.steps /\ job'.steps[n] = job.steps[n])
  <2>1. Total(job.steps) \in Int /\ Total(job'.steps) = Total(job.steps) + take
    BY <1>3, <1>7, <1>9, SeqFacts, TotalAppend
  <2>2. \A s \in Seq(Step) : \A n \in DOMAIN Append(s, step) :
           Append(s, step)[n] = step \/ (n \in DOMAIN s /\ Append(s, step)[n] = s[n])
    BY <1>7
  <2> QED BY <1>3, <1>9, <2>1, <2>2
<1>11. Consumed'
  <2>1. job'.wanted >= 0
    BY <1>3, <1>6, <1>9
  <2>2. ASSUME NEW n \in DOMAIN job'.steps PROVE job'.steps[n].units >= 0
    <3>1. CASE job'.steps[n] = step
      BY <1>6, <1>7, <3>1
    <3>2. CASE n \in DOMAIN job.steps /\ job'.steps[n] = job.steps[n]
      <4>1. job.steps[n].units >= 0
        BY <1>2, <3>2 DEF Consumed
      <4> QED BY <3>2, <4>1
    <3>3. job'.steps[n] = step \/ (n \in DOMAIN job.steps /\ job'.steps[n] = job.steps[n])
      <4>1. \A m \in DOMAIN job'.steps :
               \/ job'.steps[m] = step
               \/ m \in DOMAIN job.steps /\ job'.steps[m] = job.steps[m]
        BY <1>10
      <4> QED BY <4>1
    <3> QED BY <3>1, <3>2, <3>3
  <2>3. Size(p.units) \in Int /\ Total(job.steps) = Size(p.units) - job.wanted
    <3>1. Size(p.units) \in Int
      BY <1>3, SizeIsNat
    <3>2. Total(job.steps) = Size(p.units) - job.wanted
      BY <1>2 DEF Consumed
    <3> QED BY <3>1, <3>2
  <2>4. Total(job'.steps) = Size(job'.posting.units) - job'.wanted
    <3>1. Total(job.steps) + take = Size(p.units) - (job.wanted - take)
      BY <1>3, <1>6, <1>10, <2>3
    <3> QED BY <1>9, <1>10, <3>1
  <2> QED BY <1>1, <1>2, <1>9, <2>1, <2>2, <2>4 DEF Consumed
<1>12. Finite' /\ strayed \subseteq strayed'
  BY <1>1, <1>4, <1>8 DEF Adding, Finite
<1>13. \A j \in DOMAIN entries' : GivesBack(entries[j])'
  BY <1>1, <1>12 DEF Adding, GivesBack
<1>14. ASSUME NEW a \in Accounts, NEW c \in Currencies, <<a, c>> \notin strayed'
       PROVE  Due(a, c)' = Due(a, c)
                           + (Held(holdings'[a], c) - Held(holdings[a], c))
                           - (BookedSum(entries', a, c) - BookedSum(entries, a, c))
  <2>1. /\ Held(holdings[a], c) \in Int /\ Due(a, c) \in Int
    BY AddingTypes, DueType DEF Adding
  <2>2. BookedSum(entries, a, c) \in Int /\ entries' = entries
    BY <1>1, BookedType DEF TypeOK
  <2>3. CASE p.acct = a /\ p.com = c
    <3>1. rest - q.units = IF p.units < 0 THEN -take ELSE take
      BY <1>1, <1>3, <1>6, <1>14, <2>3
    <3>2. Due(a, c)' = Toward(p, Total(job.steps) + take) /\ Due(a, c) = Toward(p, Total(job.steps))
      BY <1>1, <1>2, <1>9, <1>10, <2>3 DEF Due, Reducing
    <3>3. Due(a, c)' = Due(a, c) + (rest - q.units)
      BY <1>3, <1>6, <1>10, <3>1, <3>2 DEF Toward
    <3>4. Held(holdings'[a], c) = Held(holdings[a], c) + (rest - q.units)
      <4>1. holdings'[a] = inv
        BY <1>1, <1>4, <2>3
      <4> QED BY <1>3, <1>8, <2>3, <4>1
    <3> QED BY <1>5, <1>6, <2>1, <2>2, <3>3, <3>4
  <2>4. CASE ~(p.acct = a /\ p.com = c)
    <3>1. Due(a, c)' = 0 /\ Due(a, c) = 0
      BY <1>9, <2>4 DEF Due
    <3>2. Held(holdings'[a], c) = Held(holdings[a], c)
      <4>1. CASE p.acct = a
        <5>1. holdings'[a] = inv /\ q.com # c
          BY <1>1, <1>3, <1>4, <2>4, <4>1
        <5> QED BY <1>8, <2>1, <4>1, <5>1
      <4>2. CASE p.acct # a
        BY <1>1, <1>4, <4>2
      <4> QED BY <4>1, <4>2
    <3> QED BY <2>1, <2>2, <3>1, <3>2
  <2> QED BY <2>3, <2>4
<1> HIDE DEF p
<1> QED BY <1>1, <1>11, <1>12, <1>13, <1>14, AddingStep DEF Active

LEMMA KeepIsFinite ==
    ASSUME NEW ps, IsFiniteSet(DOMAIN ps)
    PROVE  IsFiniteSet(Keep(ps))
<1> DEFINE f == [k \in DOMAIN ps |-> [txn |-> i, at |-> k, posting |-> ps[k]]]
<1>1. f \in Surjection(DOMAIN ps, Keep(ps))
  BY DEF Surjection, Keep
<1> QED BY <1>1, FS_Surjection

LEMMA AddingEndTaking == TypeOK /\ Placed /\ Adding /\ TypeOK' /\ EndTaking => Adding'
<1> SUFFICES ASSUME TypeOK, Placed, Adding, TypeOK', EndTaking PROVE Adding'
  OBVIOUS
<1> DEFINE p == job.posting
           full == {q \in holdings[p.acct] : q.units # 0}
           several == Len(job.steps) > 1
           halts == several /\ (job.inferred \/ (p.cost # None /\ p.cost.booked))
<1>1. /\ phase = "take" /\ (job.wanted = 0 \/ job.candidates = {})
      /\ holdings' = [holdings EXCEPT ![p.acct] = full]
      /\ job' = [job EXCEPT !.many = several]
      /\ strayed' = IF job.wanted # 0 THEN strayed \cup {OwnPair(p)} ELSE strayed
      /\ phase' = IF halts THEN "error" ELSE "record"
      /\ out' = IF halts THEN out \cup Keep(ledger[i].postings) ELSE out
      /\ UNCHANGED <<ledger, i, entries>>
  BY DEF EndTaking, Strays, OwnPair, txnVars
<1>2. job \in Job /\ Consumed /\ Reducing /\ p.acct \in Accounts
  BY <1>1 DEF Adding, Reducing, Placed, JobIsPlaced, Job, Posting
<1>3. /\ holdings \in [Accounts -> SUBSET Position]
      /\ \A a \in Accounts : holdings[a] \in SUBSET Position /\ IsFiniteSet(holdings[a])
  BY DEF TypeOK, Adding, Finite
<1>4. IsFiniteSet(full) /\ \A c : Held(full, c) = Held(holdings[p.acct], c)
  <2> DEFINE own == holdings[p.acct]
  <2>1. own \in SUBSET Position /\ IsFiniteSet(own)
    BY <1>2, <1>3
  <2> HIDE DEF own
  <2>2. ASSUME NEW c
        PROVE  /\ IsFiniteSet({q \in own : q.units # 0})
               /\ Held({q \in own : q.units # 0}, c) = Held(own, c)
    BY <2>1, HeldFull
  <2> QED BY <2>2 DEF own
<1> HIDE DEF full, several, halts
<1>5. \A a \in Accounts : IsFiniteSet(holdings'[a]) /\ \A c : Held(holdings'[a], c) = Held(holdings[a], c)
  <2> SUFFICES ASSUME NEW a \in Accounts
               PROVE  IsFiniteSet(holdings'[a]) /\ \A c : Held(holdings'[a], c) = Held(holdings[a], c)
    OBVIOUS
  <2>1. CASE a = p.acct
    <3>1. holdings'[a] = full
      BY <1>1, <1>2, <1>3, <2>1
    <3> QED BY <1>4, <2>1, <3>1
  <2>2. CASE a # p.acct
    <3>1. holdings'[a] = holdings[a]
      BY <1>1, <1>3, <2>2
    <3> QED BY <1>3, <3>1
  <2> QED BY <2>1, <2>2
<1>6. strayed \subseteq strayed' /\ \A j \in DOMAIN entries' : GivesBack(entries[j])'
  BY <1>1 DEF Adding, GivesBack
<1>7. CASE halts
  <2>1. IsFiniteSet(DOMAIN ledger[i].postings)
    <3>1. ledger[i].postings \in Seq(Posting)
      BY <1>1 DEF Placed, Active, Transaction
    <3>2. \A s \in Seq(Posting) : DOMAIN s = 1 .. Len(s) /\ Len(s) \in Nat
      OBVIOUS
    <3> QED BY <3>1, <3>2, FS_Interval
  <2>2. IsFiniteSet(out')
    BY <1>1, <1>7, <2>1, KeepIsFinite, FS_Union DEF Adding, Finite
  <2>3. phase' = "error" /\ ~Reducing' /\ Finite'
    BY <1>1, <1>5, <1>7, <2>2 DEF Reducing, Finite
  <2> QED BY <1>6, <2>3 DEF Adding, Earlier, Active
<1>8. CASE ~halts
  <2>1. Finite' /\ phase' = "record" /\ out' = out
    BY <1>1, <1>5, <1>8 DEF Adding, Finite
  <2>2. /\ job'.posting = job.posting /\ job'.candidates = job.candidates
        /\ job'.wanted = job.wanted /\ job'.steps = job.steps
    BY <1>1, <1>2 DEF Job
  <2>3. Consumed'
    <3>1. job.wanted # 0 \/ Total(job.steps) = Size(p.units)
      <4>1. Size(p.units) \in Int
        BY <1>2, SizeIsNat DEF Job, Posting
      <4> QED BY <1>1, <1>2, <4>1 DEF Consumed
    <3>2. OwnPair(job'.posting) \in strayed' \/ Total(job'.steps) = Size(job'.posting.units)
      BY <1>1, <2>2, <3>1
    <3> QED BY <1>2, <2>1, <2>2, <3>2 DEF Consumed
  <2>4. ASSUME NEW a \in Accounts, NEW c \in Currencies
        PROVE  Due(a, c)' = Due(a, c)
                            + (Held(holdings'[a], c) - Held(holdings[a], c))
                            - (BookedSum(entries', a, c) - BookedSum(entries, a, c))
    <3>1. Held(holdings[a], c) \in Int /\ Due(a, c) \in Int
      BY AddingTypes, DueType DEF Adding
    <3>2. BookedSum(entries, a, c) \in Int
      BY BookedType DEF TypeOK
    <3>3. Due(a, c)' = Due(a, c)
      BY <1>2, <2>1, <2>2 DEF Due, Reducing
    <3> QED BY <1>1, <1>5, <3>1, <3>2, <3>3
  <2> QED BY <1>1, <1>6, <2>1, <2>3, <2>4, AddingStep DEF Active
<1> QED BY <1>7, <1>8

LEMMA AddingEndReducing == TypeOK /\ Placed /\ Adding /\ TypeOK' /\ EndReducing => Adding'
<1> SUFFICES ASSUME TypeOK, Placed, Adding, TypeOK', EndReducing PROVE Adding'
  OBVIOUS
<1>1. /\ phase = "record" /\ job.steps = <<>> /\ phase' = job.back
      /\ UNCHANGED <<ledger, i, out, strayed, holdings, entries>>
  BY DEF EndReducing, walkVars, txnVars
<1>2. job.back \in {"pass1", "bidders", "settle"} /\ Total(job.steps) = 0
  BY <1>1, TotalNone DEF Placed, JobIsPlaced
<1>3. ~Reducing' /\ \A a, c : Due(a, c)' = 0 /\ Due(a, c) = 0
  BY <1>1, <1>2 DEF Due, Reducing, Toward
<1> QED BY <1>1, <1>2, <1>3, AddingQuiet DEF Active

LEMMA AddingPass2 ==
    TypeOK /\ Placed /\ Settling /\ Adding /\ TypeOK'
    /\ (BeginPass2 \/ (\E u \in unknown : FailBidders(u) \/ ResolveBidder(u))
        \/ EndBidders \/ FailFree \/ NoneFree
        \/ \E u \in unknown, c \in loose : ResolveFree(u, c))
    => Adding'
<1> SUFFICES ASSUME TypeOK, Placed, Settling, Adding, TypeOK' PROVE
       /\ BeginPass2 \/ EndBidders \/ NoneFree \/ FailFree => Adding'
       /\ (\E u \in unknown : FailBidders(u)) => Adding'
       /\ (\E u \in unknown : ResolveBidder(u)) => Adding'
       /\ (\E u \in unknown, c \in loose : ResolveFree(u, c)) => Adding'
  OBVIOUS
<1>1. ASSUME BeginPass2 \/ EndBidders \/ NoneFree \/ FailFree PROVE Adding'
  <2>1. /\ phase \in {"pass1", "bidders", "free"} /\ phase' \in {"bidders", "free", "settle"}
        /\ UNCHANGED <<ledger, i, out, strayed, holdings, entries>>
    BY <1>1 DEF BeginPass2, EndBidders, NoneFree, FailFree, GiveUp, walkVars, txnVars
  <2>2. ~Reducing' /\ \A a, c : Due(a, c)' = 0 /\ Due(a, c) = 0
    BY <2>1 DEF Due, Reducing
  <2> QED BY <2>1, <2>2, AddingQuiet DEF Active
<1>2. ASSUME NEW u \in unknown, FailBidders(u) PROVE Adding'
  <2>1. /\ phase = "bidders" /\ phase' = "bidders"
        /\ UNCHANGED <<ledger, i, out, strayed, holdings, entries>>
    BY <1>2 DEF FailBidders, GiveUp, walkVars
  <2>2. ~Reducing' /\ \A a, c : Due(a, c)' = 0 /\ Due(a, c) = 0
    BY <2>1 DEF Due, Reducing
  <2> QED BY <2>1, <2>2, AddingQuiet DEF Active
<1>3. ASSUME NEW u \in unknown, ResolveBidder(u) PROVE Adding'
  <2> DEFINE c == u.cur
             still == left \ {u.at}
             curs == {u.cur}
  <2>1. phase = "bidders" /\ Resolve(u, c, curs, "bidders", still)
    BY <1>3 DEF ResolveBidder
  <2>2. c \in OptCurrency
    BY DEF TypeOK, Unknown
  <2> HIDE DEF c, still, curs
  <2> QED BY <2>1, <2>2, AddingResolve
<1>4. ASSUME NEW u \in unknown, NEW c \in loose, ResolveFree(u, c) PROVE Adding'
  <2>1. phase = "free" /\ Resolve(u, c, {c, None}, "settle", {})
    BY <1>4 DEF ResolveFree
  <2>2. c \in OptCurrency
    BY DEF TypeOK
  <2> QED BY <2>1, <2>2, AddingResolve
<1> QED BY <1>1, <1>2, <1>3, <1>4

\* A step of many is recorded as what it consumed, and a single step as the
\* whole posting.
LEMMA AddingRecord ==
    TypeOK /\ Placed /\ EntriesInv /\ Adding /\ TypeOK' /\ RecordStep => Adding'
<1> SUFFICES ASSUME TypeOK, Placed, EntriesInv, Adding, TypeOK', RecordStep PROVE Adding'
  OBVIOUS
<1> DEFINE p == job.posting
           step == Head(job.steps)
           rest == Tail(job.steps)
           q == Reduced(p, step, job.many)
<1>1. /\ phase = "record" /\ job.steps # <<>>
      /\ job' = [job EXCEPT !.steps = rest]
      /\ UNCHANGED <<phase, ledger, i, out, holdings, strayed>>
      /\ \E e : /\ entries' = Append(entries, e) /\ e.acct = p.acct /\ e.com = p.com
                /\ e.units = q.units /\ e.reduces /\ e.taken = step.units
  BY DEF RecordStep, walkVars
<1>2. PICK e : /\ entries' = Append(entries, e) /\ e.acct = p.acct /\ e.com = p.com
               /\ e.units = q.units /\ e.reduces /\ e.taken = step.units
  BY <1>1
<1>3. /\ job \in Job /\ p \in Posting /\ Consumed /\ Reducing /\ JobWaits
      /\ p.units \in Int /\ job.steps \in Seq(Step)
  BY <1>1 DEF Adding, EntriesInv, Reducing, Placed, JobIsPlaced, Job, Posting
<1>4. /\ entries \in Seq(Entry) /\ e \in Entry
      /\ \A j \in DOMAIN entries' :
            entries'[j] = e \/ (j \in DOMAIN entries /\ entries'[j] = entries[j])
  <2>1. entries \in Seq(Entry) /\ entries' \in Seq(Entry)
    BY DEF TypeOK
  <2>2. Len(entries) + 1 \in DOMAIN entries' /\ entries'[Len(entries) + 1] = e
    BY <1>2, <2>1
  <2>3. e \in Entry
    BY <2>1, <2>2
  <2> QED BY <1>2, <2>1, <2>3
<1>5. /\ rest \in Seq(Step) /\ step \in Step /\ step.units \in Int
      /\ Total(job.steps) = step.units + Total(rest) /\ Total(rest) \in Int
  <2>1. /\ rest \in Seq(Step) /\ step \in Step
        /\ Total(job.steps) = step.units + Total(rest)
    BY <1>1, <1>3, TotalTail
  <2> HIDE DEF rest, step
  <2> QED BY <2>1, SeqFacts DEF Step
<1>6. /\ step.units >= 0 /\ \A n \in DOMAIN rest : rest[n].units >= 0
      /\ ~job.many => rest = <<>>
  <2>1. \A s \in Seq(Step) : s # <<>> =>
           /\ 1 \in DOMAIN s /\ Head(s) = s[1]
           /\ \A n \in DOMAIN Tail(s) : n + 1 \in DOMAIN s /\ Tail(s)[n] = s[n + 1]
           /\ Len(s) <= 1 => Tail(s) = <<>>
    OBVIOUS
  <2>2. ~job.many => Len(job.steps) <= 1
    BY <1>1, <1>3 DEF JobWaits
  <2> QED BY <1>1, <1>3, <2>1, <2>2 DEF Consumed
<1> HIDE DEF rest, step
<1>7. OwnPair(p) \in strayed \/ e.units = Toward(p, step.units)
  <2>1. CASE job.many
    <3>1. q.units = Toward(p, step.units)
      BY <1>3, <2>1 DEF Reduced, Child, Toward, Posting
    <3> QED BY <1>2, <3>1
  <2>2. CASE ~job.many /\ OwnPair(p) \notin strayed
    <3>1. Total(job.steps) = Size(p.units)
      BY <1>1, <1>3, <2>2 DEF Consumed
    <3>2. step.units = Size(p.units)
      BY <1>5, <1>6, <2>2, <3>1, TotalNone
    <3>3. q.units = p.units
      BY <1>3, <2>2 DEF Reduced, Posting
    <3> QED BY <1>2, <1>3, <3>2, <3>3 DEF Toward, Size
  <2> QED BY <2>1, <2>2
<1> HIDE DEF q
<1>8. GivesBack(e)
  BY <1>2, <1>5, <1>6, <1>7 DEF GivesBack, OwnPair, Toward
<1>9. /\ job'.posting = job.posting /\ job'.candidates = job.candidates
      /\ job'.wanted = job.wanted /\ job'.steps = rest /\ job'.many = job.many
  BY <1>1, <1>3 DEF Job
<1>10. Consumed'
  BY <1>1, <1>3, <1>6, <1>9 DEF Consumed
<1>11. Finite' /\ strayed \subseteq strayed'
  BY <1>1 DEF Adding, Finite
<1>12. \A j \in DOMAIN entries' : GivesBack(entries[j])'
  BY <1>1, <1>4, <1>8 DEF Adding, GivesBack
<1>13. ASSUME NEW a \in Accounts, NEW c \in Currencies, <<a, c>> \notin strayed'
       PROVE  Due(a, c)' = Due(a, c)
                           + (Held(holdings'[a], c) - Held(holdings[a], c))
                           - (BookedSum(entries', a, c) - BookedSum(entries, a, c))
  <2>1. Held(holdings[a], c) \in Int /\ holdings' = holdings
    BY <1>1, AddingTypes DEF Adding
  <2>2. BookedSum(entries, a, c) \in Int
    BY <1>4, BookedType
  <2>3. BookedSum(entries', a, c)
        = BookedSum(entries, a, c) + (IF e.acct = a /\ e.com = c THEN e.units ELSE 0)
    BY <1>2, <1>4, BookedMore
  <2>4. CASE p.acct = a /\ p.com = c
    <3>1. e.units = Toward(p, step.units)
      BY <1>1, <1>7, <1>13, <2>4 DEF OwnPair
    <3>2. Due(a, c) = Toward(p, Total(job.steps)) /\ Due(a, c)' = Toward(p, Total(rest))
      BY <1>1, <1>3, <1>9, <2>4 DEF Due, Reducing
    <3> QED BY <1>2, <1>5, <2>1, <2>2, <2>3, <2>4, <3>1, <3>2 DEF Toward
  <2>5. CASE ~(p.acct = a /\ p.com = c)
    <3>1. Due(a, c) = 0 /\ Due(a, c)' = 0
      BY <1>9, <2>5 DEF Due
    <3> QED BY <1>2, <2>1, <2>2, <2>3, <2>5, <3>1
  <2> QED BY <2>4, <2>5
<1> HIDE DEF p
<1> QED BY <1>1, <1>10, <1>11, <1>12, <1>13, AddingStep DEF Active

\* The entries that still stand.
LEMMA StandingType ==
    ASSUME TypeOK, NEW a, NEW c
    PROVE  /\ Standing(a, c) \subseteq DOMAIN entries /\ IsFiniteSet(Standing(a, c))
           /\ \A j \in DOMAIN entries : /\ UnitsBooked(entries)[j] = entries[j].units
                                        /\ UnitsBooked(entries)[j] \in Int
           /\ Sum(UnitsBooked(entries), Standing(a, c)) \in Int
<1>1. /\ IsFiniteSet(EntriesOf(entries, a, c)) /\ EntriesOf(entries, a, c) \subseteq DOMAIN entries
      /\ \A j \in DOMAIN entries : /\ UnitsBooked(entries)[j] = entries[j].units
                                   /\ UnitsBooked(entries)[j] \in Int
  BY BookedType DEF TypeOK
<1>2. Standing(a, c) \subseteq EntriesOf(entries, a, c)
  BY DEF Standing
<1>3. IsFiniteSet(Standing(a, c))
  BY <1>1, <1>2, FS_Subset
<1>4. Sum(UnitsBooked(entries), Standing(a, c)) \in Int
  BY <1>1, <1>2, <1>3, SumType
<1> QED BY <1>1, <1>2, <1>3, <1>4

LEMMA AddingSettle == TypeOK /\ Adding /\ Settle => Adding'
<1> SUFFICES ASSUME TypeOK, Adding, Settle PROVE Adding'
  OBVIOUS
<1>1. /\ phase = "settle" /\ phase' = "undo"
      /\ left' = {j \in DOMAIN entries : entries[j].group \in dropped}
      /\ UNCHANGED <<ledger, i, out, strayed, holdings, entries, dropped>>
  BY DEF Settle, walkVars, txnVars
<1>2. Finite' /\ Earlier' /\ ~Reducing'
  BY <1>1 DEF Adding, Finite, Earlier, Reducing, Active
<1>3. /\ \A j \in DOMAIN entries' : GivesBack(entries[j])'
      /\ \A j \in left' : entries'[j].group \in dropped'
  BY <1>1 DEF Adding, GivesBack
<1>4. ASSUME NEW a, NEW c PROVE Balanced(a, c)' <=> Balanced(a, c)
  <2>1. Standing(a, c)' = Standing(a, c)
    BY <1>1 DEF Standing, Stands, EntriesOf
  <2>2. Due(a, c)' = 0 /\ Due(a, c) = 0
    BY <1>1 DEF Due, Reducing
  <2>3. Kept(a, c)' = Kept(a, c)
    BY <1>1 DEF Kept
  <2> QED BY <1>1, <2>1, <2>2, <2>3 DEF Balanced, InProgress, Active
<1> QED BY <1>1, <1>2, <1>3, <1>4 DEF Adding

LEMMA AddingUndo ==
    ASSUME TypeOK, Placed, Adding, NEW j \in left, Undo(j)
    PROVE  Adding'
<1> DEFINE e == entries[j]
           back == Restored(e)
           inv == AddTo(holdings[e.acct], e.com, e.lot, back, clock)
<1>1. /\ phase = "undo" /\ phase' = "undo" /\ holdings' = [holdings EXCEPT ![e.acct] = inv]
      /\ left' = left \ {j}
      /\ strayed' = IF e.reduces /\ e.units > 0 THEN strayed \cup {OwnPair(e)} ELSE strayed
      /\ UNCHANGED <<ledger, i, out, entries, dropped>>
  BY DEF Undo, Strays, OwnPair, walkVars, txnVars
<1>2. /\ j \in DOMAIN entries /\ entries \in Seq(Entry) /\ e \in Entry
      /\ e.group \in dropped
  BY <1>1 DEF Placed, Adding, TypeOK
<1>3. /\ e.acct \in Accounts /\ e.com \in OptCurrency /\ e.lot \in Lot /\ e.units \in Int
      /\ e.taken \in Int /\ e.reduces \in BOOLEAN /\ back \in Int
  BY <1>2 DEF Entry, Restored
<1>4. /\ holdings \in [Accounts -> SUBSET Position]
      /\ \A a \in Accounts : holdings[a] \in SUBSET Position /\ IsFiniteSet(holdings[a])
      /\ OnePerLot(holdings[e.acct]) /\ clock \in Nat
  BY <1>3 DEF TypeOK, Adding, Finite
<1>5. OwnPair(e) \in strayed' \/ back = -e.units
  BY <1>1, <1>2, <1>3 DEF Adding, GivesBack, Restored
<1> HIDE DEF back
<1>6. IsFiniteSet(inv)
      /\ \A c : Held(inv, c) = Held(holdings[e.acct], c) + (IF e.com = c THEN back ELSE 0)
  <2> DEFINE own == holdings[e.acct]
             com == e.com
             lot == e.lot
  <2>1. /\ own \in SUBSET Position /\ IsFiniteSet(own) /\ OnePerLot(own)
        /\ com \in OptCurrency /\ lot \in Lot /\ back \in Int /\ clock \in Nat
    BY <1>3, <1>4
  <2> HIDE DEF own, com, lot
  <2>2. ASSUME NEW c
        PROVE  /\ IsFiniteSet(AddTo(own, com, lot, back, clock))
               /\ Held(AddTo(own, com, lot, back, clock), c)
                  = Held(own, c) + (IF com = c THEN back ELSE 0)
    BY <2>1, HeldAdd
  <2> QED BY <2>2 DEF own, com, lot
<1> HIDE DEF inv, e
<1>7. Finite' /\ Earlier' /\ ~Reducing' /\ strayed \subseteq strayed'
  BY <1>1, <1>4, <1>6 DEF Adding, Finite, Earlier, Reducing, Active
<1>8. /\ \A k \in DOMAIN entries' : GivesBack(entries[k])'
      /\ \A k \in left' : entries'[k].group \in dropped'
  BY <1>1, <1>7 DEF Adding, GivesBack
<1>9. ASSUME NEW a \in Accounts, NEW c \in Currencies, <<a, c>> \notin strayed'
      PROVE  Balanced(a, c)'
  <2>1. /\ Held(holdings[a], c) = Sum(UnitsKept, Kept(a, c)) + Sum(UnitsBooked(entries), Standing(a, c))
        /\ Sum(UnitsKept, Kept(a, c)) \in Int /\ Held(holdings[a], c) \in Int
        /\ Sum(UnitsBooked(entries), Standing(a, c)) \in Int
    <3>1. Balanced(a, c) /\ Due(a, c) = 0
      BY <1>1, <1>7, <1>9 DEF Adding, Due, Reducing
    <3>2. Sum(UnitsKept, Kept(a, c)) \in Int /\ Held(holdings[a], c) \in Int
      BY AddingTypes DEF Adding
    <3>3. Sum(UnitsBooked(entries), Standing(a, c)) \in Int
      BY StandingType
    <3> QED BY <1>1, <3>1, <3>2, <3>3 DEF Balanced, InProgress, Active
  <2>2. Kept(a, c)' = Kept(a, c)
        /\ InProgress(a, c)' = Sum(UnitsBooked(entries), Standing(a, c)') + 0
    <3>1. Due(a, c)' = 0
      BY <1>1 DEF Due, Reducing
    <3> QED BY <1>1, <3>1 DEF Kept, InProgress, Active
  <2>3. CASE e.acct = a /\ e.com = c
    <3>1. back = -e.units
      BY <1>5, <1>9, <2>3 DEF OwnPair
    <3>2. j \in Standing(a, c) /\ Standing(a, c)' = Less(Standing(a, c), j)
      BY <1>1, <1>2, <2>3 DEF Standing, Stands, EntriesOf, Less, e
    <3>3. Sum(UnitsBooked(entries), Standing(a, c))
          = UnitsBooked(entries)[j] + Sum(UnitsBooked(entries), Less(Standing(a, c), j))
      <4> DEFINE S == Standing(a, c)
                 f == UnitsBooked(entries)
      <4>1. IsFiniteSet(S) /\ j \in S /\ \A k \in S : f[k] \in Int
        BY <3>2, StandingType
      <4> HIDE DEF S, f
      <4>2. Sum(f, S) = f[j] + Sum(f, Less(S, j))
        BY <4>1, SumLess
      <4> QED BY <4>2 DEF S, f
    <3>4. UnitsBooked(entries)[j] = e.units
      BY <1>2, StandingType DEF e
    <3>5. Sum(UnitsBooked(entries), Less(Standing(a, c), j)) \in Int
      <4> DEFINE S == Less(Standing(a, c), j)
                 f == UnitsBooked(entries)
      <4>1. S \subseteq Standing(a, c) /\ \A k \in S : f[k] \in Int
        BY StandingType DEF Less
      <4>2. IsFiniteSet(Standing(a, c))
        BY StandingType
      <4>3. IsFiniteSet(S)
        BY <4>1, <4>2, FS_Subset
      <4> HIDE DEF S, f
      <4>4. Sum(f, S) \in Int
        BY <4>1, <4>3, SumType
      <4> QED BY <4>4 DEF S, f
    <3>6. Held(holdings'[a], c) = Held(holdings[a], c) + back
      <4>1. holdings'[a] = inv
        BY <1>1, <1>4, <2>3
      <4> QED BY <1>6, <2>3, <4>1
    <3> QED BY <1>3, <2>1, <2>2, <3>1, <3>2, <3>3, <3>4, <3>5, <3>6 DEF Balanced
  <2>4. CASE ~(e.acct = a /\ e.com = c)
    <3>1. Standing(a, c)' = Standing(a, c)
      BY <1>1, <1>2, <2>4 DEF Standing, Stands, EntriesOf, e
    <3>2. Held(holdings'[a], c) = Held(holdings[a], c)
      <4>1. CASE e.acct = a
        <5>1. holdings'[a] = inv /\ e.com # c
          BY <1>1, <1>4, <2>4, <4>1
        <5> QED BY <1>6, <2>1, <4>1, <5>1
      <4>2. CASE e.acct # a
        BY <1>1, <1>4, <4>2
      <4> QED BY <4>1, <4>2
    <3> QED BY <2>1, <2>2, <3>1, <3>2 DEF Balanced
  <2> QED BY <2>3, <2>4
<1> QED BY <1>1, <1>7, <1>8, <1>9 DEF Adding

\* A transaction keeps the postings of the entries that stand: an unknown that
\* stays was booked.
LEMMA KeepsTheStanding ==
    ASSUME TypeOK, Settling, EntriesInv, phase = "undo", left = {}, NEW k \in Survivors
    PROVE  \E j \in DOMAIN entries : entries[j].at = k /\ entries[j].group \notin dropped
<1>1. ASSUME NEW e \in Range(entries), e.at = k, e.group \notin dropped
      PROVE  \E j \in DOMAIN entries : entries[j].at = k /\ entries[j].group \notin dropped
  BY <1>1 DEF Range
<1>2. ASSUME NEW u \in unknown, u.at = k, u.cur \notin dropped
      PROVE  \E j \in DOMAIN entries : entries[j].at = k /\ entries[j].group \notin dropped
  <2>1. Over(u)
    BY DEF Settling, UnknownInv, InJob, Reducing
  <2>2. HasEntry(entries, u.at)
    BY <1>2, <2>1 DEF Over
  <2>3. PICK j \in DOMAIN entries : entries[j].at = u.at
    BY <2>2 DEF HasEntry
  <2>4. u.cur = entries[j].group
    BY <2>3 DEF EntriesInv, Books, Owned
  <2> QED BY <1>2, <2>3, <2>4
<1> QED BY <1>1, <1>2 DEF Survivors

LEMMA AddingCommit ==
    ASSUME TypeOK, Placed, Settling, EntriesInv, Adding, TypeOK', Commit
    PROVE  Adding'
<1> DEFINE stays == Restrict(postings, Survivors)
           record == [k \in Survivors |-> [txn |-> i, at |-> k, posting |-> postings[k]]]
<1>1. /\ phase = "undo" /\ left = {} /\ phase' = "walk" /\ i' = i + 1
      /\ out' = out \cup Keep(stays)
      /\ UNCHANGED <<ledger, strayed, holdings, entries>>
  BY DEF Commit, txnVars
<1>2. /\ Survivors \subseteq DOMAIN postings /\ DOMAIN stays = Survivors
      /\ \A k \in Survivors : stays[k] = postings[k]
  BY DEF Survivors, Restrict
<1>3. postings \in Seq(Posting) /\ entries \in Seq(Entry) /\ i \in Nat
  BY DEF TypeOK
<1>4. /\ \A k \in Survivors : /\ record[k] \in Keep(stays) /\ record[k].txn = i
                              /\ record[k].at = k /\ record[k].posting = postings[k]
      /\ \A r \in Keep(stays) : \E k \in Survivors : r = record[k]
  BY <1>2 DEF Keep
<1> HIDE DEF stays, record
<1>5. IsFiniteSet(Keep(stays))
  <2>1. DOMAIN postings = 1 .. Len(postings) /\ Len(postings) \in Nat
    BY <1>3
  <2>2. IsFiniteSet(DOMAIN postings)
    BY <2>1, FS_Interval
  <2>3. IsFiniteSet(Survivors)
    BY <1>2, <2>2, FS_Subset
  <2> QED BY <1>2, <2>3, KeepIsFinite
<1>6. Finite' /\ ~Reducing'
  BY <1>1, <1>5, FS_Union DEF Adding, Finite, Reducing
<1>7. Earlier'
  <2>1. \A r \in out : r.txn < i /\ r.txn \in Nat
    BY <1>1 DEF Adding, Earlier, TypeOK
  <2>2. \A r \in Keep(stays) : r.txn = i
    BY <1>4
  <2>3. \A r \in out' : r.txn < i + 1
    <3> SUFFICES ASSUME NEW r \in out' PROVE r.txn < i + 1
      OBVIOUS
    <3>1. CASE r \in out
      BY <1>3, <2>1, <3>1
    <3>2. CASE r \in Keep(stays)
      BY <1>3, <2>2, <3>2
    <3> QED BY <1>1, <3>1, <3>2
  <2> QED BY <1>1, <2>3 DEF Earlier, Active
<1>8. \A j \in DOMAIN entries' : GivesBack(entries[j])'
  BY <1>1 DEF Adding, GivesBack
<1>9. ASSUME NEW a \in Accounts, NEW c \in Currencies, <<a, c>> \notin strayed
      PROVE  Balanced(a, c)'
  <2> DEFINE S == Standing(a, c)
             f == UnitsBooked(entries)
             R == {r \in Keep(stays) : r.posting.acct = a /\ r.posting.com = c}
             to == [j \in S |-> record[entries[j].at]]
  <2>1. /\ Held(holdings[a], c) = Sum(UnitsKept, Kept(a, c)) + Sum(f, S)
        /\ IsFiniteSet(Kept(a, c)) /\ Kept(a, c) \subseteq out
        /\ IsFiniteSet(S) /\ \A j \in S : f[j] \in Int /\ f[j] = entries[j].units
    <3>1. Balanced(a, c) /\ Due(a, c) = 0
      BY <1>1, <1>9 DEF Adding, Due, Reducing
    <3>2. IsFiniteSet(Kept(a, c)) /\ Kept(a, c) \subseteq out
      BY AddingTypes DEF Adding, Kept
    <3>3. /\ IsFiniteSet(S) /\ \A j \in S : f[j] \in Int /\ f[j] = entries[j].units
          /\ Sum(f, S) \in Int
      BY StandingType
    <3> QED BY <1>1, <3>1, <3>2, <3>3 DEF Balanced, InProgress, Active
  <2>2. Kept(a, c)' = Kept(a, c) \cup R /\ \A r \in R : r \notin Kept(a, c)
    <3>1. \A r \in Keep(stays) : r.txn = i
      BY <1>4
    <3>2. StructureFinding(ledger[i].postings) = None /\ \A r \in out : r.txn # i
      <4>1. \A r \in out : r.txn < i /\ r.txn \in Nat
        BY <1>1 DEF Adding, Earlier, TypeOK
      <4>2. StructureFinding(ledger[i].postings) = None
        BY <1>1 DEF Adding, Earlier, Active
      <4> QED BY <1>3, <4>1, <4>2
    <3> QED BY <1>1, <3>1, <3>2 DEF Kept
  <2>3. \A j \in S : /\ entries[j].at \in Survivors
                     /\ Posts(entries[j], postings[entries[j].at])
                     /\ entries[j].acct = a /\ entries[j].com = c
    <3> SUFFICES ASSUME NEW j \in S
                 PROVE  /\ entries[j].at \in Survivors
                        /\ Posts(entries[j], postings[entries[j].at])
                        /\ entries[j].acct = a /\ entries[j].com = c
      OBVIOUS
    <3>1. /\ j \in DOMAIN entries /\ entries[j].group \notin dropped
          /\ entries[j].acct = a /\ entries[j].com = c
      BY <1>1 DEF Standing, Stands, EntriesOf
    <3>2. Posts(entries[j], postings[entries[j].at]) /\ entries[j].at \in DOMAIN postings
      BY <3>1 DEF EntriesInv, Books, EntriesPost, Settling, PostingsInv
    <3>3. entries[j] \in Range(entries)
      BY <3>1 DEF Range
    <3> QED BY <3>1, <3>2, <3>3 DEF Survivors
  <2>4. \A k \in Survivors : postings[k].acct = a /\ postings[k].com = c
                             => \E j \in S : entries[j].at = k
    <3> SUFFICES ASSUME NEW k \in Survivors, postings[k].acct = a, postings[k].com = c
                 PROVE  \E j \in S : entries[j].at = k
      OBVIOUS
    <3>1. PICK j \in DOMAIN entries : entries[j].at = k /\ entries[j].group \notin dropped
      BY <1>1, KeepsTheStanding
    <3>2. Posts(entries[j], postings[k])
      BY <3>1 DEF EntriesInv, Books, EntriesPost
    <3>3. j \in S
      BY <1>1, <3>1, <3>2 DEF Standing, Stands, EntriesOf, Posts
    <3> QED BY <3>1, <3>3
  <2>5. /\ R \subseteq Keep(stays) /\ R \subseteq Record
        /\ \A r \in Record : UnitsKept[r] = r.posting.units /\ UnitsKept[r] \in Int
    <3>1. Keep(stays) \subseteq Record
      BY <1>1, <1>3 DEF TypeOK, Record
    <3> QED BY <3>1, AddingTypes DEF Adding
  <2>6. Matched(f, UnitsKept, S, R, to)
    <3>1. \A j \in S : to[j] = record[entries[j].at]
      OBVIOUS
    <3>2. \A j \in S : to[j] \in R /\ UnitsKept[to[j]] = f[j]
      <4> SUFFICES ASSUME NEW j \in S PROVE to[j] \in R /\ UnitsKept[to[j]] = f[j]
        OBVIOUS
      <4>1. /\ to[j] \in Keep(stays) /\ to[j].posting = postings[entries[j].at]
        BY <1>4, <2>3, <3>1
      <4>2. to[j] \in R
        BY <2>3, <4>1 DEF Posts
      <4>3. UnitsKept[to[j]] = to[j].posting.units
        BY <2>5, <4>2
      <4> QED BY <2>1, <2>3, <4>1, <4>2, <4>3 DEF Posts
    <3>3. \A j, k \in S : to[j] = to[k] => j = k
      <4>1. \A j \in S : to[j].at = entries[j].at /\ j \in DOMAIN entries
        BY <1>4, <2>3, <3>1, StandingType
      <4> QED BY <4>1 DEF EntriesInv, Books, DistinctAts
    <3>4. \A r \in R : \E j \in S : to[j] = r
      <4> SUFFICES ASSUME NEW r \in R PROVE \E j \in S : to[j] = r
        OBVIOUS
      <4>1. PICK k \in Survivors : r = record[k]
        BY <1>4
      <4>2. postings[k].acct = a /\ postings[k].com = c
        BY <1>4, <4>1
      <4> QED BY <2>4, <3>1, <4>1, <4>2
    <3> HIDE DEF to, R, S, f
    <3> QED BY <3>2, <3>3, <3>4 DEF Matched
  <2>7. IsFiniteSet(R)
    BY <1>5, <2>5, FS_Subset
  <2> HIDE DEF S, f, R, to
  <2>8. Sum(f, S) = Sum(UnitsKept, R)
    BY <2>1, <2>6, <2>7, SumMatched
  <2>9. Sum(UnitsKept, Kept(a, c) \cup R) = Sum(UnitsKept, Kept(a, c)) + Sum(UnitsKept, R)
    <3> DEFINE K == Kept(a, c)
    <3>1. IsFiniteSet(K) /\ \A r \in K \cup R : UnitsKept[r] \in Int
      BY <2>1, <2>5, AddingTypes DEF Adding
    <3>2. \A r \in R : r \notin K
      BY <2>2
    <3> HIDE DEF K
    <3>3. Sum(UnitsKept, K \cup R) = Sum(UnitsKept, K) + Sum(UnitsKept, R)
      BY <2>7, <3>1, <3>2, SumOfBoth
    <3> QED BY <3>3 DEF K
  <2>10. InProgress(a, c)' = 0 /\ Held(holdings'[a], c) = Held(holdings[a], c)
    BY <1>1 DEF InProgress, Active
  <2>11. Sum(UnitsKept, Kept(a, c)) \in Int /\ Sum(f, S) \in Int
    BY <2>1, AddingTypes, StandingType DEF Adding, S, f
  <2> QED BY <2>1, <2>2, <2>8, <2>9, <2>10, <2>11 DEF Balanced
<1> QED BY <1>1, <1>6, <1>7, <1>8, <1>9 DEF Adding

LEMMA AddingBetween ==
    TypeOK /\ Adding
    /\ (PassThrough \/ RejectTransaction \/ BeginTransaction \/ Return \/ UNCHANGED vars)
    => Adding'
<1> SUFFICES ASSUME TypeOK, Adding,
                    PassThrough \/ RejectTransaction \/ BeginTransaction \/ Return
                    \/ UNCHANGED vars
             PROVE  Adding'
  OBVIOUS
<1>1. CASE UNCHANGED vars
  <2>1. \A a, c : Kept(a, c)' = Kept(a, c)
    BY <1>1 DEF Kept, vars, walkVars
  <2>2. \A a, c : InProgress(a, c)' = InProgress(a, c)
    BY <1>1 DEF InProgress, Due, Reducing, Standing, Stands, EntriesOf, vars, walkVars, txnVars
  <2>3. Finite' /\ Earlier' /\ (Reducing' => Consumed')
    BY <1>1 DEF Adding, Finite, Earlier, Reducing, Consumed, vars, walkVars
  <2> QED BY <1>1, <2>1, <2>2, <2>3 DEF Adding, Balanced, GivesBack, vars, walkVars, txnVars
<1>2. CASE PassThrough \/ Return
  <2>1. /\ phase = "walk" /\ phase' \in {"walk", "done"}
        /\ UNCHANGED <<ledger, out, holdings, entries, strayed>>
        /\ i' = i \/ i' = i + 1
    BY <1>2 DEF PassThrough, Return, walkVars, txnVars
  <2>2. \A r \in out : r.txn < i /\ r.txn \in Nat /\ i \in Nat
    BY <2>1 DEF Adding, Earlier, TypeOK
  <2>3. Finite' /\ Earlier' /\ ~Reducing'
    BY <2>1, <2>2 DEF Adding, Finite, Earlier, Reducing, Active
  <2>4. \A a, c : /\ Kept(a, c)' = Kept(a, c) /\ InProgress(a, c)' = 0
                  /\ InProgress(a, c) = 0
    BY <2>1 DEF Kept, InProgress, Active
  <2> QED BY <2>1, <2>3, <2>4 DEF Adding, Balanced, GivesBack
<1>3. CASE RejectTransaction
  <2>1. /\ phase = "walk" /\ phase' = "walk" /\ i' = i + 1
        /\ i \in DOMAIN ledger /\ ledger[i] \in Transaction
        /\ StructureFinding(ledger[i].postings) # None
        /\ out' = out \cup Keep(ledger[i].postings)
        /\ UNCHANGED <<ledger, holdings, entries, strayed>>
    <3>1. i \in DOMAIN ledger /\ ledger[i] \in Directive
      BY <1>3 DEF TypeOK, RejectTransaction
    <3>2. ledger[i] \in Transaction
      BY <1>3, <3>1, Transactions DEF RejectTransaction
    <3> QED BY <1>3, <3>1, <3>2 DEF RejectTransaction, txnVars
  <2>2. /\ \A r \in Keep(ledger[i].postings) : r.txn = i
        /\ IsFiniteSet(Keep(ledger[i].postings))
    <3>1. ledger[i].postings \in Seq(Posting)
      BY <2>1 DEF Transaction
    <3>2. \A s \in Seq(Posting) : DOMAIN s = 1 .. Len(s) /\ Len(s) \in Nat
      OBVIOUS
    <3>3. IsFiniteSet(DOMAIN ledger[i].postings)
      BY <3>1, <3>2, FS_Interval
    <3>4. \A r \in Keep(ledger[i].postings) : r.txn = i
      BY DEF Keep
    <3> QED BY <3>3, <3>4, KeepIsFinite
  <2>3. Earlier'
    <3>1. \A r \in out : r.txn < i /\ r.txn \in Nat /\ i \in Nat
      BY <2>1 DEF Adding, Earlier, TypeOK
    <3>2. i \in Nat
      BY DEF TypeOK
    <3>3. \A r \in out' : r.txn < i + 1
      <4> SUFFICES ASSUME NEW r \in out' PROVE r.txn < i + 1
        OBVIOUS
      <4>1. CASE r \in out
        BY <3>1, <4>1
      <4>2. CASE r \in Keep(ledger[i].postings)
        BY <2>2, <3>2, <4>2
      <4> QED BY <2>1, <4>1, <4>2
    <3> QED BY <2>1, <3>3 DEF Earlier, Active
  <2>4. Finite' /\ ~Reducing'
    BY <2>1, <2>2, FS_Union DEF Adding, Finite, Reducing
  <2>5. \A a, c : Kept(a, c)' = Kept(a, c)
    BY <2>1, <2>2 DEF Kept
  <2>6. \A a, c : InProgress(a, c)' = 0 /\ InProgress(a, c) = 0
    BY <2>1 DEF InProgress, Active
  <2> QED BY <2>1, <2>3, <2>4, <2>5, <2>6 DEF Adding, Balanced, GivesBack
<1>4. CASE BeginTransaction
  <2>1. /\ phase = "walk" /\ phase' = "pass1" /\ entries' = <<>>
        /\ StructureFinding(ledger[i].postings) = None
        /\ UNCHANGED <<ledger, i, out, holdings, strayed>>
    BY <1>4 DEF BeginTransaction
  <2>2. Finite' /\ Earlier' /\ ~Reducing' /\ DOMAIN entries' = {}
    BY <2>1 DEF Adding, Finite, Earlier, Reducing
  <2>3. ASSUME NEW a, NEW c
        PROVE  /\ Kept(a, c)' = Kept(a, c)
               /\ InProgress(a, c) = 0 /\ InProgress(a, c)' = 0
    <3>1. Standing(a, c)' = {} /\ Due(a, c)' = 0
      BY <2>1, <2>2 DEF Standing, EntriesOf, Due, Reducing
    <3>2. Sum(UnitsBooked(entries'), {}) = 0
      BY SumEmpty
    <3> QED BY <2>1, <3>1, <3>2 DEF Kept, InProgress, Active
  <2>4. \A a, c : Balanced(a, c)' <=> Balanced(a, c)
    BY <2>1, <2>3 DEF Balanced
  <2> QED BY <2>1, <2>2, <2>4 DEF Adding
<1> QED BY <1>1, <1>2, <1>3, <1>4

\* Everything so far is inductive.
LEMMA InitAdding == Init => Settling /\ EntriesInv /\ Adding
<1> SUFFICES ASSUME Init PROVE Settling /\ EntriesInv /\ Adding
  OBVIOUS
<1>1. Settling
  BY DEF Init, Settling, LotsInv, PostingsInv, UnknownInv, InPhase, Reducing,
         NothingUnresolved, OptCurrency
<1>2. EntriesInv
  BY DEF Init, EntriesInv, InPhase, Reducing, Books, DistinctAts, EntriesPost, Owned
<1>3. Adding
  <2>1. /\ phase = "walk" /\ out = {} /\ DOMAIN entries = {}
        /\ \A a \in Accounts : holdings[a] = {}
    BY DEF Init
  <2>2. Finite /\ Earlier /\ ~Reducing
    BY <2>1, FS_EmptySet DEF Finite, Earlier, Reducing, Active
  <2>3. ASSUME NEW a \in Accounts, NEW c PROVE Balanced(a, c)
    <3>1. Of(holdings[a], c) = {} /\ Kept(a, c) = {} /\ InProgress(a, c) = 0
      BY <2>1 DEF Of, Kept, InProgress, Active
    <3> QED BY <3>1, SumEmpty DEF Balanced, Held
  <2> QED BY <2>1, <2>2, <2>3 DEF Adding
<1> QED BY <1>1, <1>2, <1>3

LEMMA NextAdding ==
    TypeOK /\ Placed /\ Settling /\ EntriesInv /\ Adding /\ TypeOK' /\ [Next]_vars
    => Settling' /\ EntriesInv' /\ Adding'
<1> SUFFICES ASSUME TypeOK, Placed, Settling, EntriesInv, Adding, TypeOK', [Next]_vars
             PROVE  Settling' /\ EntriesInv' /\ Adding'
  OBVIOUS
<1>1. Settling'
  BY SettlingBetween, SettlingPass1, SettlingTake, SettlingEndTaking, SettlingRecord,
     SettlingEndReducing, SettlingPass2, SettlingFinalize DEF Next, Returned
<1>2. EntriesInv'
  BY PostedPass1, PostedTaking, PostedRecord, PostedEndReducing, PostedPass2, PostedElse
     DEF Next, Returned
<1>3. Adding'
  BY AddingPass1, AddingTake, AddingEndTaking, AddingRecord, AddingEndReducing,
     AddingPass2, AddingSettle, AddingUndo, AddingCommit, AddingBetween DEF Next, Returned
<1> QED BY <1>1, <1>2, <1>3

\* Between transactions every account holds what its booked postings add up to,
\* after any number of reductions, dropped groups and rollbacks, except where the
\* code strays.
THEOREM AddUp == Spec => []HoldingsAddUp
<1> DEFINE IInv == TypeOK /\ Placed /\ Settling /\ EntriesInv /\ Adding
<1>1. Init => IInv
  BY InitPlaced, InitAdding
<1>2. IInv /\ [Next]_vars => IInv'
  BY NextPlaced, NextAdding
<1>3. IInv => HoldingsAddUp
  <2> SUFFICES ASSUME IInv, phase \in {"walk", "done"}, NEW a \in Accounts,
                      NEW c \in Currencies, <<a, c>> \notin strayed
               PROVE  MapThenSumSet(LAMBDA q : q.units, {q \in holdings[a] : q.com = c})
                      = MapThenSumSet(LAMBDA r : r.posting.units,
                            {r \in out : /\ r.posting.acct = a /\ r.posting.com = c
                                         /\ StructureFinding(ledger[r.txn].postings) = None})
    BY DEF HoldingsAddUp
  <2>1. Balanced(a, c) /\ InProgress(a, c) = 0
    BY DEF Adding, InProgress, Active
  <2>2. /\ Of(holdings[a], c) \in SUBSET Position /\ IsFiniteSet(Of(holdings[a], c))
        /\ Kept(a, c) \in SUBSET Record /\ IsFiniteSet(Kept(a, c))
        /\ Sum(UnitsKept, Kept(a, c)) \in Int
    <3>1. holdings[a] \in SUBSET Position /\ IsFiniteSet(holdings[a])
      BY DEF TypeOK, Adding, Finite
    <3>2. Of(holdings[a], c) \in SUBSET Position /\ IsFiniteSet(Of(holdings[a], c))
      BY <3>1, FS_Subset DEF Of
    <3> QED BY <3>2, AddingTypes DEF Adding
  <2>3. Sum(UnitsHeld, Of(holdings[a], c)) = Sum(UnitsKept, Kept(a, c))
    BY <2>1, <2>2 DEF Balanced, Held
  <2> DEFINE H == Of(holdings[a], c)
             K == Kept(a, c)
  <2>4. /\ H = {q \in holdings[a] : q.com = c}
        /\ K = {r \in out : /\ r.posting.acct = a /\ r.posting.com = c
                            /\ StructureFinding(ledger[r.txn].postings) = None}
    BY DEF Of, Kept
  <2> HIDE DEF H, K
  <2>5. MapThenSumSet(LAMBDA q : q.units, H) = Sum(UnitsHeld, H)
    BY <2>2, SumOfHeld DEF H
  <2>6. MapThenSumSet(LAMBDA r : r.posting.units, K) = Sum(UnitsKept, K)
    BY <2>2, SumOfKept DEF K
  <2> QED BY <2>3, <2>4, <2>5, <2>6 DEF H, K
<1> QED BY <1>1, <1>2, <1>3, PTL DEF Spec
-----------------------------------------------------------------------------
(* Currency groups: what pass 1 booked in a currency is its weight, and    *)
(* pass 2 infers at most one posting in each, which takes what is missing. *)

WeightsBooked(es, ps) == [j \in DOMAIN es |-> Weight(ps[es[j].at]).num]
Plain(es, c) == {j \in DOMAIN es : es[j].group = c /\ ~es[j].inferred}
PlainSum(es, ps, c) == Sum(WeightsBooked(es, ps), Plain(es, c))
Weighing ==
    /\ \A j \in DOMAIN entries :
          entries[j].inferred \/ Weight(postings[entries[j].at]).cur = entries[j].group
    /\ \A c \in OptCurrency : weights[c] = PlainSum(entries, postings, c)

\* No posting was inferred in currency c; at most one is.
Uninferred(es, c) == \A j \in DOMAIN es : es[j].inferred => es[j].group # c
OnePerGroup ==
    \A j, k \in DOMAIN entries :
        entries[j].inferred /\ entries[k].inferred /\ entries[j].group = entries[k].group
        => j = k

\* The entry e of posting p takes a residual of w, or is one of the exceptions.
Balances(e, p, w) ==
    \/ MovesWeight(e)
    \/ p.cost # None /\ Sign(e.units) = Sign(w)
    \/ Weight(p).num = -w
AllBalance ==
    \A j \in DOMAIN entries : entries[j].inferred =>
        Balances(entries[j], postings[entries[j].at], weights[entries[j].group])
EntriesWeigh == Weighing /\ OnePerGroup /\ AllBalance

BareAuto(p) == p.auto => p.cost = None /\ p.price = None
BareAutos == \A k \in DOMAIN postings : BareAuto(postings[k])

\* A reduction with an inferred amount takes the residual unless it finds a lot,
\* one with an inferred cost always finds one.
JobTakes ==
    \/ job.posting.cost = None /\ Weight(job.posting).num = -weights[job.group]
    \/ job.posting.cost # None /\ ~job.posting.cost.booked /\ ~Matches(job.posting, Cash)
JobBalances ==
    /\ phase = "record" /\ job.many => ~job.inferred
    /\ job.inferred => JobTakes
    /\ job.inferred /\ (phase = "take" \/ job.steps # <<>>) => Uninferred(entries, job.group)

\* Whose turn is still to come has its currency to itself.
Turns ==
    /\ InPhase("bidders") =>
           \A u \in unknown : u.at \in left =>
              /\ Uninferred(entries, u.cur) /\ u.cur \notin loose
              /\ Reducing => u.cur # job.group
    /\ InPhase("bidders") \/ phase = "free" =>
           \A c \in loose : Uninferred(entries, c) /\ (Reducing => job.group # c)

Inferring == EntriesWeigh /\ BareAutos /\ (Reducing => JobBalances) /\ Turns

\* In which currency a posting weighs is the group of its entry.
LEMMA AugmentedCost ==
    ASSUME NEW c \in Cost, NEW lot \in Lot, lot.cur = c.cur
    PROVE  /\ AugmentCostFor(c, lot) \in Cost /\ AugmentCostFor(c, lot) # None
           /\ AugmentCostFor(c, lot).booked /\ AugmentCostFor(c, lot).cur = c.cur
           /\ ~c.booked => /\ AugmentCostFor(c, lot).per = c.per
                           /\ AugmentCostFor(c, lot).total = c.total
<1>1. c # None
  BY NoneIsNoValue
<1>2. CASE c.booked
  BY <1>1, <1>2 DEF AugmentCostFor
<1>3. CASE ~c.booked
  <2> DEFINE cost == [ToCost(lot) EXCEPT !.per = c.per, !.total = c.total]
  <2>1. AugmentCostFor(c, lot) = cost
    BY <1>1, <1>3 DEF AugmentCostFor
  <2>2. cost \in Cost
    BY ToCostType DEF Cost
  <2>3. cost.booked /\ cost.cur = lot.cur /\ cost.per = c.per /\ cost.total = c.total
    BY DEF ToCost
  <2> HIDE DEF cost
  <2> QED BY <2>1, <2>2, <2>3, NoneIsNoValue
<1> QED BY <1>2, <1>3

LEMMA AugmentedWeighs ==
    ASSUME NEW p \in Posting, NEW date \in Int, LotFinding(p.cost, p.units) = None
    PROVE  Weight([p EXCEPT !.cost = AugmentCostFor(p.cost, ResolveLot(p.cost, p.units, date))]).cur
           = IF p.cost = None THEN CashKey(p) ELSE p.cost.cur
<1> DEFINE lot == ResolveLot(p.cost, p.units, date)
           cost == AugmentCostFor(p.cost, lot)
           q == [p EXCEPT !.cost = cost]
<1>1. q.cost = cost /\ q.price = p.price /\ q.com = p.com
  BY DEF Posting
<1> DEFINE key == IF p.cost = None THEN CashKey(p) ELSE p.cost.cur
<1>2. CASE p.cost = None
  <2>1. cost = None
    BY <1>2 DEF AugmentCostFor
  <2> HIDE DEF cost, q
  <2>2. Weight(q).cur = key
    BY <1>1, <1>2, <2>1 DEF Weight, CashKey
  <2> QED BY <2>2 DEF q, cost, key
<1>3. CASE p.cost # None
  <2>1. p.cost \in Cost /\ p.units \in Int
    BY <1>3 DEF Posting
  <2>2. lot \in Lot
    BY <2>1, ResolveLotType
  <2>3. lot.cur = p.cost.cur
    BY <1>3 DEF ResolveLot
  <2> HIDE DEF lot
  <2>4. cost # None /\ cost.booked /\ cost.cur = p.cost.cur
    BY <2>1, <2>2, <2>3, AugmentedCost
  <2> HIDE DEF cost, q
  <2>5. Weight(q).cur = key
    BY <1>1, <1>3, <2>4 DEF Weight
  <2> QED BY <2>5 DEF q, cost, lot, key
<1> QED BY <1>2, <1>3

LEMMA ReducedWeighs ==
    ASSUME NEW p \in Posting, ~p.auto, Written(p), NEW step \in Step,
           Fits(p, step.lot), NEW many \in BOOLEAN
    PROVE  Weight(Reduced(p, step, many)).cur = ReductionKey(p, step, many)
<1> DEFINE cost == ToCost(step.lot)
<1>1. cost # None /\ cost.booked /\ cost.cur = step.lot.cur
  <2>1. step.lot \in Lot
    BY DEF Step
  <2> QED BY <2>1, ToCostType DEF ToCost
<1>2. \A x : x.cost = cost => Weight(x).cur = step.lot.cur
  <2> HIDE DEF cost
  <2> QED BY <1>1 DEF Weight
<1>3. CASE many
  <2>1. Child(p, step).cost = cost
    BY DEF Child, Posting
  <2> QED BY <1>2, <1>3, <2>1 DEF Reduced, ReductionKey
<1>4. CASE ~many /\ p.cost # None /\ p.cost.booked
  BY <1>4 DEF Reduced, ReductionKey
<1>5. CASE ~many /\ ~(p.cost # None /\ p.cost.booked) /\ step.lot # Cash
  <2>1. [p EXCEPT !.cost = cost].cost = cost
    BY DEF Posting
  <2> HIDE DEF cost
  <2>2. Reduced(p, step, many) = [p EXCEPT !.cost = cost]
    BY <1>5 DEF Reduced, cost
  <2> QED BY <1>2, <1>5, <2>1, <2>2 DEF ReductionKey
<1>6. CASE ~many /\ ~(p.cost # None /\ p.cost.booked) /\ step.lot = Cash
  <2>1. p.cost = None \/ (~HasNumber(p.cost) /\ p.cost.cur = None)
    BY <1>6, CashMatchesEmpty DEF Fits, SettledCost, SpecIsEmpty
  <2>2. Reduced(p, step, many) = p /\ ReductionKey(p, step, many) = CashKey(p)
    BY <1>6 DEF Reduced, ReductionKey
  <2> QED BY <1>6, <2>1, <2>2 DEF Weight, CashKey
<1> QED BY <1>3, <1>4, <1>5, <1>6

\* What pass 2 books takes the residual of its currency.
LEMMA CandidateBalances ==
    ASSUME NEW p \in Posting, BareAuto(p), p.auto \/ p.units # 0,
           NEW c \in OptCurrency, weights \in [OptCurrency -> Int],
           Date \in Int
    PROVE  \/ /\ Candidate(p, c).cost = None
              /\ Weight(Candidate(p, c)).num = -weights[c]
           \/ /\ Candidate(p, c).cost \in Cost
              /\ ~Candidate(p, c).cost.booked /\ Candidate(p, c).units # 0
              /\ Candidate(p, c).cost.per = None
              /\ Candidate(p, c).cost.total = -weights[c]
              /\ Candidate(p, c).cost.cur = c
<1>1. weights[c] \in Int /\ -weights[c] \in Int
  OBVIOUS
<1>2. CASE p.auto
  <2>1. /\ Candidate(p, c).cost = None /\ Candidate(p, c).price = None
        /\ Candidate(p, c).units = -weights[c]
    BY <1>2 DEF BareAuto, Candidate, Posting
  <2> QED BY <2>1 DEF Weight
<1>3. CASE ~p.auto
  <2> DEFINE cost == ResidualCost(p.cost, c, -weights[c])
  <2>1. Candidate(p, c) = [p EXCEPT !.cost = cost]
    BY <1>3 DEF Candidate
  <2>2. /\ ~cost.booked /\ cost.per = None /\ cost.total = -weights[c] /\ cost.cur = c
    BY DEF ResidualCost
  <2> HIDE DEF cost
  <2>3. Candidate(p, c).cost = cost /\ Candidate(p, c).units = p.units
    BY <2>1 DEF Posting
  <2>4. cost \in Cost
    <3>1. p.cost = None \/ p.cost \in Cost
      BY DEF Posting
    <3>2. CASE p.cost # None /\ ~p.cost.booked
      BY <1>1, <3>1, <3>2 DEF cost, ResidualCost, Cost, OptInt, OptCurrency
    <3>3. CASE ~(p.cost # None /\ ~p.cost.booked)
      BY <1>1, <3>3 DEF cost, ResidualCost, Cost, OptInt, OptCurrency
    <3> QED BY <3>2, <3>3
  <2> QED BY <1>3, <2>2, <2>3, <2>4
<1> QED BY <1>2, <1>3

\* A transaction that is booked has at most one auto posting, and a bare one.
LEMMA StructurePlain ==
    ASSUME NEW ps \in Seq(Posting), StructureFinding(ps) = None
    PROVE  \A k \in DOMAIN ps : BareAuto(ps[k])
<1> DEFINE autos == {k \in DOMAIN ps : ps[k].auto}
           earlier(k) == {n \in autos : n < k}
<1>1. DOMAIN ps = 1 .. Len(ps) /\ Len(ps) \in Nat
  OBVIOUS
<1>2. IsFiniteSet(DOMAIN ps)
  BY <1>1, FS_Interval
<1>3. autos \subseteq DOMAIN ps
  OBVIOUS
<1>4. IsFiniteSet(autos) /\ Cardinality(autos) \in Nat
  BY <1>2, <1>3, FS_Subset, FS_CardinalityType
<1>5. /\ ~\E k \in autos : /\ ps[k].cost # None \/ ps[k].price # None
                           /\ Cardinality(earlier(k)) <= 1
      /\ ~(Cardinality(autos) > 1)
  BY NoneIsNoValue DEF StructureFinding, Codes
<1>6. ASSUME NEW k \in autos PROVE Cardinality(earlier(k)) <= 1
  <2>1. earlier(k) \in SUBSET autos
    OBVIOUS
  <2> HIDE DEF autos, earlier
  <2>2. Cardinality(earlier(k)) \in Nat /\ Cardinality(earlier(k)) <= Cardinality(autos)
    BY <1>4, <2>1, FS_Subset, FS_CardinalityType
  <2> QED BY <1>4, <1>5, <2>2
<1> QED BY <1>5, <1>6 DEF BareAuto

LEMMA PlainType ==
    ASSUME NEW es \in Seq(Entry), NEW ps \in Seq(Posting),
           \A j \in DOMAIN es : es[j].at \in DOMAIN ps, NEW c
    PROVE  /\ IsFiniteSet(Plain(es, c)) /\ Plain(es, c) \subseteq DOMAIN es
           /\ \A j \in DOMAIN es : /\ WeightsBooked(es, ps)[j] = Weight(ps[es[j].at]).num
                                   /\ WeightsBooked(es, ps)[j] \in Int
           /\ PlainSum(es, ps, c) \in Int
<1>1. DOMAIN es = 1 .. Len(es) /\ Len(es) \in Nat
  OBVIOUS
<1>2. IsFiniteSet(DOMAIN es)
  BY <1>1, FS_Interval
<1>3. Plain(es, c) \subseteq DOMAIN es
  BY DEF Plain
<1>4. IsFiniteSet(Plain(es, c))
  BY <1>2, <1>3, FS_Subset
<1>5. ASSUME NEW j \in DOMAIN es
      PROVE  WeightsBooked(es, ps)[j] = Weight(ps[es[j].at]).num /\ WeightsBooked(es, ps)[j] \in Int
  <2>1. ps[es[j].at] \in Posting
    OBVIOUS
  <2>2. Weight(ps[es[j].at]).num \in Int
    BY <2>1, WeightType
  <2> QED BY <2>2 DEF WeightsBooked
<1>6. PlainSum(es, ps, c) \in Int
  BY <1>3, <1>4, <1>5, SumType DEF PlainSum
<1> QED BY <1>3, <1>4, <1>5, <1>6

\* One more entry adds its weight to its group, unless it was inferred.
LEMMA PlainMore ==
    ASSUME NEW es \in Seq(Entry), NEW ps \in Seq(Posting), NEW qs \in Seq(Posting),
           NEW e \in Entry, e.at \in DOMAIN qs,
           \A j \in DOMAIN es : /\ es[j].at \in DOMAIN ps /\ es[j].at \in DOMAIN qs
                                /\ qs[es[j].at] = ps[es[j].at],
           NEW c
    PROVE  PlainSum(Append(es, e), qs, c)
           = PlainSum(es, ps, c)
             + (IF e.group = c /\ ~e.inferred THEN Weight(qs[e.at]).num ELSE 0)
<1> DEFINE fs == Append(es, e)
           x == Len(es) + 1
<1>1. /\ fs \in Seq(Entry) /\ x \notin DOMAIN es /\ fs[x] = e
      /\ \A j : j \in DOMAIN fs <=> j \in DOMAIN es \/ j = x
      /\ \A j \in DOMAIN es : fs[j] = es[j]
  OBVIOUS
<1> HIDE DEF fs, x
<1>2. /\ Plain(es, c) \subseteq DOMAIN es /\ IsFiniteSet(Plain(es, c))
      /\ \A j \in DOMAIN es : /\ WeightsBooked(es, ps)[j] = Weight(ps[es[j].at]).num
                              /\ WeightsBooked(es, ps)[j] \in Int
      /\ PlainSum(es, ps, c) \in Int
  BY PlainType
<1>3. \A j \in DOMAIN fs : fs[j].at \in DOMAIN qs
  BY <1>1
<1>4. \A j \in DOMAIN fs : /\ WeightsBooked(fs, qs)[j] = Weight(qs[fs[j].at]).num
                           /\ WeightsBooked(fs, qs)[j] \in Int
  BY <1>1, <1>3, PlainType
<1>5. Sum(WeightsBooked(fs, qs), Plain(es, c)) = PlainSum(es, ps, c)
  <2>1. \A j \in Plain(es, c) : WeightsBooked(fs, qs)[j] = WeightsBooked(es, ps)[j]
    BY <1>1, <1>2, <1>4
  <2> QED BY <1>2, <2>1, SumSame DEF PlainSum
<1>6. CASE e.group = c /\ ~e.inferred
  <2>1. Plain(fs, c) = More(Plain(es, c), x) /\ x \notin Plain(es, c)
    BY <1>1, <1>6 DEF Plain, More
  <2>2. \A j \in More(Plain(es, c), x) : WeightsBooked(fs, qs)[j] \in Int
    BY <1>1, <1>2, <1>4 DEF More
  <2>3. Sum(WeightsBooked(fs, qs), More(Plain(es, c), x))
        = WeightsBooked(fs, qs)[x] + Sum(WeightsBooked(fs, qs), Plain(es, c))
    BY <1>2, <2>1, <2>2, SumMore
  <2>4. WeightsBooked(fs, qs)[x] = Weight(qs[e.at]).num /\ Weight(qs[e.at]).num \in Int
    BY <1>1, <1>4
  <2>5. PlainSum(fs, qs, c) = Weight(qs[e.at]).num + PlainSum(es, ps, c)
    BY <1>5, <2>1, <2>3, <2>4 DEF PlainSum
  <2> QED BY <1>2, <1>6, <2>4, <2>5 DEF fs
<1>7. CASE ~(e.group = c /\ ~e.inferred)
  <2>1. Plain(fs, c) = Plain(es, c)
    BY <1>1, <1>7 DEF Plain
  <2>2. PlainSum(fs, qs, c) = PlainSum(es, ps, c)
    BY <1>5, <2>1 DEF PlainSum
  <2> QED BY <1>2, <1>7, <2>2 DEF fs
<1> QED BY <1>6, <1>7

\* Which currencies have an inferred posting, after one more entry.
LEMMA UninferredMore ==
    ASSUME NEW es \in Seq(Entry), NEW e \in Entry, NEW c
    PROVE  Uninferred(Append(es, e), c) <=> Uninferred(es, c) /\ (e.inferred => e.group # c)
<1> DEFINE fs == Append(es, e)
           x == Len(es) + 1
<1>1. /\ fs[x] = e
      /\ \A j : j \in DOMAIN fs <=> j \in DOMAIN es \/ j = x
      /\ \A j \in DOMAIN es : fs[j] = es[j]
  OBVIOUS
<1> HIDE DEF fs, x
<1>2. Uninferred(fs, c) <=> Uninferred(es, c) /\ (e.inferred => e.group # c)
  BY <1>1 DEF Uninferred
<1> QED BY <1>2 DEF fs

\* One more entry and its posting: pass 1 adds its weight, pass 2 takes a residual.
LEMMA WeighsOneMore ==
    ASSUME TypeOK, TypeOK', PostingsInv, EntriesWeigh,
           NEW e \in Entry, NEW p \in Posting, entries' = Append(entries, e),
           ~HasEntry(entries, e.at),
           \/ postings' = Append(postings, p) /\ e.at = Len(postings) + 1
           \/ e.at \in DOMAIN postings /\ postings' = [postings EXCEPT ![e.at] = p],
           e.inferred => /\ weights' = weights
                         /\ Uninferred(entries, e.group) /\ Balances(e, p, weights[e.group]),
           ~e.inferred => /\ Weight(p).cur = e.group
                          /\ \A j \in DOMAIN entries : ~entries[j].inferred
                          /\ weights' = [weights EXCEPT ![e.group] = @ + Weight(p).num]
    PROVE  EntriesWeigh'
<1>1. /\ postings \in Seq(Posting) /\ entries \in Seq(Entry) /\ postings' \in Seq(Posting)
      /\ weights \in [OptCurrency -> Int] /\ e.group \in OptCurrency
      /\ e.inferred \in BOOLEAN
  BY DEF TypeOK, Entry
<1>2. /\ e.at \in DOMAIN postings' /\ postings'[e.at] = p
      /\ \A k \in DOMAIN postings : k \in DOMAIN postings' /\ (k # e.at => postings'[k] = postings[k])
  <2>1. CASE postings' = Append(postings, p) /\ e.at = Len(postings) + 1
    <3>1. /\ DOMAIN postings = 1..Len(postings) /\ Len(postings) \in Nat
          /\ postings'[Len(postings) + 1] = p
          /\ DOMAIN postings' = 1..(Len(postings) + 1)
          /\ \A k \in DOMAIN postings : postings'[k] = postings[k]
      BY <1>1, <2>1
    <3> QED BY <2>1, <3>1
  <2>2. CASE e.at \in DOMAIN postings /\ postings' = [postings EXCEPT ![e.at] = p]
    BY <1>1, <2>2
  <2> QED BY <2>1, <2>2
<1>3. /\ \A j \in DOMAIN entries' :
            (j \in DOMAIN entries /\ entries'[j] = entries[j])
            \/ (j = Len(entries) + 1 /\ entries'[j] = e)
      /\ \A j \in DOMAIN entries : j \in DOMAIN entries' /\ entries'[j] = entries[j]
  BY <1>1
<1>4. \A j \in DOMAIN entries : /\ entries[j].at \in DOMAIN postings
                                /\ entries[j].at \in DOMAIN postings'
                                /\ postings'[entries[j].at] = postings[entries[j].at]
  BY <1>2 DEF PostingsInv, HasEntry
<1>5. \A j \in DOMAIN entries' :
         entries'[j].inferred \/ Weight(postings'[entries'[j].at]).cur = entries'[j].group
  BY <1>2, <1>3, <1>4 DEF EntriesWeigh, Weighing
<1>6. ASSUME NEW c \in OptCurrency
      PROVE  weights'[c] = PlainSum(entries', postings', c)
  <2>1. PlainSum(Append(entries, e), postings', c)
        = PlainSum(entries, postings, c)
          + (IF e.group = c /\ ~e.inferred THEN Weight(postings'[e.at]).num ELSE 0)
    BY <1>1, <1>2, <1>4, PlainMore
  <2>2. PlainSum(entries, postings, c) = weights[c] /\ weights[c] \in Int
    BY <1>1 DEF EntriesWeigh, Weighing
  <2>3. Weight(p).num \in Int
    BY WeightType
  <2>4. CASE e.inferred
    BY <2>1, <2>2, <2>4
  <2>5. CASE ~e.inferred
    <3>1. weights'[c] = IF c = e.group THEN weights[c] + Weight(p).num ELSE weights[c]
      BY <1>1, <2>5
    <3>2. PlainSum(entries', postings', c)
          = weights[c] + (IF e.group = c THEN Weight(p).num ELSE 0)
      BY <1>2, <2>1, <2>2, <2>5
    <3> QED BY <2>2, <2>3, <3>1, <3>2
  <2> QED BY <1>1, <2>4, <2>5
<1>7. OnePerGroup'
  BY <1>1, <1>3 DEF EntriesWeigh, OnePerGroup, Uninferred
<1>8. AllBalance'
  <2>1. CASE e.inferred
    BY <1>2, <1>3, <1>4, <2>1 DEF EntriesWeigh, AllBalance
  <2>2. CASE ~e.inferred
    BY <1>3, <2>2 DEF AllBalance
  <2> QED BY <1>1, <2>1, <2>2
<1> QED BY <1>5, <1>6, <1>7, <1>8 DEF EntriesWeigh, Weighing

\* Nothing weighs differently when the postings that were booked stay.
LEMMA WeighsTheSame ==
    ASSUME TypeOK, TypeOK', PostingsInv, EntriesWeigh,
           entries' = entries, weights' = weights,
           \A k \in DOMAIN postings : k \in DOMAIN postings' /\ postings'[k] = postings[k]
    PROVE  EntriesWeigh'
<1>1. \A j \in DOMAIN entries : /\ entries[j].at \in DOMAIN postings
                                /\ postings'[entries[j].at] = postings[entries[j].at]
  BY DEF PostingsInv
<1>2. ASSUME NEW c \in OptCurrency
      PROVE  PlainSum(entries, postings', c) = PlainSum(entries, postings, c)
  <2>1. /\ postings \in Seq(Posting) /\ entries \in Seq(Entry) /\ postings' \in Seq(Posting)
        /\ \A j \in DOMAIN entries : entries[j].at \in DOMAIN postings'
    BY <1>1 DEF TypeOK
  <2>2. /\ Plain(entries, c) \subseteq DOMAIN entries /\ IsFiniteSet(Plain(entries, c))
        /\ \A j \in DOMAIN entries :
              WeightsBooked(entries, postings)[j] = Weight(postings[entries[j].at]).num
    BY <1>1, <2>1, PlainType
  <2>3. \A j \in DOMAIN entries :
           WeightsBooked(entries, postings')[j] = Weight(postings'[entries[j].at]).num
    BY DEF WeightsBooked
  <2>4. \A j \in Plain(entries, c) :
           WeightsBooked(entries, postings')[j] = WeightsBooked(entries, postings)[j]
    BY <1>1, <2>2, <2>3
  <2> QED BY <2>2, <2>4, SumSame DEF PlainSum
<1>3. Weighing'
  BY <1>1, <1>2 DEF EntriesWeigh, Weighing
<1>4. OnePerGroup' /\ AllBalance'
  BY <1>1 DEF EntriesWeigh, OnePerGroup, AllBalance
<1> QED BY <1>3, <1>4 DEF EntriesWeigh

LEMMA StaysBare ==
    ASSUME TypeOK, BareAutos, NEW p, BareAuto(p), NEW at,
           \/ postings' = postings
           \/ postings' = Append(postings, p)
           \/ postings' = [postings EXCEPT ![at] = p]
    PROVE  BareAutos'
<1>1. postings \in Seq(Posting)
  BY DEF TypeOK
<1>2. \A k \in DOMAIN postings' :
         postings'[k] = p \/ (k \in DOMAIN postings /\ postings'[k] = postings[k])
  <2>1. CASE postings' = postings
    BY <2>1
  <2>2. CASE postings' = Append(postings, p)
    BY <1>1, <2>2
  <2>3. CASE postings' = [postings EXCEPT ![at] = p]
    BY <1>1, <2>3
  <2> QED BY <2>1, <2>2, <2>3
<1> QED BY <1>2 DEF BareAutos

LEMMA InferPass1 ==
    ASSUME TypeOK, TypeOK', Placed, Settling, EntriesInv, Earlier, Inferring, NEW k \in left,
           SetAside(k) \/ Defer(k) \/ Refuse(k) \/ Augment(k) \/ Reduce(k)
    PROVE  Inferring'
<1> DEFINE p == ledger[i].postings[k]
<1>1. /\ phase = "pass1" /\ ledger[i] \in Transaction /\ StructureFinding(ledger[i].postings) = None
      /\ k \in DOMAIN ledger[i].postings
      /\ \A j \in DOMAIN entries : ~entries[j].inferred
  BY DEF SetAside, Defer, Refuse, Augment, Reduce, Visit, Placed, Active, InPass1,
         EntriesInv, InPhase, Earlier
<1>2. p \in Posting /\ Date \in Int /\ BareAuto(p)
  <2>1. ledger[i].postings \in Seq(Posting) /\ ledger[i].date \in Int
    BY <1>1 DEF Transaction
  <2> QED BY <1>1, <2>1, StructurePlain DEF Date
<1>3. /\ PostingsInv /\ postings \in Seq(Posting) /\ EntriesWeigh /\ BareAutos
      /\ ~HasEntry(entries, Len(postings) + 1)
  <2>1. postings \in Seq(Posting) /\ PostingsInv
    BY DEF TypeOK, Settling
  <2>2. DOMAIN postings = 1..Len(postings) /\ Len(postings) \in Nat
    BY <2>1
  <2> QED BY <2>1, <2>2 DEF HasEntry, PostingsInv, Inferring
<1> HIDE DEF p
<1>4. ASSUME phase' = "pass1" PROVE ~Reducing' /\ Turns'
  BY <1>4 DEF Reducing, Turns, InPhase
<1>5. CASE SetAside(k) \/ Defer(k) \/ Refuse(k)
  <2>1. /\ phase' = "pass1" /\ UNCHANGED <<entries, weights>>
        /\ postings' = postings \/ postings' = Append(postings, p)
    BY <1>1, <1>5 DEF SetAside, Defer, Refuse, Set, p
  <2>2. \A n \in DOMAIN postings : n \in DOMAIN postings' /\ postings'[n] = postings[n]
    BY <1>2, <1>3, <2>1
  <2>3. EntriesWeigh'
    BY <1>3, <2>1, <2>2, WeighsTheSame
  <2>4. BareAutos'
    BY <1>2, <1>3, <2>1, StaysBare
  <2> QED BY <1>4, <2>1, <2>3, <2>4 DEF Inferring
<1>6. CASE Augment(k)
  <2> DEFINE lot == ResolveLot(p.cost, p.units, Date)
             booked == [p EXCEPT !.cost = AugmentCostFor(p.cost, lot)]
             group == IF p.cost = None THEN CashKey(p) ELSE p.cost.cur
  <2>1. /\ Refusal(p) = None /\ ~DoesReduce(p) /\ ~p.auto
        /\ Added(p, lot, Len(postings) + 1, group, FALSE)
        /\ postings' = Append(postings, booked) /\ Weigh(booked)
        /\ phase' = "pass1"
    BY <1>1, <1>6 DEF Augment, p
  <2>2. lot \in Lot /\ booked \in Posting
    BY <1>2, <2>1, AugmentsWell
  <2>3. LotFinding(p.cost, p.units) = None
    BY <2>1 DEF Refusal
  <2>4. Weight(booked).cur = group
    BY <1>2, <2>3, AugmentedWeighs
  <2>5. ~booked.auto
    BY <1>2, <2>1 DEF Posting
  <2> HIDE DEF lot, booked, group
  <2>6. PICK e : /\ entries' = Append(entries, e) /\ e.at = Len(postings) + 1
                 /\ e.group = group /\ ~e.inferred
    BY <2>1 DEF Added
  <2>7. e \in Entry
    <3>1. entries \in Seq(Entry) /\ entries' \in Seq(Entry)
      BY DEF TypeOK
    <3>2. /\ Len(entries) + 1 \in DOMAIN entries' /\ entries'[Len(entries) + 1] = e
      BY <2>6, <3>1
    <3> QED BY <3>1, <3>2
  <2>8. /\ ~HasEntry(entries, e.at)
        /\ weights' = [weights EXCEPT ![e.group] = @ + Weight(booked).num]
    BY <1>3, <2>1, <2>4, <2>6 DEF Weigh
  <2>9. EntriesWeigh'
    BY <1>1, <1>3, <2>1, <2>2, <2>4, <2>6, <2>7, <2>8, WeighsOneMore
  <2>10. BareAutos'
    <3>1. BareAuto(booked)
      BY <2>5 DEF BareAuto
    <3> QED BY <1>3, <2>1, <3>1, StaysBare
  <2> QED BY <1>4, <2>1, <2>9, <2>10 DEF Inferring
<1>7. CASE Reduce(k)
  <2>1. /\ StartReducing(p, Len(postings) + 1, None, FALSE, "pass1")
        /\ UNCHANGED <<postings, entries, weights>>
    BY <1>7 DEF Reduce, txnVars, p
  <2>2. phase' = "take" /\ job'.inferred = FALSE /\ job'.back = "pass1"
    BY <2>1 DEF StartReducing
  <2>3. EntriesWeigh' /\ BareAutos'
    BY <1>2, <1>3, <2>1, WeighsTheSame, StaysBare
  <2> QED BY <2>2, <2>3 DEF Inferring, JobBalances, Turns, InPhase
<1> QED BY <1>5, <1>6, <1>7

\* A reduction leaves what is booked alone until it records what it took.
LEMMA InferTaking ==
    ASSUME TypeOK, TypeOK', Placed, Settling, EntriesInv, Inferring,
           (phase = "take" /\ \E q \in job.candidates : TakeLot(q)) \/ EndTaking
    PROVE  Inferring'
<1>1. /\ phase = "take" /\ job \in Job /\ Reducing /\ JobBalances
      /\ UNCHANGED <<left, postings, entries, unknown, weights, loose>>
  BY DEF TakeLot, EndTaking, Placed, JobIsPlaced, Reducing, txnVars, Inferring
<1>2. EntriesWeigh' /\ BareAutos'
  <2>1. \A k \in DOMAIN postings : k \in DOMAIN postings' /\ postings'[k] = postings[k]
    BY <1>1
  <2>2. PostingsInv /\ EntriesWeigh /\ BareAutos
    BY DEF Settling, Inferring
  <2>3. BareAutos'
    BY <1>1, <2>2 DEF BareAutos
  <2> QED BY <1>1, <2>1, <2>2, <2>3, WeighsTheSame
<1>3. /\ job'.inferred = job.inferred /\ job'.group = job.group
      /\ job'.posting = job.posting /\ job'.back = job.back
  BY <1>1 DEF TakeLot, EndTaking, Job
<1>4. /\ phase' \in {"take", "record", "error"}
      /\ phase' = "record" /\ job'.many => ~job.inferred
  BY <1>1 DEF TakeLot, EndTaking, Job
<1>5. JobTakes' <=> JobTakes
  BY <1>1, <1>3 DEF JobTakes
<1>6. JobBalances'
  BY <1>1, <1>3, <1>4, <1>5 DEF JobBalances
<1>7. Turns'
  BY <1>1, <1>3, <1>4 DEF Inferring, Turns, InPhase, Reducing
<1> QED BY <1>2, <1>6, <1>7 DEF Inferring

LEMMA InferRecord ==
    ASSUME TypeOK, TypeOK', Placed, Settling, EntriesInv, Inferring, RecordStep
    PROVE  Inferring'
<1> DEFINE p == job.posting
           step == Head(job.steps)
           q == Reduced(p, step, job.many)
           at == IF job.inferred THEN job.at ELSE Len(postings) + 1
<1>1. /\ phase = "record" /\ job.steps # <<>>
      /\ \E e : /\ entries' = Append(entries, e) /\ e.at = at
                /\ e.lot = step.lot /\ e.reduces
                /\ e.group = IF job.inferred THEN job.group
                             ELSE ReductionKey(p, step, job.many)
                /\ e.inferred = job.inferred
      /\ postings' = IF job.inferred THEN [postings EXCEPT ![at] = q]
                                     ELSE Append(postings, q)
      /\ IF job.inferred THEN UNCHANGED weights ELSE Weigh(q)
      /\ unknown' = IF job.inferred
                    THEN {[u EXCEPT !.cur = IF u.at = at THEN job.group ELSE @] :
                             u \in unknown}
                    ELSE unknown
      /\ job' = [job EXCEPT !.steps = Tail(@)]
      /\ UNCHANGED <<phase, left, loose>>
  BY DEF RecordStep
<1>2. /\ job \in Job /\ p \in Posting /\ job.steps \in Seq(Step) /\ Reducing
      /\ job.inferred => job.at \in DOMAIN postings
      /\ job.inferred \in BOOLEAN /\ job.many \in BOOLEAN
      /\ job.inferred <=> job.back # "pass1"
      /\ JobWaits /\ PostingsInv /\ JobInv /\ JobBalances /\ EntriesWeigh /\ BareAutos
  BY <1>1 DEF Settling, EntriesInv, Inferring, Reducing, Placed, JobIsPlaced, Job
<1>3. PICK e : /\ entries' = Append(entries, e) /\ e.at = at
               /\ e.lot = step.lot /\ e.reduces
               /\ e.group = IF job.inferred THEN job.group
                            ELSE ReductionKey(p, step, job.many)
               /\ e.inferred = job.inferred
  BY <1>1
<1>4. /\ step \in Step /\ Fits(p, step.lot)
      /\ Len(job.steps) <= 1 => Tail(job.steps) = <<>>
  <2>1. step = job.steps[1] /\ 1 \in DOMAIN job.steps
    BY <1>1, <1>2
  <2> QED BY <1>1, <1>2, <2>1 DEF JobInv
<1>5. q \in Posting /\ ~q.auto
  <2>1. q \in Posting
    <3>1. postings' \in Seq(Posting) /\ postings \in Seq(Posting)
      BY DEF TypeOK
    <3>2. CASE job.inferred
      <4>1. postings'[at] = q /\ at \in DOMAIN postings'
        BY <1>1, <1>2, <3>1, <3>2
      <4> QED BY <3>1, <4>1
    <3>3. CASE ~job.inferred
      <4>1. /\ postings'[Len(postings) + 1] = q
            /\ Len(postings) + 1 \in DOMAIN postings'
        BY <1>1, <3>1, <3>3
      <4> QED BY <3>1, <4>1
    <3> QED BY <3>2, <3>3
  <2>2. ~q.auto
    BY <1>2, <1>4, ReducedIsSettled DEF JobInv, Settled
  <2> QED BY <2>1, <2>2
<1>6. ~job.inferred => Weight(q).cur = ReductionKey(p, step, job.many)
  BY <1>2, <1>4, ReducedWeighs DEF JobInv
<1>7. job.inferred => Balances(e, q, weights[job.group])
  <2> SUFFICES ASSUME job.inferred PROVE Balances(e, q, weights[job.group])
    OBVIOUS
  <2>1. ~job.many /\ JobTakes
    BY <1>1, <1>2 DEF JobBalances
  <2>2. CASE step.lot # Cash
    BY <1>3, <2>2 DEF Balances, MovesWeight
  <2>3. CASE step.lot = Cash
    <3>1. q = p
      BY <2>1, <2>3 DEF Reduced
    <3>2. Weight(p).num = -weights[job.group]
      BY <1>4, <2>1, <2>3 DEF JobTakes, Fits
    <3> QED BY <3>1, <3>2 DEF Balances
  <2> QED BY <2>2, <2>3
<1>8. /\ e \in Entry /\ ~HasEntry(entries, e.at)
      /\ \/ postings' = Append(postings, q) /\ e.at = Len(postings) + 1
         \/ e.at \in DOMAIN postings /\ postings' = [postings EXCEPT ![e.at] = q]
  <2>1. entries \in Seq(Entry) /\ entries' \in Seq(Entry) /\ postings \in Seq(Posting)
    BY DEF TypeOK
  <2>2. Len(entries) + 1 \in DOMAIN entries' /\ entries'[Len(entries) + 1] = e
    BY <1>3, <2>1
  <2>3. Len(postings) + 1 \notin DOMAIN postings
    BY <2>1
  <2>4. ~HasEntry(entries, e.at)
    BY <1>1, <1>2, <1>3, <2>3 DEF JobWaits, HasEntry, PostingsInv
  <2> QED BY <1>1, <1>2, <1>3, <2>1, <2>2, <2>4
<1> HIDE DEF q, step
<1>9. EntriesWeigh'
  <2>1. CASE job.inferred
    <3>1. /\ weights' = weights /\ e.inferred /\ e.group = job.group
          /\ Uninferred(entries, e.group) /\ Balances(e, q, weights[e.group])
      BY <1>1, <1>2, <1>3, <1>7, <2>1 DEF JobBalances
    <3> QED BY <1>2, <1>3, <1>5, <1>8, <3>1, WeighsOneMore
  <2>2. CASE ~job.inferred
    <3>1. /\ Weigh(q) /\ ~e.inferred /\ Weight(q).cur = e.group
      BY <1>1, <1>3, <1>6, <2>2
    <3>2. \A j \in DOMAIN entries : ~entries[j].inferred
      BY <1>2, <2>2 DEF EntriesInv, InPhase
    <3>3. weights' = [weights EXCEPT ![e.group] = @ + Weight(q).num]
      BY <3>1 DEF Weigh
    <3> QED BY <1>2, <1>3, <1>5, <1>8, <3>1, <3>2, <3>3, WeighsOneMore
  <2> QED BY <1>2, <2>1, <2>2
<1>10. BareAutos'
  <2>1. BareAuto(q)
    BY <1>5 DEF BareAuto
  <2> QED BY <1>2, <1>8, <2>1, StaysBare
<1>11. /\ job'.inferred = job.inferred /\ job'.group = job.group /\ job'.back = job.back
       /\ job'.posting = job.posting /\ job'.many = job.many /\ job'.steps = Tail(job.steps)
  BY <1>1, <1>2 DEF Job
<1>12. JobBalances'
  <2>1. job.inferred => Tail(job.steps) = <<>>
    BY <1>1, <1>2, <1>4 DEF JobWaits
  <2>2. job.inferred => JobTakes'
    BY <1>1, <1>2, <1>11 DEF JobTakes, JobBalances
  <2> QED BY <1>1, <1>2, <1>11, <2>1, <2>2 DEF JobBalances
<1>13. Turns'
  <2> SUFFICES ASSUME InPhase("bidders")'
               PROVE  /\ \A u \in unknown' : u.at \in left =>
                            /\ Uninferred(entries', u.cur) /\ u.cur \notin loose
                            /\ u.cur # job.group
                      /\ \A c \in loose : Uninferred(entries', c) /\ job.group # c
    BY <1>1, <1>11 DEF Turns
  <2>1. InPhase("bidders") /\ job.inferred /\ Turns
    BY <1>1, <1>2, <1>11 DEF InPhase, Reducing, Inferring
  <2>2. job.at \notin left /\ e.group = job.group
    BY <1>2, <1>3, <2>1 DEF JobInv
  <2>3. ASSUME NEW c, Uninferred(entries, c), c # job.group PROVE Uninferred(entries', c)
    <3>1. entries \in Seq(Entry)
      BY DEF TypeOK
    <3> QED BY <1>3, <1>8, <2>2, <2>3, <3>1, UninferredMore
  <2>4. \A v \in unknown' : v.at \in left => v \in unknown
    <3> SUFFICES ASSUME NEW v \in unknown', v.at \in left PROVE v \in unknown
      OBVIOUS
    <3>1. PICK u \in unknown : v = [u EXCEPT !.cur = IF u.at = at THEN job.group ELSE @]
      BY <1>1, <2>1
    <3>2. u \in Unknown
      BY DEF TypeOK
    <3>3. v.at = u.at /\ (u.at # at => v = u)
      BY <3>1, <3>2 DEF Unknown
    <3> QED BY <2>1, <2>2, <3>3
  <2> QED BY <1>2, <2>1, <2>3, <2>4 DEF Turns
<1> QED BY <1>9, <1>10, <1>12, <1>13 DEF Inferring

LEMMA InferEndReducing ==
    ASSUME TypeOK, TypeOK', Placed, Settling, Inferring, EndReducing
    PROVE  Inferring'
<1>1. /\ phase = "record" /\ phase' = job.back /\ Reducing
      /\ job.back \in {"pass1", "bidders", "settle"}
      /\ UNCHANGED <<left, postings, entries, unknown, weights, loose>>
  BY DEF EndReducing, txnVars, Reducing, Placed, JobIsPlaced
<1>2. EntriesWeigh' /\ BareAutos'
  <2>1. \A k \in DOMAIN postings : k \in DOMAIN postings' /\ postings'[k] = postings[k]
    BY <1>1
  <2>2. PostingsInv /\ EntriesWeigh /\ BareAutos
    BY DEF Settling, Inferring
  <2>3. BareAutos'
    BY <1>1, <2>2 DEF BareAutos
  <2> QED BY <1>1, <2>1, <2>2, <2>3, WeighsTheSame
<1>3. ~Reducing' /\ Turns'
  BY <1>1 DEF Inferring, Turns, InPhase, Reducing
<1> QED BY <1>2, <1>3 DEF Inferring

\* A total cost takes the residual, unless the units have the sign of what is missing.
LEMMA SignedTakes ==
    ASSUME NEW units \in Int, units # 0, NEW w \in Int
    PROVE  Sign(units) = Sign(w) \/ Signed(units, -w) = -w
BY DEF Sign, Signed, Size

LEMMA AugmentedBalances ==
    ASSUME NEW p \in Posting, NEW w \in Int, NEW lot \in Lot, NEW e, e.units = p.units,
           \/ p.cost = None /\ Weight(p).num = -w
           \/ /\ p.cost \in Cost /\ ~p.cost.booked /\ p.units # 0
              /\ p.cost.per = None /\ p.cost.total = -w /\ lot.cur = p.cost.cur
    PROVE  Balances(e, [p EXCEPT !.cost = AugmentCostFor(p.cost, lot)], w)
<1> DEFINE cost == AugmentCostFor(p.cost, lot)
           q == [p EXCEPT !.cost = cost]
<1>1. q.cost = cost /\ q.units = p.units /\ p.units \in Int
  BY DEF Posting
<1>2. CASE p.cost = None /\ Weight(p).num = -w
  <2>1. q = p
    BY <1>2 DEF AugmentCostFor, Posting
  <2> QED BY <1>2, <2>1 DEF Balances
<1>3. CASE /\ p.cost \in Cost /\ ~p.cost.booked /\ p.units # 0
           /\ p.cost.per = None /\ p.cost.total = -w /\ lot.cur = p.cost.cur
  <2>1. cost # None /\ cost.per = None /\ cost.total = -w
    BY <1>3, AugmentedCost
  <2>2. -w # None
    BY NoneIsNoValue
  <2> HIDE DEF cost, q
  <2>3. Weight(q).num = Signed(p.units, -w)
    <3>1. Weight(q).num = 0 + Signed(p.units, -w)
      BY <1>1, <2>1, <2>2 DEF Weight, HasNumber
    <3>2. Signed(p.units, -w) \in Int
      BY <1>1 DEF Signed, Size
    <3> QED BY <3>1, <3>2
  <2>4. Sign(p.units) = Sign(w) \/ Signed(p.units, -w) = -w
    <3> DEFINE units == p.units
    <3>1. units \in Int /\ units # 0
      BY <1>1, <1>3
    <3> HIDE DEF units
    <3>2. Sign(units) = Sign(w) \/ Signed(units, -w) = -w
      BY <3>1, SignedTakes
    <3> QED BY <3>2 DEF units
  <2>5. Balances(e, q, w)
    BY <1>1, <2>1, <2>3, <2>4 DEF Balances
  <2> QED BY <2>5 DEF q, cost
<1> QED BY <1>2, <1>3

LEMMA InferResolve ==
    ASSUME TypeOK, TypeOK', Placed, Settling, EntriesInv, Inferring,
           phase \in {"bidders", "free"},
           NEW u \in unknown, ~HasEntry(entries, u.at), ~HasZeroUnits(u),
           NEW c \in OptCurrency, c # None, Uninferred(entries, c),
           NEW curs, NEW next \in {"bidders", "settle"}, NEW still,
           next = "bidders" =>
              /\ phase = "bidders" /\ still \subseteq left /\ u.at \notin still
              /\ c \notin loose /\ \A v \in unknown : v.at \in still => v.cur # c,
           Resolve(u, c, curs, next, still)
    PROVE  Inferring'
<1> DEFINE p == Candidate(postings[u.at], c)
           lot == ResolveLot(p.cost, p.units, Date)
           booked == [p EXCEPT !.cost = AugmentCostFor(p.cost, lot)]
<1>1. /\ Date \in Int /\ u \in Unknown /\ u.at \in DOMAIN postings
      /\ postings \in Seq(Posting) /\ postings[u.at] \in Posting
      /\ weights \in [OptCurrency -> Int] /\ entries \in Seq(Entry) /\ PostingsInv
      /\ EntriesWeigh /\ BareAutos /\ Turns /\ left' = still
  <2>1. Date \in Int
    BY DEF Placed, Active, Transaction, Date
  <2>2. u \in Unknown
    BY DEF TypeOK
  <2>3. u.at \in DOMAIN postings
    BY DEF Placed
  <2>4. /\ postings \in Seq(Posting)
        /\ weights \in [OptCurrency -> Int] /\ entries \in Seq(Entry)
    BY DEF TypeOK
  <2>5. postings[u.at] \in Posting
    BY <2>3, <2>4
  <2>6. PostingsInv /\ EntriesWeigh /\ BareAutos /\ Turns
    BY DEF Settling, Inferring
  <2>7. left' = still
    BY DEF Resolve
  <2> QED BY <2>1, <2>2, <2>3, <2>4, <2>5, <2>6, <2>7
<1>2. p \in Posting
  BY <1>1, CandidateType
<1>3. \/ p.cost = None /\ Weight(p).num = -weights[c]
      \/ /\ p.cost \in Cost /\ ~p.cost.booked /\ p.units # 0
         /\ p.cost.per = None /\ p.cost.total = -weights[c] /\ p.cost.cur = c
  <2> DEFINE bare == postings[u.at]
  <2>1. bare \in Posting /\ BareAuto(bare) /\ (bare.auto \/ bare.units # 0)
    BY <1>1 DEF BareAutos, HasZeroUnits
  <2> HIDE DEF bare
  <2>2. \/ Candidate(bare, c).cost = None /\ Weight(Candidate(bare, c)).num = -weights[c]
        \/ /\ Candidate(bare, c).cost \in Cost
           /\ ~Candidate(bare, c).cost.booked /\ Candidate(bare, c).units # 0
           /\ Candidate(bare, c).cost.per = None
           /\ Candidate(bare, c).cost.total = -weights[c]
           /\ Candidate(bare, c).cost.cur = c
    BY <1>1, <2>1, CandidateBalances
  <2> QED BY <2>2 DEF bare
<1>4. ~p.auto
  <2>1. postings[u.at].auto \/ postings[u.at].com # None
    BY <1>1 DEF PostingsInv
  <2>2. postings[u.at].auto => Named(postings[u.at].cost)
    BY <1>1 DEF PostingsInv
  <2> QED BY <1>1, <2>1, <2>2, CandidateIsWritten
<1>5. next = "bidders" =>
         /\ \A v \in unknown : v.at \in still =>
               Uninferred(entries, v.cur) /\ v.cur \notin loose /\ v.cur # c
         /\ \A d \in loose : Uninferred(entries, d) /\ d # c
  BY <1>1 DEF Turns, InPhase
<1> HIDE DEF p
<1>6. CASE Refusal(p) # None
  <2>1. phase' = next /\ UNCHANGED <<postings, entries, unknown, weights, loose>>
    BY <1>6 DEF Resolve, p
  <2>2. EntriesWeigh' /\ BareAutos'
    <3>1. \A k \in DOMAIN postings : k \in DOMAIN postings' /\ postings'[k] = postings[k]
      BY <2>1
    <3>2. BareAutos'
      BY <1>1, <2>1 DEF BareAutos
    <3> QED BY <1>1, <2>1, <3>1, <3>2, WeighsTheSame
  <2>3. ~Reducing' /\ Turns'
    BY <1>1, <1>5, <2>1 DEF Turns, InPhase, Reducing
  <2> QED BY <2>2, <2>3 DEF Inferring
<1>7. CASE Refusal(p) = None /\ ~DoesReduce(p)
  <2>1. /\ Added(p, lot, u.at, c, TRUE)
        /\ postings' = [postings EXCEPT ![u.at] = booked]
        /\ unknown' = (unknown \ {u}) \cup {[u EXCEPT !.cur = c]}
        /\ phase' = next /\ UNCHANGED <<weights, loose>>
    BY <1>7 DEF Resolve, p
  <2>2. lot \in Lot /\ booked \in Posting
    BY <1>1, <1>2, <1>7, AugmentsWell
  <2>3. p.cost \in Cost => lot.cur = p.cost.cur
    BY NoneIsNoValue DEF ResolveLot
  <2>4. ~booked.auto
    BY <1>2, <1>4 DEF Posting
  <2>5. PICK e : /\ entries' = Append(entries, e) /\ e.at = u.at /\ e.group = c
                 /\ e.units = p.units /\ e.inferred
    BY <2>1 DEF Added
  <2>6. Balances(e, booked, weights[c])
    <3> DEFINE w == weights[c]
    <3>1. w \in Int /\ e.units = p.units
      BY <1>1, <2>5
    <3> HIDE DEF w, lot
    <3> QED BY <1>2, <1>3, <2>2, <2>3, <3>1, AugmentedBalances DEF w
  <2> HIDE DEF lot, booked
  <2>7. e \in Entry
    <3>1. entries' \in Seq(Entry)
      BY DEF TypeOK
    <3>2. Len(entries) + 1 \in DOMAIN entries' /\ entries'[Len(entries) + 1] = e
      BY <1>1, <2>5
    <3> QED BY <3>1, <3>2
  <2>8. EntriesWeigh'
    <3>1. /\ Uninferred(entries, e.group) /\ Balances(e, booked, weights[e.group])
          /\ ~HasEntry(entries, e.at)
          /\ e.at \in DOMAIN postings /\ postings' = [postings EXCEPT ![e.at] = booked]
      BY <1>1, <2>1, <2>5, <2>6
    <3> QED BY <1>1, <2>1, <2>2, <2>5, <2>7, <3>1, WeighsOneMore
  <2>9. BareAutos'
    <3>1. BareAuto(booked)
      BY <2>4 DEF BareAuto
    <3> QED BY <1>1, <2>1, <3>1, StaysBare
  <2>10. ASSUME NEW d, Uninferred(entries, d), d # c PROVE Uninferred(entries', d)
    BY <1>1, <2>5, <2>7, <2>10, UninferredMore
  <2>11. next = "bidders" => \A v \in unknown' : v.at \in still => v \in unknown
    <3>1. [u EXCEPT !.cur = c].at = u.at
      BY <1>1 DEF Unknown
    <3> QED BY <2>1, <3>1
  <2>12. ~Reducing' /\ Turns'
    BY <1>1, <1>5, <2>1, <2>10, <2>11 DEF Turns, InPhase, Reducing
  <2> QED BY <2>8, <2>9, <2>12 DEF Inferring
<1>8. CASE Refusal(p) = None /\ DoesReduce(p)
  <2>1. /\ StartReducing(p, u.at, c, TRUE, next)
        /\ UNCHANGED <<postings, entries, unknown, weights, loose>>
    BY <1>8 DEF Resolve, txnVars, p
  <2>2. /\ phase' = "take" /\ job'.inferred /\ job'.posting = p /\ job'.group = c
        /\ job'.back = next
    BY <2>1 DEF StartReducing
  <2>3. EntriesWeigh' /\ BareAutos'
    <3>1. \A k \in DOMAIN postings : k \in DOMAIN postings' /\ postings'[k] = postings[k]
      BY <2>1
    <3>2. BareAutos'
      BY <1>1, <2>1 DEF BareAutos
    <3> QED BY <1>1, <2>1, <3>1, <3>2, WeighsTheSame
  <2>4. JobTakes'
    <3>1. CASE p.cost = None /\ Weight(p).num = -weights[c]
      BY <2>1, <2>2, <3>1 DEF JobTakes
    <3>2. CASE p.cost \in Cost /\ ~p.cost.booked /\ p.cost.cur = c
      <4>1. p.cost # None
        BY <3>2, NoneIsNoValue
      <4>2. ~Matches(p, Cash)
        BY <3>2, <4>1 DEF Matches, Cash
      <4> QED BY <2>2, <3>2, <4>1, <4>2 DEF JobTakes
    <3> QED BY <1>3, <3>1, <3>2
  <2>5. JobBalances'
    BY <2>1, <2>2, <2>4 DEF JobBalances
  <2>6. Turns'
    BY <1>1, <1>5, <2>1, <2>2 DEF Turns, InPhase, Reducing
  <2> QED BY <2>3, <2>5, <2>6 DEF Inferring
<1> QED BY <1>6, <1>7, <1>8

LEMMA InferPass2 ==
    TypeOK /\ TypeOK' /\ Placed /\ Settling /\ EntriesInv /\ Inferring
    /\ (BeginPass2 \/ (\E u \in unknown : FailBidders(u) \/ ResolveBidder(u))
        \/ EndBidders \/ FailFree \/ NoneFree
        \/ \E u \in unknown, c \in loose : ResolveFree(u, c))
    => Inferring'
<1> SUFFICES ASSUME TypeOK, TypeOK', Placed, Settling, EntriesInv, Inferring PROVE
       /\ BeginPass2 => Inferring'
       /\ (\E u \in unknown : FailBidders(u)) => Inferring'
       /\ (\E u \in unknown : ResolveBidder(u)) => Inferring'
       /\ EndBidders \/ NoneFree \/ FailFree => Inferring'
       /\ (\E u \in unknown, c \in loose : ResolveFree(u, c)) => Inferring'
  OBVIOUS
<1>1. PostingsInv /\ EntriesWeigh /\ BareAutos /\ Turns
  BY DEF Settling, Inferring
<1>2. ASSUME UNCHANGED <<postings, entries, weights>> PROVE EntriesWeigh' /\ BareAutos'
  <2>1. \A k \in DOMAIN postings : k \in DOMAIN postings' /\ postings'[k] = postings[k]
    BY <1>2
  <2>2. BareAutos'
    BY <1>1, <1>2 DEF BareAutos
  <2> QED BY <1>1, <1>2, <2>1, <2>2, WeighsTheSame
<1>3. ASSUME BeginPass2 PROVE Inferring'
  <2> DEFINE bidding == {u \in unknown : u.cur \notin dropped \cup {None}}
  <2>1. /\ phase = "pass1" /\ phase' = "bidders"
        /\ UNCHANGED <<postings, entries, unknown, weights>>
        /\ left' = {u.at : u \in bidding}
        /\ \A c \in loose' : \A u \in bidding : u.cur # c
    BY <1>3 DEF BeginPass2
  <2>2. \A c : Uninferred(entries, c)
    BY <2>1 DEF EntriesInv, InPhase, Uninferred
  <2>3. \A u \in unknown : u.at \in left' => u \in bidding
    BY <1>1, <2>1 DEF PostingsInv
  <2>4. ~Reducing' /\ Turns'
    BY <2>1, <2>2, <2>3 DEF Turns, InPhase, Reducing
  <2> QED BY <1>2, <2>1, <2>4 DEF Inferring
<1>4. ASSUME NEW u \in unknown, FailBidders(u) PROVE Inferring'
  <2>1. /\ phase = "bidders" /\ phase' = "bidders" /\ left' \subseteq left
        /\ UNCHANGED <<postings, entries, unknown, weights, loose>>
    BY <1>4 DEF FailBidders, GiveUp
  <2>2. ~Reducing' /\ Turns'
    BY <1>1, <2>1 DEF Turns, InPhase, Reducing
  <2> QED BY <1>2, <2>1, <2>2 DEF Inferring
<1>5. ASSUME NEW u \in unknown, ResolveBidder(u) PROVE Inferring'
  <2> DEFINE still == left \ {u.at}
             c == u.cur
  <2>1. /\ phase = "bidders" /\ u.at \in left /\ Rivals(u) = {u} /\ ~HasZeroUnits(u)
        /\ Resolve(u, c, {c}, "bidders", still)
    BY <1>5 DEF ResolveBidder, First
  <2>2. /\ c \in OptCurrency /\ c # None /\ ~HasEntry(entries, u.at)
    BY <2>1 DEF TypeOK, Unknown, Settling, UnknownInv, InPhase, EntriesInv
  <2>3. Uninferred(entries, c) /\ c \notin loose
    BY <1>1, <2>1 DEF Turns, InPhase
  <2>4. still \subseteq left /\ u.at \notin still
    OBVIOUS
  <2>5. \A v \in unknown : v.at \in still => v.cur # c
    <3> SUFFICES ASSUME NEW v \in unknown, v.at \in still, v.cur = c PROVE FALSE
      OBVIOUS
    <3>1. v \in Rivals(u)
      BY DEF Rivals
    <3> QED BY <2>1, <3>1
  <2> DEFINE curs == {c}
  <2>6. Resolve(u, c, curs, "bidders", still)
    BY <2>1
  <2> HIDE DEF still, c, curs
  <2> QED BY <2>1, <2>2, <2>3, <2>4, <2>5, <2>6, InferResolve
<1>6. ASSUME EndBidders \/ NoneFree \/ FailFree PROVE Inferring'
  <2>1. /\ phase \in {"bidders", "free"}
        /\ phase' = "settle" \/ (phase = "bidders" /\ phase' = "free")
        /\ UNCHANGED <<postings, entries, unknown, weights, loose>>
    BY <1>6 DEF EndBidders, NoneFree, FailFree, GiveUp, txnVars
  <2>2. ~Reducing' /\ Turns'
    BY <1>1, <2>1 DEF Turns, InPhase, Reducing
  <2> QED BY <1>2, <2>1, <2>2 DEF Inferring
<1>7. ASSUME NEW u \in unknown, NEW c \in loose, ResolveFree(u, c) PROVE Inferring'
  <2> DEFINE curs == {c, None}
             still == {}
  <2>1. /\ phase = "free" /\ u.cur = None /\ ~HasZeroUnits(u)
        /\ Resolve(u, c, curs, "settle", still)
    BY <1>7 DEF ResolveFree, Free
  <2>2. c \in OptCurrency /\ c # None
    BY <2>1 DEF TypeOK, Settling, UnknownInv
  <2>3. ~HasEntry(entries, u.at)
    BY <2>1 DEF EntriesInv, Books, Owned, HasEntry
  <2>4. Uninferred(entries, c)
    BY <1>1, <2>1 DEF Turns
  <2> HIDE DEF curs, still
  <2> QED BY <2>1, <2>2, <2>3, <2>4, InferResolve
<1> QED BY <1>3, <1>4, <1>5, <1>6, <1>7

LEMMA InferElse ==
    TypeOK /\ TypeOK' /\ Placed /\ Settling /\ Inferring
    /\ (Settle \/ (\E j \in left : Undo(j)) \/ Commit
        \/ PassThrough \/ RejectTransaction \/ BeginTransaction \/ Return \/ UNCHANGED vars)
    => Inferring'
<1> SUFFICES ASSUME TypeOK, TypeOK', Placed, Settling, Inferring,
                    Settle \/ (\E j \in left : Undo(j)) \/ Commit
                    \/ PassThrough \/ RejectTransaction \/ BeginTransaction \/ Return
                    \/ UNCHANGED vars
             PROVE  Inferring'
  OBVIOUS
<1>1. PostingsInv /\ EntriesWeigh /\ BareAutos
  BY DEF Settling, Inferring
<1>2. ASSUME UNCHANGED <<postings, entries, weights>> PROVE EntriesWeigh' /\ BareAutos'
  <2>1. \A k \in DOMAIN postings : k \in DOMAIN postings' /\ postings'[k] = postings[k]
    BY <1>2
  <2>2. BareAutos'
    BY <1>1, <1>2 DEF BareAutos
  <2> QED BY <1>1, <1>2, <2>1, <2>2, WeighsTheSame
<1>3. CASE Settle \/ (\E j \in left : Undo(j)) \/ Commit
           \/ PassThrough \/ RejectTransaction \/ Return
  <2>1. /\ UNCHANGED <<postings, entries, weights>>
        /\ phase' \in {"undo", "walk", "done"}
    BY <1>3 DEF Settle, Undo, Commit, PassThrough, RejectTransaction, Return, txnVars
  <2>2. ~Reducing' /\ Turns'
    BY <2>1 DEF Turns, InPhase, Reducing
  <2> QED BY <1>2, <2>1, <2>2 DEF Inferring
<1>4. CASE BeginTransaction
  <2>1. /\ phase' = "pass1" /\ postings' = <<>> /\ entries' = <<>>
        /\ weights' = [c \in OptCurrency |-> 0]
    BY <1>4 DEF BeginTransaction
  <2>2. DOMAIN entries' = {} /\ DOMAIN postings' = {}
    BY <2>1
  <2>3. \A c : PlainSum(entries', postings', c) = 0
    <3>1. \A c : Plain(entries', c) = {}
      BY <2>2 DEF Plain
    <3> QED BY <3>1, SumEmpty DEF PlainSum
  <2>4. EntriesWeigh' /\ BareAutos'
    BY <2>1, <2>2, <2>3 DEF EntriesWeigh, Weighing, OnePerGroup, AllBalance, BareAutos
  <2>5. ~Reducing' /\ Turns'
    BY <2>1 DEF Turns, InPhase, Reducing
  <2> QED BY <2>4, <2>5 DEF Inferring
<1>5. CASE UNCHANGED vars
  <2>1. UNCHANGED <<postings, entries, weights, unknown, loose, phase, job, left>>
    BY <1>5 DEF vars, txnVars
  <2>2. (Reducing => JobBalances)' <=> (Reducing => JobBalances)
    BY <2>1 DEF JobBalances, JobTakes, Reducing
  <2>3. Turns'
    BY <2>1 DEF Inferring, Turns, InPhase, Reducing
  <2> QED BY <1>2, <2>1, <2>2, <2>3 DEF Inferring
<1> QED BY <1>3, <1>4, <1>5

LEMMA SumOfWeights ==
    ASSUME NEW es, NEW ps, NEW S \in SUBSET DOMAIN es, IsFiniteSet(S)
    PROVE  MapThenSumSet(LAMBDA k : Weight(ps[es[k].at]).num, S) = Sum(WeightsBooked(es, ps), S)
<1> DEFINE Right(a) == a = [s \in SUBSET S |->
                IF s = {} THEN 0 ELSE Weight(ps[es[Picked(s)].at]).num + a[Less(s, Picked(s))]]
           own == CHOOSE a : Right(a)
<1>1. MapThenSumSet(LAMBDA k : Weight(ps[es[k].at]).num, S) = own[S]
  BY DEF MapThenSumSet, MapThenFoldSet, Picked, Less
<1>2. PICK sum : Adds(WeightsBooked(es, ps), S, sum)
  BY FoldExists
<1>3. \A s \in SUBSET S :
         s # {} => WeightsBooked(es, ps)[Picked(s)] = Weight(ps[es[Picked(s)].at]).num
  BY PickedIsIn DEF WeightsBooked
<1> HIDE DEF WeightsBooked
<1>4. ASSUME NEW a PROVE Right(a) <=> Adds(WeightsBooked(es, ps), S, a)
  BY <1>3 DEF Adds
<1>5. \E a : Right(a)
  BY <1>2, <1>4
<1>6. Right(own)
  BY <1>5
<1> HIDE DEF Right, own
<1>7. own[S] = Sum(WeightsBooked(es, ps), S)
  BY <1>4, <1>6, SumIsAdded
<1> QED BY <1>1, <1>7

\* InferredBalances: once a transaction is committed, the currency group an
\* unknown was inferred from adds up to zero, whatever the postings, unless the
\* group was dropped, a posting moved its weight to another currency, or the
\* residual of a total cost has the sign of the units.
THEOREM GroupsBalance == Spec => []InferredBalances
<1> DEFINE IInv == TypeOK /\ Placed /\ Settling /\ EntriesInv /\ Adding /\ Inferring
<1>1. Init => IInv
  <2> SUFFICES ASSUME Init PROVE IInv
    OBVIOUS
  <2>1. TypeOK /\ Placed
    BY InitPlaced
  <2>2. Settling /\ EntriesInv /\ Adding
    BY InitAdding
  <2>3. Inferring
    <3>1. /\ phase = "walk" /\ DOMAIN entries = {} /\ DOMAIN postings = {}
          /\ weights = [c \in OptCurrency |-> 0]
      BY DEF Init
    <3>2. \A c : PlainSum(entries, postings, c) = 0
      <4>1. \A c : Plain(entries, c) = {}
        BY <3>1 DEF Plain
      <4> QED BY <4>1, SumEmpty DEF PlainSum
    <3>3. EntriesWeigh /\ BareAutos
      BY <3>1, <3>2 DEF EntriesWeigh, Weighing, OnePerGroup, AllBalance, BareAutos
    <3> QED BY <3>1, <3>3 DEF Inferring, Reducing, Turns, InPhase
  <2> QED BY <2>1, <2>2, <2>3
<1>2. IInv /\ [Next]_vars => IInv'
  <2> SUFFICES ASSUME IInv, [Next]_vars PROVE IInv'
    OBVIOUS
  <2>1. TypeOK' /\ Placed'
    BY NextPlaced
  <2>2. Settling' /\ EntriesInv' /\ Adding'
    BY <2>1, NextAdding
  <2>3. Earlier
    BY DEF Adding
  <2>4. Inferring'
    BY <2>1, <2>3, InferPass1, InferTaking, InferRecord, InferEndReducing, InferPass2, InferElse
       DEF Next, Returned
  <2> QED BY <2>1, <2>2, <2>4
<1>3. IInv => InferredBalances
  <2> SUFFICES ASSUME IInv, NEW j \in DOMAIN entries, entries[j].inferred
               PROVE  LET e == entries[j]
                          group == {k \in DOMAIN entries : entries[k].group = e.group}
                      IN  \/ \E k \in DOMAIN entries : MovesWeight(entries[k])
                          \/ /\ postings[e.at].cost # None
                             /\ Sign(e.units) = Sign(weights[e.group])
                          \/ MapThenSumSet(LAMBDA k : Weight(postings[entries[k].at]).num, group)
                             = 0
    BY DEF InferredBalances
  <2> DEFINE g == entries[j].group
             group == {k \in DOMAIN entries : entries[k].group = g}
             own == Weight(postings[entries[j].at]).num
  <2>1. /\ entries \in Seq(Entry) /\ postings \in Seq(Posting) /\ g \in OptCurrency
        /\ weights \in [OptCurrency -> Int]
        /\ \A k \in DOMAIN entries : entries[k].at \in DOMAIN postings
    <3>1. /\ entries \in Seq(Entry) /\ postings \in Seq(Posting)
          /\ weights \in [OptCurrency -> Int]
      BY DEF TypeOK
    <3>2. entries[j] \in Entry
      BY <3>1
    <3>3. g \in OptCurrency
      BY <3>2 DEF Entry
    <3>4. \A k \in DOMAIN entries : entries[k].at \in DOMAIN postings
      BY DEF Settling, PostingsInv
    <3> QED BY <3>1, <3>3, <3>4
  <2>2. \/ MovesWeight(entries[j])
        \/ /\ postings[entries[j].at].cost # None
           /\ Sign(entries[j].units) = Sign(weights[g])
        \/ own = -weights[g]
    BY DEF Inferring, EntriesWeigh, AllBalance, Balances
  <2>3. group = More(Plain(entries, g), j) /\ j \notin Plain(entries, g)
    <3>1. \A k \in group : entries[k].inferred => k = j
      BY DEF Inferring, EntriesWeigh, OnePerGroup
    <3>2. Plain(entries, g) = {k \in group : ~entries[k].inferred}
      BY DEF Plain
    <3>3. j \in group
      OBVIOUS
    <3> HIDE DEF group, g
    <3> QED BY <3>1, <3>2, <3>3 DEF More
  <2>4. group \in SUBSET DOMAIN entries
    OBVIOUS
  <2> HIDE DEF g, group
  <2>5. /\ IsFiniteSet(Plain(entries, g))
        /\ \A k \in DOMAIN entries :
              /\ WeightsBooked(entries, postings)[k] = Weight(postings[entries[k].at]).num
              /\ WeightsBooked(entries, postings)[k] \in Int
    BY <2>1, PlainType
  <2>6. /\ IsFiniteSet(group)
        /\ Sum(WeightsBooked(entries, postings), group)
           = own + Sum(WeightsBooked(entries, postings), Plain(entries, g))
    <3>1. \A k \in More(Plain(entries, g), j) : WeightsBooked(entries, postings)[k] \in Int
      BY <2>3, <2>4, <2>5
    <3>2. /\ IsFiniteSet(More(Plain(entries, g), j))
          /\ Sum(WeightsBooked(entries, postings), More(Plain(entries, g), j))
             = WeightsBooked(entries, postings)[j]
               + Sum(WeightsBooked(entries, postings), Plain(entries, g))
      BY <2>3, <2>5, <3>1, SumMore
    <3> QED BY <2>3, <2>5, <3>2
  <2>7. Sum(WeightsBooked(entries, postings), Plain(entries, g)) = weights[g]
    BY <2>1 DEF Inferring, EntriesWeigh, Weighing, PlainSum
  <2>8. MapThenSumSet(LAMBDA k : Weight(postings[entries[k].at]).num, group)
        = Sum(WeightsBooked(entries, postings), group)
    BY <2>4, <2>6, SumOfWeights
  <2>9. own = -weights[g]
        => MapThenSumSet(LAMBDA k : Weight(postings[entries[k].at]).num, group) = 0
    BY <2>1, <2>6, <2>7, <2>8
  <2> HIDE DEF own
  <2> QED BY <2>2, <2>9 DEF g, group
<1> QED BY <1>1, <1>2, <1>3, PTL DEF Spec
=============================================================================
