--------------------------- MODULE DirectiveMatch ---------------------------
(* The match rules of pkg/distribute/dedup/equality.go: when a directive     *)
(* read from an importer is taken for one that is filed already.             *)
(*                                                                           *)
(* A directive is a record:                                                  *)
(*   kind    "txn", another kind with a destination, or "unroutable"         *)
(*   dest    the file that route.Decide sends it to                          *)
(*   day     its date                                                        *)
(*   ids     its values under the configured id keys, a partial function     *)
(*   text    everything else that cmp.Equal compares, after normalisation    *)
(*   rank    the place of its kind among the directives of a day             *)
(*   keyed   the postings that state an amount, a sequence of records with    *)
(*           account, amount, currency, cost and price; cost and price are    *)
(*           None or what one unit costs, a number and a currency; flags are  *)
(*           left out                                                        *)
(*   elided  the account of the posting without one, or None                 *)
EXTENDS Integers, Sequences, SequencesExt, Functions

CONSTANTS None, Currencies

(* idCompare: a key counts only when both directives carry it, and a         *)
(* conflict under one key wins over equality under another.                  *)
SharedKeys(a, b) == DOMAIN a.ids \cap DOMAIN b.ids
IdConflict(a, b) == \E k \in SharedKeys(a, b) : a.ids[k] # b.ids[k]
IdEqual(a, b)    == SharedKeys(a, b) # {} /\ ~IdConflict(a, b)

Abs(n) == IF n < 0 THEN -n ELSE n

(* How two postings with amounts are compared by the rule "exact", and by    *)
(* the rule "structural".                                                    *)
PostingEqual(rule, p, q) ==
    /\ p.account = q.account /\ p.currency = q.currency
    /\ IF rule = "structural" THEN Abs(p.amount) = Abs(q.amount) ELSE p = q

(* multisetEqual: its greedy assignment finds a bijection if there is one,   *)
(* because its eq is an equivalence.                                          *)
MultisetEqual(rule, s, t) ==
    /\ Len(s) = Len(t)
    /\ \E f \in Bijection(DOMAIN s, DOMAIN t) :
           \A i \in DOMAIN s : PostingEqual(rule, s[i], t[f[i]])

(* subsetWithLeftoverAccount: the one posting of super left over stands for  *)
(* the posting that sub elides, whatever its amount, currency or cost.       *)
SubsetWithLeftover(rule, sub, super, acct) ==
    /\ Len(super) = Len(sub) + 1
    /\ \E f \in Injection(DOMAIN sub, DOMAIN super) :
           /\ \A i \in DOMAIN sub : PostingEqual(rule, sub[i], super[f[i]])
           /\ \A j \in DOMAIN super \ Range(f) : super[j].account = acct

MatchPostings(rule, a, b) ==
    \/ /\ a.elided = b.elided
       /\ MultisetEqual(rule, a.keyed, b.keyed)
    \/ /\ a.elided # None /\ b.elided = None
       /\ SubsetWithLeftover(rule, a.keyed, b.keyed, a.elided)
    \/ /\ a.elided = None /\ b.elided # None
       /\ SubsetWithLeftover(rule, b.keyed, a.keyed, b.elided)

Exact(a, b) ==
    /\ a.kind = b.kind /\ a.day = b.day /\ a.text = b.text
    /\ MatchPostings("exact", a, b)

Structural(a, b, window) ==
    /\ window > 0
    /\ a.kind = "txn" /\ b.kind = "txn"
    /\ Abs(a.day - b.day) <= window
    /\ MatchPostings("structural", a, b)

(* equivalent: the rules in their order of priority.                         *)
MatchKind(a, b, window) ==
    CASE IdConflict(a, b) -> "none"
      [] IdEqual(a, b)    -> "id"
      [] OTHER -> IF Exact(a, b) THEN "exact"
                  ELSE IF Structural(a, b, window) THEN "structural"
                  ELSE "none"

SkipCapable_Review(k) == k # "none"  \* mutant: review-only matches skip too
SkipCapable(k) == k \in {"id", "exact"}

-----------------------------------------------------------------------------
(* What the rules are for, stated without them: two directives record the    *)
(* same event if an id says so, or if nothing but ids tells them apart once   *)
(* the elided posting has got the amounts that balance the others.           *)
Total(numbers) == FoldLeft(LAMBDA sum, n : sum + n, 0, numbers)

(* A posting weighs what its units cost, or sell for, or are.                *)
Weight(p, c) ==
    LET rate == IF p.cost # None THEN p.cost ELSE p.price
    IN  IF rate = None THEN (IF p.currency = c THEN p.amount ELSE 0)
        ELSE IF rate.currency = c THEN p.amount * rate.number ELSE 0

Residual(postings, c) == Total([i \in DOMAIN postings |-> Weight(postings[i], c)])

Units(acct, n, c) ==
    [account |-> acct, amount |-> n, currency |-> c, cost |-> None, price |-> None]

(* What a posting stands for: one stated change, or one in every currency    *)
(* that the others leave open. A change by nothing is none.                  *)
Leg(changes) == {p \in changes : p.amount # 0}
Stated(d) == [i \in DOMAIN d.keyed |-> Leg({d.keyed[i]})]
Elided(d) == Leg({Units(d.elided, -Residual(d.keyed, c), c) : c \in Currencies})
Legs(d) == IF d.elided = None THEN Stated(d) ELSE Append(Stated(d), Elided(d))

SameEvent(a, b) ==
    \/ IdEqual(a, b)
    \/ /\ ~IdConflict(a, b)
       /\ a.kind = b.kind /\ a.day = b.day /\ a.text = b.text
       /\ \E f \in Bijection(DOMAIN Legs(a), DOMAIN Legs(b)) :
              \A i \in DOMAIN Legs(a) : Legs(a)[i] = Legs(b)[f[i]]

(* Where only a elides a posting, a match presumes that b balances and states *)
(* plain units in that account. Nothing between the importer and the index    *)
(* checks it: the sources and the ledger's files are parsed, not booked.      *)
Plain(p) == p.cost = None /\ p.price = None

MatchIsPresumed(a, b) ==
    /\ a.elided # None /\ b.elided = None
    /\ \/ \E c \in Currencies : Residual(b.keyed, c) # 0
       \/ \E i \in DOMAIN b.keyed : b.keyed[i].account = a.elided /\ ~Plain(b.keyed[i])

(* a stands for b in the books, or is presumed to.                           *)
Records(a, b) ==
    \/ SameEvent(a, b)
    \/ Exact(a, b) /\ (MatchIsPresumed(a, b) \/ MatchIsPresumed(b, a))
=============================================================================
