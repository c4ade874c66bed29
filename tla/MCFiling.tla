------------------------------ MODULE MCFiling ------------------------------
(* Instance of Filing. A transfer from account "a" to account "b" reaches the *)
(* ledger through the statements of both banks; further directives look like  *)
(* it, and differ in one respect each.                                        *)
EXTENDS Filing

Posting(account, amount) == Units(account, amount, "EUR")
Bought(account, amount, number) ==
    [Units(account, amount, "STK") EXCEPT !.cost = [number |-> number, currency |-> "EUR"]]
NoId == [k \in {} |-> 0]
Id(n) == [k \in {"import-id"} |-> n]

Transfer == [kind |-> "txn", dest |-> 1, day |-> 1, rank |-> 4, ids |-> NoId, text |-> "t",
             keyed |-> <<Posting("a", -5), Posting("b", 5)>>, elided |-> None]
Mirrored == [Transfer EXCEPT !.keyed = <<Posting("b", 5), Posting("a", -5)>>, !.dest = 2]

Payment == [Transfer EXCEPT !.keyed = <<Posting("a", -7), Posting("b", 7)>>]

(* elided: one posting left to balance; mirror: in the other bank's order;    *)
(* incoming: the other bank's view, with another day, wording and sign;       *)
(* later, mirror2: the next day; tagged1, tagged2: with ids; split, split2:   *)
(* the same accounts, divided in two ways; bought, paid: for the same money,  *)
(* stock and an elided posting; pay, repay: a transfer in both banks' views   *)
(* that nothing else is like.                                                 *)
Data ==
    "transfer" :> Transfer
 @@ "elided"   :> [Transfer EXCEPT !.keyed = <<Posting("a", -5)>>, !.elided = "b"]
 @@ "mirror"   :> Mirrored
 @@ "incoming" :> [Transfer EXCEPT !.day = 2, !.text = "u", !.dest = 2,
                                   !.keyed = <<Posting("b", 5)>>, !.elided = "a"]
 @@ "later"    :> [Transfer EXCEPT !.day = 2]
 @@ "mirror2"  :> [Mirrored EXCEPT !.day = 2]
 @@ "tagged1"  :> [Transfer EXCEPT !.ids = Id(1)]
 @@ "tagged2"  :> [Transfer EXCEPT !.ids = Id(2)]
 @@ "split"    :> [Transfer EXCEPT !.keyed = <<Posting("a", 5), Posting("b", 3)>>, !.elided = "c"]
 @@ "split2"   :> [Transfer EXCEPT !.keyed = <<Posting("a", 5), Posting("b", -3), Posting("c", -2)>>]
 @@ "elsewhere" :> [Transfer EXCEPT !.dest = 3, !.day = 3]
 @@ "elsewhere1" :> [Transfer EXCEPT !.dest = 3]
 @@ "bought"   :> [Transfer EXCEPT !.keyed = <<Bought("a", 10, 5), Posting("b", -50)>>]
 @@ "paid"     :> [Transfer EXCEPT !.keyed = <<Posting("b", -50)>>, !.elided = "a"]
 @@ "pay"      :> Payment
 @@ "repay"    :> [Payment EXCEPT !.dest = 2, !.text = "u", !.elided = "a",
                                  !.keyed = <<Posting("b", 7)>>]
 @@ "event"    :> [Transfer EXCEPT !.kind = "unroutable", !.text = "e"]

Source(ds) == [ok |-> TRUE, directives |-> ds]
Broken     == [ok |-> FALSE, directives |-> <<>>]

MixedInputs ==
    { <<Source(<<"transfer", "elided", "incoming">>)>>,
      <<Source(<<"mirror", "later">>), Source(<<"elided", "mirror2">>)>>,
      <<Source(<<"tagged1", "tagged2", "later", "elsewhere">>)>>,
      <<Source(<<"split", "split2">>), Source(<<"event">>)>>,
      <<Source(<<"transfer">>), Broken>>,
      <<Source(<<"elsewhere1">>)>>,
      <<Source(<<"bought", "paid">>)>>,
      <<Source(<<"pay", "repay">>)>> }

TransfersOfBoth == { <<Source(<<"transfer", "mirror", "later", "mirror2">>)>> }

Names == DOMAIN Data
CurrencyNames == {"EUR", "STK"}
PurchaseOfOne == { <<Source(<<"bought", "paid">>)>> }
AccountNames == {"a", "b", "c"}
ThreeFiles == 1 .. 3
Ascending == [p \in ThreeFiles |-> "ascending"]
MixedOrder == 1 :> "ascending" @@ 2 :> "descending" @@ 3 :> "append"
NoWindow == [p \in ThreeFiles |-> 0]
MixedWindow == [p \in ThreeFiles |-> IF p = 3 THEN 0 ELSE p]
Nowhere == [p \in ThreeFiles |-> FALSE]
AllButThird == [p \in ThreeFiles |-> p # 3]
AllFlags == [dryRun : BOOLEAN, passThrough : BOOLEAN]
WriteOnly == {[dryRun |-> FALSE, passThrough |-> FALSE]}
EmptyDisk == [p \in ThreeFiles |-> <<>>]
=============================================================================
