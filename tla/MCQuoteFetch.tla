----------------------------- MODULE MCQuoteFetch -----------------------------
(* Instances of QuoteFetch for TLC. *)
EXTENDS QuoteFetch

CONSTANTS u1, u2, u3, p1, p2, a, b, x, y

ThreeUnits == {u1, u2, u3}
SharedPair == [u \in ThreeUnits |-> IF u = u3 THEN p2 ELSE p1]

(* x is in no registry; y serves the latest price only.                    *)
Methods == [n \in {a, b, x, y} |->
              CASE n = a -> {"at"} [] n = b -> {"range", "latest"}
                [] n = x -> {} [] n = y -> {"latest"}]

(* Chains in opposite priorities, a repeated source, unknown and           *)
(* unsupported ones, and no source at all.                                 *)
MixedChains == {<<a, b>>, <<b, a>>, <<a, a>>, <<x, y, b>>, <<y>>, <<>>}
=============================================================================
