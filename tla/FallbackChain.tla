---------------------------- MODULE FallbackChain ----------------------------
(***************************************************************************)
(* What a fetch of pkg/quote promises to each price request: its sources   *)
(* are asked in the order of the request's fallback chain, the next one    *)
(* only after the previous one has answered without a price, and none      *)
(* after one that answered with a price.  Several requests may be asked    *)
(* for, and answered, in one step: they share batched calls.               *)
(***************************************************************************)
EXTENDS Naturals, Sequences

CONSTANT Units

VARIABLES
  chain,     \* the sources of each request, by priority; never changes
  asked,     \* how many of them have been asked
  answered,  \* how many of them have answered
  hit        \* the requests that have a price

Waiting(u) == answered[u] < asked[u]

Start ==
  /\ asked = [u \in Units |-> 0]
  /\ answered = [u \in Units |-> 0]
  /\ hit = {}

Ask(S) ==
  /\ \A u \in S : ~Waiting(u) /\ u \notin hit /\ asked[u] < Len(chain[u])
  /\ asked' = [u \in Units |-> IF u \in S THEN asked[u] + 1 ELSE asked[u]]
  /\ UNCHANGED <<chain, answered, hit>>

Answer(S, H) ==
  /\ \A u \in S : Waiting(u)
  /\ answered' = [u \in Units |-> IF u \in S THEN answered[u] + 1 ELSE answered[u]]
  /\ hit' = hit \cup H
  /\ UNCHANGED <<chain, asked>>

ChainNext == \E S \in SUBSET Units : Ask(S) \/ \E H \in SUBSET S : Answer(S, H)

ChainSpec == Start /\ [][ChainNext]_<<chain, asked, answered, hit>>
=============================================================================
