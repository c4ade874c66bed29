----------------------------- MODULE LedgerStore -----------------------------
(***************************************************************************)
(* What a session promises about its cached ledger, without goroutines,    *)
(* waiters or subscribers: an input that may be edited at any time, and a  *)
(* published ledger that is replaced only by the outcome of the one build  *)
(* in progress, made from the input as it stood when that build began.     *)
(* Builds are numbered in the order they begin; the published ledger never *)
(* goes back to an earlier build, and nothing changes once the store is    *)
(* shut.                                                                   *)
(***************************************************************************)
EXTENDS Naturals

CONSTANTS
  Inputs,      \* what a ledger can be built from
  FirstInput,  \* the input of the ledger the store is created with
  NoBuild      \* no build is in progress

VARIABLES
  input,       \* the current input
  published,   \* the published ledger: [load, overlay]
  build,       \* the ledger being built, or NoBuild
  builds,      \* how many builds have begun
  open         \* the store has not been shut

storeVars == <<input, published, build, builds, open>>

StoreInit ==
  /\ input = FirstInput
  /\ published = [load |-> 0, overlay |-> FirstInput]
  /\ build = NoBuild
  /\ builds = 0
  /\ open = TRUE

Edit ==
  /\ open
  /\ input' \in Inputs
  /\ UNCHANGED <<published, build, builds, open>>

Begin ==
  /\ open /\ build = NoBuild
  /\ builds' = builds + 1
  /\ build' = [load |-> builds + 1, overlay |-> input]
  /\ UNCHANGED <<input, published, open>>

Publish ==
  /\ open /\ build # NoBuild
  /\ published' = build
  /\ build' = NoBuild
  /\ UNCHANGED <<input, builds, open>>

Abandon ==
  /\ build # NoBuild
  /\ build' = NoBuild
  /\ UNCHANGED <<input, published, builds, open>>

Shut ==
  /\ open' = FALSE
  /\ UNCHANGED <<input, published, build, builds>>

StoreNext == Edit \/ Begin \/ Publish \/ Abandon \/ Shut

StoreSpec == StoreInit /\ [][StoreNext]_storeVars
=============================================================================
