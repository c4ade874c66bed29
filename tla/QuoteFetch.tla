------------------------------ MODULE QuoteFetch ------------------------------
(***************************************************************************)
(* The orchestrator of pkg/quote (scheduler.go): price requests walk their *)
(* fallback chains in levels.  At a level every unresolved request is sent *)
(* to its next source, one batched call per source, each in a goroutine of *)
(* its own under one semaphore; when all of them have returned, requests   *)
(* with a price are resolved and the others advance.                       *)
(*                                                                         *)
(* A source either is not registered, or cannot serve the mode of the      *)
(* fetch, or is called.  A call that returns yields prices for any set of  *)
(* pairs, requested or not, or fails (an error or a recovered panic).  A   *)
(* price is known by its pair and by the call that returned it, and a call *)
(* by its level and its source.                                            *)
(***************************************************************************)
EXTENDS Naturals, Sequences, FiniteSets

CONSTANTS
  Units,        \* the price requests
  Pairs,        \* commodity and quote currency
  PairOf,       \* the pair of each request
  Sources,      \* names of sources
  Chains,       \* the fallback chains that a request may have
  Unknown,      \* sources that are not in the registry
  Implements,   \* the sub-interfaces that each source implements
  Mode,         \* "latest", "at" or "range": which Fetch was called
  NowInside,    \* the clock is inside the interval that Fetch asks for
  Concurrency   \* WithConcurrency, clamped to at least 1

ASSUME PairAssumption == PairOf \in [Units -> Pairs]
ASSUME ChainAssumption == Chains \subseteq Seq(Sources)
ASSUME ConcurrencyAssumption == Concurrency \in Nat \ {0}
ASSUME ImplementsAssumption == Implements \in [Sources -> SUBSET {"latest", "at", "range"}]
ASSUME UnitsAssumption == IsFiniteSet(Units) /\ IsFiniteSet(Sources)

VARIABLES
  chain,            \* PriceRequest.Sources
  depth, done, got, \* the fields of the units
  phase,            \* where runFetch stands
  level,            \* its loop counter
  call,             \* the goroutine of each source at this level
  sem,              \* slots of the semaphore that are taken
  collected, diags, \* what has been collected
  ctxDone,          \* the caller's ctx is cancelled
  err,              \* the error returned
  failed            \* history: calls that failed, by level and source

unitVars   == <<depth, done, got>>
resultVars == <<collected, diags>>
fetchVars  == <<chain, unitVars, phase, level, call, sem, resultVars, ctxDone, err, failed>>

-----------------------------------------------------------------------------
(* The planners: a source that has none of the methods that can stand in   *)
(* for the mode is unsupported.                                            *)
Usable ==
  {"at", "range"} \cup IF Mode = "latest" \/ NowInside THEN {"latest"} ELSE {}
Unsupported == {n \in Sources : Implements[n] \cap Usable = {}}

Exhausted(u, d) == d >= Len(chain[u])

Current(u) == chain[u][depth[u] + 1]
Group(n) == {u \in Units : ~done[u] /\ Current(u) = n}

FetchInit ==
  /\ chain \in [Units -> Chains]
  /\ depth = [u \in Units |-> 0]
  /\ done = [u \in Units |-> FALSE]
  /\ got = [u \in Units |-> FALSE]
  /\ phase = "group"
  /\ level = 0
  /\ call = [n \in Sources |-> "none"]
  /\ sem = 0
  /\ collected = {}
  /\ diags = {}
  /\ ctxDone = FALSE
  /\ err = "none"
  /\ failed = {}

(* The requests that are left are grouped by source; one with an empty     *)
(* chain is done at once.  A goroutine begins for each group.              *)
StartLevel ==
  /\ phase = "group"
  /\ LET left == {u \in Units : ~done[u] /\ ~Exhausted(u, depth[u])}
     IN  /\ left # {}
         /\ done' = [u \in Units |-> u \notin left]
         /\ call' = [n \in Sources |->
                       IF \E u \in left : Current(u) = n THEN "begun" ELSE "none"]
  /\ phase' = "level"
  /\ UNCHANGED <<chain, depth, got, level, sem, resultVars, ctxDone, err, failed>>

(* Nothing is left: runFetch returns.                                      *)
Finish ==
  /\ phase = "group"
  /\ \A u \in Units : done[u] \/ Exhausted(u, depth[u])
  /\ done' = [u \in Units |-> TRUE]
  /\ phase' = "returned"
  /\ err' = IF collected = {} THEN "zero" ELSE "none"
  /\ UNCHANGED <<chain, depth, got, level, call, sem, resultVars, ctxDone, failed>>

-----------------------------------------------------------------------------
(* dispatchSource.                                                         *)
Report_Once(code, n) ==              \* mutant: one diagnostic for the batch
  {[code |-> code, unit |-> CHOOSE u \in Group(n) : TRUE, level |-> level]}
Report(code, n) == {[code |-> code, unit |-> u, level |-> level] : u \in Group(n)}

(* A source that is unknown or cannot serve the mode is not called.        *)
Skip(n) ==
  /\ call[n] = "begun"
  /\ n \in Unknown \cup Unsupported
  /\ call' = [call EXCEPT ![n] = "ended"]
  /\ diags' = diags \cup Report(IF n \in Unknown THEN "unknown" ELSE "unsupported", n)
  /\ UNCHANGED <<chain, unitVars, phase, level, sem, collected, ctxDone, err, failed>>

(* Otherwise the call waits for a slot, and gives up if ctx is cancelled   *)
(* first; when both may happen, either does.                               *)
Acquire == sem < Concurrency /\ sem' = sem + 1

BeginCall(n) ==
  /\ call[n] = "begun"
  /\ n \notin Unknown \cup Unsupported
  /\ Acquire
  /\ call' = [call EXCEPT ![n] = "running"]
  /\ UNCHANGED <<chain, unitVars, phase, level, resultVars, ctxDone, err, failed>>

Fail(n) ==
  /\ call' = [call EXCEPT ![n] = "ended"]
  /\ diags' = diags \cup Report("error", n)
  /\ failed' = failed \cup {<<level, n>>}
  /\ UNCHANGED <<chain, unitVars, phase, level, collected, ctxDone, err>>

GiveUpCall(n) ==
  /\ call[n] = "begun"
  /\ n \notin Unknown \cup Unsupported
  /\ ctxDone
  /\ Fail(n)
  /\ UNCHANGED sem

(* The slot is released whichever way the call returns.                    *)
Freed_NotOnFailure == sem           \* mutant: a panic keeps the slot
Freed == sem - 1

FailCall(n) ==
  /\ call[n] = "running"
  /\ Fail(n)
  /\ sem' = Freed

(* The prices are attributed to the requests of this call: every one whose *)
(* pair has a price.  Prices of other pairs are kept too.                  *)
Served(n, P) == {u \in Group(n) : PairOf[u] \in P}

EndCall(n, P) ==
  /\ call[n] = "running"
  /\ sem' = sem - 1
  /\ call' = [call EXCEPT ![n] = "ended"]
  /\ collected' = collected \cup {[pair |-> p, level |-> level, source |-> n] : p \in P}
  /\ got' = [u \in Units |-> got[u] \/ u \in Served(n, P)]
  /\ UNCHANGED <<chain, depth, done, phase, level, diags, ctxDone, err, failed>>

-----------------------------------------------------------------------------
(* wg.Wait has returned: requests with a price are done, the others        *)
(* advance, and ctx is looked at before the next level.                    *)
Barrier == \A n \in Sources : call[n] \in {"none", "ended"}

Advances_Always(u) == ~done[u]       \* mutant: u.got is not looked at
Advances(u) == ~done[u] /\ ~got[u]

EndLevel ==
  /\ phase = "level"
  /\ Barrier
  /\ depth' = [u \in Units |-> IF Advances(u) THEN depth[u] + 1 ELSE depth[u]]
  /\ done' = [u \in Units |-> done[u] \/ got[u] \/ Exhausted(u, depth'[u])]
  /\ call' = [n \in Sources |-> "none"]
  /\ IF ctxDone
       THEN phase' = "returned" /\ err' = "canceled" /\ level' = level
       ELSE phase' = "group" /\ err' = err /\ level' = level + 1
  /\ UNCHANGED <<chain, got, sem, resultVars, ctxDone, failed>>

(* The environment cancels ctx.                                            *)
CancelFetch ==
  /\ ~ctxDone /\ phase # "returned"
  /\ ctxDone' = TRUE
  /\ UNCHANGED <<chain, unitVars, phase, level, call, sem, resultVars, err, failed>>

-----------------------------------------------------------------------------
Dispatch(n) ==
  \/ Skip(n) \/ BeginCall(n) \/ GiveUpCall(n) \/ FailCall(n)
  \/ \E P \in SUBSET Pairs : EndCall(n, P)

RunLevels == StartLevel \/ EndLevel \/ Finish

FetchNext == RunLevels \/ (\E n \in Sources : Dispatch(n)) \/ CancelFetch

FetchSpec == FetchInit /\ [][FetchNext]_fetchVars

(* Goroutines run, and a source that was called returns.                   *)
FairFetchSpec ==
  /\ FetchSpec
  /\ WF_fetchVars(RunLevels)
  /\ \A n \in Sources : WF_fetchVars(Dispatch(n))

-----------------------------------------------------------------------------
Depths(u) == 0..Len(chain[u])
PriceOf(u, d) == [pair |-> PairOf[u], level |-> d, source |-> chain[u][d + 1]]
Calling == {n \in Sources : call[n] = "running"}

(* The types of the variables, the bound of the semaphore included.        *)
FetchTypeOK ==
  /\ chain \in [Units -> Chains]
  /\ depth \in [Units -> Nat] /\ \A u \in Units : depth[u] \in Depths(u)
  /\ done \in [Units -> BOOLEAN] /\ got \in [Units -> BOOLEAN]
  /\ phase \in {"group", "level", "returned"}
  /\ level \in Nat
  /\ call \in [Sources -> {"none", "begun", "running", "ended"}]
  /\ sem \in 0..Concurrency
  /\ collected \subseteq [pair : Pairs, level : Nat, source : Sources]
  /\ diags \subseteq [code : {"unknown", "unsupported", "error"}, unit : Units, level : Nat]
  /\ ctxDone \in BOOLEAN
  /\ err \in {"none", "zero", "canceled"}
  /\ failed \subseteq Nat \X Sources

(* The slots taken are those of the calls that run: none is leaked by a    *)
(* call that fails, panics or gives up, and all are free between levels.   *)
SlotsMatchCalls == sem = Cardinality(Calling) /\ (phase # "level" => sem = 0)

(* The levels are synchronised: a request that is not done has been through *)
(* exactly the levels that are over, and only the sources of such requests *)
(* have a goroutine.                                                       *)
InLockstep ==
  /\ phase # "returned" => \A u \in Units : ~done[u] => depth[u] = level
  /\ \A n \in Sources :
       call[n] # "none" => phase = "level" /\ \E u \in Group(n) : depth[u] = level

(* A request is resolved by the first source of its chain that returned a  *)
(* price of its pair when it was that source's turn, although prices of    *)
(* the pair may also come with calls made for other requests.              *)
FirstAnswerWins ==
  \A u \in Units :
    /\ got[u] => PriceOf(u, depth[u]) \in collected
    /\ \A d \in 0..depth[u] - 1 : PriceOf(u, d) \notin collected

(* A fetch that was not cancelled leaves nothing untried: a request without *)
(* a price has been through its whole chain, and each source of it that    *)
(* was unknown, unsupported or failed is in the diagnostics.  The error    *)
(* says whether there is any price.                                        *)
Missed(u, d) ==
  \/ chain[u][d + 1] \in Unknown \cup Unsupported
  \/ <<d, chain[u][d + 1]>> \in failed

NothingLeftUntried ==
  phase = "returned" =>
    /\ err = "zero" => collected = {}
    /\ err = "none" => collected # {}
    /\ err = "canceled" => ctxDone
    /\ err # "canceled" =>
         \A u \in Units : ~got[u] =>
           /\ depth[u] = Len(chain[u])
           /\ \A d \in 0..(depth[u] - 1) :
                Missed(u, d) => \E g \in diags : g.unit = u /\ g.level = d

(* Each request sees its chain asked in order, one source after another.   *)
InFlight(u) == phase = "level" /\ ~done[u]
AskedOf(u) == IF got[u] \/ InFlight(u) THEN depth[u] + 1 ELSE depth[u]
AnsweredOf(u) ==
  IF got[u] \/ (InFlight(u) /\ call[Current(u)] = "ended") THEN depth[u] + 1 ELSE depth[u]

Promise == INSTANCE FallbackChain WITH
  asked <- [u \in Units |-> AskedOf(u)],
  answered <- [u \in Units |-> AnsweredOf(u)],
  hit <- {u \in Units : got[u]}
ImplementsChain == Promise!ChainSpec

(* Whatever the chains, and with a single slot, the fetch returns: batches *)
(* that wait for one another cannot wait in a circle.                      *)
FetchReturns == <>(phase = "returned")
=============================================================================
