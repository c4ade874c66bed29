---------------------------- MODULE QuoteProofs ----------------------------
(***************************************************************************)
(* What is proved about quotes.                                            *)
(*                                                                         *)
(* Of QuoteFetch, for any requests, chains, sources and any concurrency:   *)
(* a fetch holds as many slots as calls run, its levels are synchronised,  *)
(* nothing is left untried, and each chain is walked as FallbackChain      *)
(* promises.                                                               *)
(*                                                                         *)
(* Of QuoteSource, for any limits and any rates: the cache keeps its cap   *)
(* although every Put of every batch evicts for itself, the slots are held *)
(* by the batches inside the source, attempts end, every price carries the *)
(* rate of its day, and no query is left without its prices or an error.   *)
(***************************************************************************)
EXTENDS QuoteFetch, QuoteSource, TLAPS, FiniteSetTheorems, WellFoundedInduction

Calls == {"none", "begun", "running", "ended"}

(* How the levels hang together: inside a level every open request has a   *)
(* source left, its level is the current one, and its source has a         *)
(* goroutine; a request that got a price is done at the end of the level.  *)
LevelInv ==
  /\ phase # "level" => \A n \in Sources : call[n] = "none"
  /\ phase # "returned" => \A u \in Units : depth[u] <= level
  /\ phase = "group" => \A u \in Units : ~done[u] => depth[u] = level
  /\ phase = "level" =>
       \A u \in Units : ~done[u] =>
         depth[u] = level /\ depth[u] < Len(chain[u]) /\ call[Current(u)] # "none"
  /\ \A n \in Sources : call[n] # "none" => Group(n) # {}
  /\ \A u \in Units :
       got[u] /\ ~done[u] => phase = "level" /\ call[Current(u)] = "ended"

LEMMA ChainsAreSequences ==
  ASSUME FetchTypeOK, NEW u \in Units
  PROVE  /\ chain[u] \in Seq(Sources) /\ Len(chain[u]) \in Nat
         /\ depth[u] \in Nat /\ depth[u] <= Len(chain[u])
         /\ \A d \in Nat : d < Len(chain[u]) => chain[u][d + 1] \in Sources
  <1>1. chain[u] \in Seq(Sources)
    BY ChainAssumption DEF FetchTypeOK
  <1>2. Len(chain[u]) \in Nat /\ \A d \in Nat : d < Len(chain[u]) => chain[u][d + 1] \in Sources
    BY <1>1
  <1>3. depth[u] \in 0..Len(chain[u])
    BY DEF FetchTypeOK, Depths
  <1>4. QED
    BY <1>1, <1>2, <1>3

-----------------------------------------------------------------------------
(* Slots.  The calls that run gain or lose one member whenever the         *)
(* semaphore does.                                                         *)
LEMMA CallingIsFinite == IsFiniteSet(Calling) /\ IsFiniteSet(Calling')
  BY UnitsAssumption, FS_Subset DEF Calling

LEMMA SameCalls ==
  ASSUME SlotsMatchCalls, sem' = sem, Calling' = Calling, phase' # "level" => sem = 0
  PROVE  SlotsMatchCalls'
  BY DEF SlotsMatchCalls

LEMMA OneCallLess ==
  ASSUME FetchTypeOK, SlotsMatchCalls, NEW n \in Sources, call[n] = "running",
         call' = [call EXCEPT ![n] = "ended"], sem' = sem - 1, phase' = "level"
  PROVE  SlotsMatchCalls'
  <1>1. Calling' = Calling \ {n} /\ n \in Calling
    BY DEF Calling, FetchTypeOK
  <1>2. Cardinality(Calling') = Cardinality(Calling) - 1
    BY <1>1, CallingIsFinite, FS_RemoveElement
  <1>3. QED
    BY <1>2 DEF SlotsMatchCalls

LEMMA OneCallMore ==
  ASSUME FetchTypeOK, SlotsMatchCalls, NEW n \in Sources, call[n] = "begun",
         call' = [call EXCEPT ![n] = "running"], sem' = sem + 1, phase' = "level"
  PROVE  SlotsMatchCalls'
  <1>1. Calling' = Calling \cup {n} /\ n \notin Calling
    BY DEF Calling, FetchTypeOK
  <1>2. Cardinality(Calling') = Cardinality(Calling) + 1
    BY <1>1, CallingIsFinite, FS_AddElement
  <1>3. QED
    BY <1>2 DEF SlotsMatchCalls

LEMMA NoCalls ==
  ASSUME SlotsMatchCalls, Calling = {}
  PROVE  sem = 0
  BY FS_EmptySet DEF SlotsMatchCalls

LEMMA InitSlots == FetchInit => SlotsMatchCalls
  <1> SUFFICES ASSUME FetchInit PROVE SlotsMatchCalls
    OBVIOUS
  <1>1. Calling = {}
    BY DEF FetchInit, Calling
  <1>2. QED
    BY <1>1, FS_EmptySet DEF FetchInit, SlotsMatchCalls

LEMMA StepSlots ==
  FetchTypeOK /\ LevelInv /\ SlotsMatchCalls /\ [FetchNext]_fetchVars => SlotsMatchCalls'
  <1> SUFFICES ASSUME FetchTypeOK, LevelInv, SlotsMatchCalls, [FetchNext]_fetchVars
               PROVE  SlotsMatchCalls'
    OBVIOUS
  <1>inLevel. ASSUME NEW n \in Sources, call[n] # "none" PROVE phase = "level"
    BY <1>inLevel DEF LevelInv
  <1>1. ASSUME StartLevel PROVE SlotsMatchCalls'
    <2>1. Calling = {} /\ Calling' = {}
      BY <1>1 DEF StartLevel, LevelInv, Calling
    <2>2. QED
      BY <1>1, <2>1, SameCalls DEF StartLevel
  <1>2. ASSUME EndLevel PROVE SlotsMatchCalls'
    <2>1. Calling = {} /\ Calling' = {}
      BY <1>2 DEF EndLevel, Barrier, Calling
    <2>2. QED
      BY <1>2, <2>1, NoCalls, SameCalls DEF EndLevel
  <1>3. ASSUME Finish PROVE SlotsMatchCalls'
    <2>1. Calling' = Calling /\ Calling = {}
      BY <1>3 DEF Finish, Calling, LevelInv
    <2>2. QED
      BY <1>3, <2>1, NoCalls, SameCalls DEF Finish
  <1>4. ASSUME NEW n \in Sources, Skip(n) PROVE SlotsMatchCalls'
    <2>1. Calling' = Calling /\ phase' = "level"
      BY <1>4, <1>inLevel DEF Skip, Calling, FetchTypeOK
    <2>2. QED
      BY <1>4, <2>1, SameCalls DEF Skip
  <1>5. ASSUME NEW n \in Sources, BeginCall(n) PROVE SlotsMatchCalls'
    BY <1>5, <1>inLevel, OneCallMore DEF BeginCall, Acquire
  <1>6. ASSUME NEW n \in Sources, GiveUpCall(n) PROVE SlotsMatchCalls'
    <2>1. Calling' = Calling /\ phase' = "level"
      BY <1>6, <1>inLevel DEF GiveUpCall, Fail, Calling, FetchTypeOK
    <2>2. QED
      BY <1>6, <2>1, SameCalls DEF GiveUpCall
  <1>7. ASSUME NEW n \in Sources, FailCall(n) PROVE SlotsMatchCalls'
    BY <1>7, <1>inLevel, OneCallLess DEF FailCall, Fail, Freed
  <1>8. ASSUME NEW n \in Sources, NEW P \in SUBSET Pairs, EndCall(n, P) PROVE SlotsMatchCalls'
    BY <1>8, <1>inLevel, OneCallLess DEF EndCall
  <1>9. ASSUME CancelFetch PROVE SlotsMatchCalls'
    <2>1. Calling' = Calling /\ (phase' # "level" => sem = 0)
      BY <1>9 DEF CancelFetch, Calling, SlotsMatchCalls
    <2>2. QED
      BY <1>9, <2>1, SameCalls DEF CancelFetch
  <1>10. CASE UNCHANGED fetchVars
    BY <1>10 DEF fetchVars, SlotsMatchCalls, Calling
  <1>11. QED
    BY <1>1, <1>2, <1>3, <1>4, <1>5, <1>6, <1>7, <1>8, <1>9, <1>10
       DEF FetchNext, RunLevels, Dispatch

-----------------------------------------------------------------------------
(* Types.                                                                  *)
LEMMA InitTypeOK == FetchInit => FetchTypeOK
  <1> SUFFICES ASSUME FetchInit PROVE FetchTypeOK
    OBVIOUS
  <1>1. \A u \in Units : depth[u] \in Depths(u)
    BY ChainAssumption DEF FetchInit, Depths
  <1>2. sem \in 0..Concurrency
    BY ConcurrencyAssumption DEF FetchInit
  <1>3. QED
    BY <1>1, <1>2 DEF FetchInit, FetchTypeOK

(* A step that leaves the chains and depths alone keeps the first line.    *)
LEMMA SameDepths ==
  ASSUME FetchTypeOK, UNCHANGED <<chain, depth>>
  PROVE  /\ chain' \in [Units -> Chains]
         /\ depth' \in [Units -> Nat] /\ \A u \in Units : depth'[u] \in Depths(u)'
  BY DEF FetchTypeOK, Depths

(* The diagnostics that one call adds are diagnostics.                     *)
LEMMA ReportsAreDiags ==
  ASSUME FetchTypeOK, NEW n \in Sources,
         NEW code \in {"unknown", "unsupported", "error"}
  PROVE  Report(code, n) \subseteq
           [code : {"unknown", "unsupported", "error"}, unit : Units, level : Nat]
  BY DEF Report, Group, FetchTypeOK

LEMMA StepTypeOK ==
  FetchTypeOK /\ LevelInv /\ SlotsMatchCalls /\ [FetchNext]_fetchVars => FetchTypeOK'
  <1> SUFFICES ASSUME FetchTypeOK, LevelInv, SlotsMatchCalls, [FetchNext]_fetchVars
                PROVE  FetchTypeOK'
    OBVIOUS
  <1>sem. sem' \in Nat /\ sem \in Nat /\ Concurrency \in Nat
    BY StepSlots, CallingIsFinite, FS_CardinalityType, ConcurrencyAssumption DEF SlotsMatchCalls
  <1>1. ASSUME StartLevel PROVE FetchTypeOK'
    BY <1>1, SameDepths DEF StartLevel, FetchTypeOK, resultVars
  <1>2. ASSUME EndLevel PROVE FetchTypeOK'
    <2>1. chain' \in [Units -> Chains] /\ depth' \in [Units -> Nat]
      BY <1>2 DEF EndLevel, FetchTypeOK
    <2>2. ASSUME NEW u \in Units PROVE depth'[u] \in Depths(u)'
      <3>1. ~done[u] => depth[u] < Len(chain[u])
        BY <1>2 DEF EndLevel, LevelInv
      <3>2. depth'[u] = IF Advances(u) THEN depth[u] + 1 ELSE depth[u]
        BY <1>2 DEF EndLevel
      <3>3. QED
        BY <1>2, <3>1, <3>2, ChainsAreSequences DEF Advances, Depths, EndLevel
    <2>3. done' \in [Units -> BOOLEAN]
      BY <1>2 DEF EndLevel
    <2>4. /\ phase' \in {"group", "level", "returned"} /\ level' \in Nat
          /\ err' \in {"none", "zero", "canceled"}
      BY <1>2 DEF EndLevel, FetchTypeOK
    <2>5. QED
      BY <1>2, <2>1, <2>2, <2>3, <2>4 DEF EndLevel, FetchTypeOK, resultVars
  <1>3. ASSUME Finish PROVE FetchTypeOK'
    BY <1>3, SameDepths DEF Finish, FetchTypeOK, resultVars
  <1>4. ASSUME NEW n \in Sources, Skip(n) PROVE FetchTypeOK'
    BY <1>4, SameDepths, ReportsAreDiags DEF Skip, FetchTypeOK, unitVars
  <1>5. ASSUME NEW n \in Sources, BeginCall(n) PROVE FetchTypeOK'
    BY <1>5, <1>sem, SameDepths DEF BeginCall, Acquire, FetchTypeOK, unitVars, resultVars
  <1>fail. ASSUME NEW n \in Sources, Fail(n), sem' \in 0..Concurrency PROVE FetchTypeOK'
    BY <1>fail, SameDepths, ReportsAreDiags DEF Fail, FetchTypeOK, unitVars
  <1>6. ASSUME NEW n \in Sources, GiveUpCall(n) PROVE FetchTypeOK'
    BY <1>6, <1>fail DEF GiveUpCall, FetchTypeOK
  <1>7. ASSUME NEW n \in Sources, FailCall(n) PROVE FetchTypeOK'
    <2>1. sem' \in 0..Concurrency
      BY <1>7, <1>sem DEF FailCall, Freed, FetchTypeOK
    <2>2. QED
      BY <1>7, <2>1, <1>fail DEF FailCall
  <1>8. ASSUME NEW n \in Sources, NEW P \in SUBSET Pairs, EndCall(n, P) PROVE FetchTypeOK'
    <2>1. sem' \in 0..Concurrency
      BY <1>8, <1>sem DEF EndCall, FetchTypeOK
    <2>2. collected' \subseteq [pair : Pairs, level : Nat, source : Sources]
      BY <1>8 DEF EndCall, FetchTypeOK
    <2>3. got' \in [Units -> BOOLEAN] /\ call' \in [Sources -> Calls]
      BY <1>8 DEF EndCall, FetchTypeOK, Calls
    <2>4. QED
      BY <1>8, <2>1, <2>2, <2>3, SameDepths DEF EndCall, FetchTypeOK, Calls
  <1>9. ASSUME CancelFetch PROVE FetchTypeOK'
    BY <1>9, SameDepths DEF CancelFetch, FetchTypeOK, unitVars, resultVars
  <1>10. CASE UNCHANGED fetchVars
    BY <1>10, SameDepths DEF fetchVars, unitVars, resultVars, FetchTypeOK
  <1>11. QED
    BY <1>1, <1>2, <1>3, <1>4, <1>5, <1>6, <1>7, <1>8, <1>9, <1>10
       DEF FetchNext, RunLevels, Dispatch

-----------------------------------------------------------------------------
(* Levels.                                                                 *)
LEMMA InitLevels == FetchInit => LevelInv
  BY DEF FetchInit, LevelInv

LEMMA StepLevels == FetchTypeOK /\ LevelInv /\ [FetchNext]_fetchVars => LevelInv'
  <1> SUFFICES ASSUME FetchTypeOK, LevelInv, [FetchNext]_fetchVars PROVE LevelInv'
    OBVIOUS
  <1>current. ASSUME NEW u \in Units, depth[u] < Len(chain[u]) PROVE Current(u) \in Sources
    BY <1>current, ChainsAreSequences DEF Current
  <1>call. ASSUME NEW n \in Sources, NEW s \in Calls \ {"none"}, call[n] # "none",
                  call[n] # "ended", call' = [call EXCEPT ![n] = s],
                  UNCHANGED <<chain, depth, done, got, phase, level>>
           PROVE  LevelInv'
    BY <1>call, <1>current DEF LevelInv, Current, Group, Calls, FetchTypeOK
  <1>1. ASSUME StartLevel PROVE LevelInv'
    <2> DEFINE left == {u \in Units : ~done[u] /\ ~Exhausted(u, depth[u])}
    <2>1. /\ phase = "group" /\ phase' = "level" /\ UNCHANGED <<chain, depth, got, level>>
          /\ done' = [u \in Units |-> u \notin left]
          /\ call' = [n \in Sources |->
                         IF \E u \in left : Current(u) = n THEN "begun" ELSE "none"]
      BY <1>1 DEF StartLevel
    <2>2. \A u \in Units : Current(u)' = Current(u)
      BY <2>1 DEF Current
    <2>3. ASSUME NEW u \in left
          PROVE  depth[u] = level /\ depth[u] < Len(chain[u]) /\ Current(u) \in Sources
      BY <2>1, <1>current, ChainsAreSequences DEF Exhausted, LevelInv
    <2>4. \A u \in Units : ~done'[u] <=> u \in left
      BY <2>1
    <2>5. ASSUME NEW u \in Units, ~done'[u]
          PROVE  depth'[u] = level' /\ depth'[u] < Len(chain'[u]) /\ call'[Current(u)'] # "none"
      BY <2>1, <2>2, <2>3, <2>4, <2>5
    <2>6. ASSUME NEW n \in Sources, call'[n] # "none" PROVE Group(n)' # {}
      <3>1. PICK u \in left : Current(u) = n
        BY <2>1, <2>6
      <3>2. u \in Group(n)'
        BY <2>1, <2>2, <2>4, <3>1 DEF Group
      <3>3. QED
        BY <3>2
    <2>7. \A u \in Units : depth'[u] <= level' /\ ~(got'[u] /\ ~done'[u])
      BY <2>1, <2>4 DEF LevelInv
    <2>8. QED
      BY <2>1, <2>5, <2>6, <2>7 DEF LevelInv
  <1>2. ASSUME EndLevel PROVE LevelInv'
    BY <1>2, ChainsAreSequences
       DEF EndLevel, LevelInv, Advances, Exhausted, Group, FetchTypeOK
  <1>3. ASSUME Finish PROVE LevelInv'
    BY <1>3 DEF Finish, LevelInv, Group, FetchTypeOK
  <1>4. ASSUME NEW n \in Sources, Skip(n) PROVE LevelInv'
    BY <1>4, <1>call DEF Skip, unitVars, Calls
  <1>5. ASSUME NEW n \in Sources, BeginCall(n) PROVE LevelInv'
    BY <1>5, <1>call DEF BeginCall, unitVars, Calls
  <1>6. ASSUME NEW n \in Sources, GiveUpCall(n) PROVE LevelInv'
    BY <1>6, <1>call DEF GiveUpCall, Fail, unitVars, Calls
  <1>7. ASSUME NEW n \in Sources, FailCall(n) PROVE LevelInv'
    BY <1>7, <1>call DEF FailCall, Fail, unitVars, Calls
  <1>8. ASSUME NEW n \in Sources, NEW P \in SUBSET Pairs, EndCall(n, P) PROVE LevelInv'
    BY <1>8, <1>current DEF EndCall, LevelInv, Current, Group, Served, FetchTypeOK
  <1>9. ASSUME CancelFetch PROVE LevelInv'
    BY <1>9 DEF CancelFetch, LevelInv, Current, Group, unitVars
  <1>10. CASE UNCHANGED fetchVars
    BY <1>10 DEF fetchVars, unitVars, LevelInv, Current, Group
  <1>11. QED
    BY <1>1, <1>2, <1>3, <1>4, <1>5, <1>6, <1>7, <1>8, <1>9, <1>10
       DEF FetchNext, RunLevels, Dispatch

LEMMA Levels == FetchSpec => [](FetchTypeOK /\ LevelInv /\ SlotsMatchCalls)
  BY InitTypeOK, InitLevels, InitSlots, StepTypeOK, StepLevels, StepSlots, PTL DEF FetchSpec

(* The scheduler's variables keep their types, and no more calls run than  *)
(* the concurrency allows.                                                 *)
THEOREM FetchTyping == FetchSpec => []FetchTypeOK
  BY Levels, PTL

(* Every slot that is taken belongs to a call that runs.                   *)
THEOREM SlotsCounted == FetchSpec => []SlotsMatchCalls
  BY Levels, PTL

(* Requests walk their chains level by level.                              *)
THEOREM Lockstep == FetchSpec => []InLockstep
  <1>1. ASSUME FetchTypeOK, LevelInv PROVE InLockstep
    <2>1. \A n \in Sources : \A u \in Group(n) : u \in Units /\ ~done[u]
      BY DEF Group
    <2>2. phase # "returned" => \A u \in Units : ~done[u] => depth[u] = level
      BY <1>1 DEF LevelInv, FetchTypeOK
    <2>3. QED
      BY <1>1, <2>1, <2>2 DEF LevelInv, InLockstep
  <1>2. QED
    BY <1>1, Levels, PTL

-----------------------------------------------------------------------------
(* Prices.  Every price was returned at a level that has begun, and by a   *)
(* call of this level only if that call has ended; a request that is still *)
(* open and has no price has not been answered by the source it is at.     *)
PriceInv ==
  /\ FirstAnswerWins
  /\ phase = "group" => \A r \in collected : r.level < level
  /\ phase = "level" =>
       \A r \in collected : r.level <= level /\ (r.level = level => call[r.source] = "ended")
  /\ phase = "level" =>
       \A u \in Units : ~done[u] /\ ~got[u] => PriceOf(u, level) \notin collected

LEMMA InitPrices == FetchInit => PriceInv
  <1> SUFFICES ASSUME FetchInit PROVE PriceInv
    OBVIOUS
  <1>1. FirstAnswerWins
    BY DEF FetchInit, FirstAnswerWins
  <1>2. QED
    BY <1>1 DEF FetchInit, PriceInv

LEMMA PriceFields ==
  \A u \in Units, d \in Nat :
    /\ PriceOf(u, d).level = d /\ PriceOf(u, d).source = chain[u][d + 1]
    /\ PriceOf(u, d).pair = PairOf[u]
  BY DEF PriceOf

(* A step that returns no price, and is not the end of a level.            *)
LEMMA SamePrices ==
  ASSUME FetchTypeOK, PriceInv, UNCHANGED <<chain, depth, got, collected, level>>,
         phase' = phase, done' = done,
         \A n \in Sources : call[n] = "ended" => call'[n] = "ended"
  PROVE  PriceInv'
  <1>1. FirstAnswerWins'
    BY DEF PriceInv, FirstAnswerWins, PriceOf
  <1>2. \A r \in collected : r.source \in Sources
    BY DEF FetchTypeOK
  <1>3. QED
    BY <1>1, <1>2 DEF PriceInv, PriceOf

LEMMA StepPrices == FetchTypeOK /\ LevelInv /\ PriceInv /\ [FetchNext]_fetchVars => PriceInv'
  <1> SUFFICES ASSUME FetchTypeOK, LevelInv, PriceInv, [FetchNext]_fetchVars PROVE PriceInv'
    OBVIOUS
  <1>fields. \A r \in collected : r.source \in Sources /\ r.level \in Nat
    BY DEF FetchTypeOK
  <1>nats. level \in Nat /\ \A u \in Units : depth[u] \in Nat
    BY DEF FetchTypeOK
  <1>1. ASSUME StartLevel PROVE PriceInv'
    <2>1. /\ UNCHANGED <<chain, depth, got, collected, level>>
          /\ phase = "group" /\ phase' = "level"
      BY <1>1 DEF StartLevel, resultVars
    <2>2. FirstAnswerWins'
      BY <2>1 DEF PriceInv, FirstAnswerWins, PriceOf
    <2>3. \A r \in collected : r.level < level
      BY <2>1 DEF PriceInv
    <2>4. \A u \in Units : PriceOf(u, level) \notin collected
      BY <2>3, <1>nats, PriceFields
    <2>5. \A u \in Units : PriceOf(u, level)' = PriceOf(u, level)
      BY <2>1 DEF PriceOf
    <2>6. QED
      BY <2>1, <2>2, <2>3, <2>4, <2>5, <1>nats, <1>fields DEF PriceInv
  <1>2. ASSUME EndLevel PROVE PriceInv'
    <2>1. /\ phase = "level" /\ UNCHANGED <<chain, got, collected>>
          /\ depth' = [u \in Units |-> IF ~done[u] /\ ~got[u] THEN depth[u] + 1 ELSE depth[u]]
          /\ \/ phase' = "returned"
             \/ phase' = "group" /\ level' = level + 1
      BY <1>2 DEF EndLevel, Advances, resultVars
    <2>2. ASSUME NEW u \in Units, got[u] PROVE PriceOf(u, depth[u])' \in collected'
      BY <2>1, <2>2 DEF PriceInv, FirstAnswerWins, PriceOf
    <2>3. ASSUME NEW u \in Units, NEW d \in 0..depth'[u] - 1
          PROVE  PriceOf(u, d)' \notin collected'
      <3>1. PriceOf(u, d)' = PriceOf(u, d)
        BY <2>1 DEF PriceOf
      <3>2. CASE d < depth[u]
        BY <2>1, <3>1, <3>2, <1>nats DEF PriceInv, FirstAnswerWins
      <3>3. CASE ~(d < depth[u])
        <4>1. ~done[u] /\ ~got[u] /\ d = depth[u] /\ depth[u] = level
          BY <2>1, <3>3, <1>nats DEF LevelInv
        <4>2. QED
          BY <2>1, <3>1, <4>1 DEF PriceInv
      <3>4. QED
        BY <3>2, <3>3
    <2>4. FirstAnswerWins'
      BY <2>1, <2>2, <2>3 DEF FirstAnswerWins
    <2>5. \A r \in collected : r.level <= level
      BY <2>1 DEF PriceInv
    <2>6. QED
      BY <2>1, <2>4, <2>5, <1>nats, <1>fields DEF PriceInv
  <1>3. ASSUME Finish PROVE PriceInv'
    <2>1. FirstAnswerWins'
      BY <1>3 DEF Finish, PriceInv, FirstAnswerWins, PriceOf, resultVars
    <2>2. QED
      BY <1>3, <2>1 DEF Finish, PriceInv
  <1>4. ASSUME NEW n \in Sources, Skip(n) PROVE PriceInv'
    BY <1>4, SamePrices DEF Skip, unitVars, FetchTypeOK
  <1>5. ASSUME NEW n \in Sources, BeginCall(n) PROVE PriceInv'
    BY <1>5, SamePrices DEF BeginCall, unitVars, resultVars, FetchTypeOK
  <1>6. ASSUME NEW n \in Sources, GiveUpCall(n) PROVE PriceInv'
    BY <1>6, SamePrices DEF GiveUpCall, Fail, unitVars, FetchTypeOK
  <1>7. ASSUME NEW n \in Sources, FailCall(n) PROVE PriceInv'
    BY <1>7, SamePrices DEF FailCall, Fail, unitVars, FetchTypeOK
  <1>8. ASSUME NEW n \in Sources, NEW P \in SUBSET Pairs, EndCall(n, P) PROVE PriceInv'
    <2> DEFINE new == {[pair |-> p, level |-> level, source |-> n] : p \in P}
    <2>1. /\ call[n] = "running" /\ call' = [call EXCEPT ![n] = "ended"]
          /\ collected' = collected \cup new
          /\ got' = [u \in Units |-> got[u] \/ u \in Served(n, P)]
          /\ UNCHANGED <<chain, depth, done, phase, level>>
      BY <1>8 DEF EndCall
    <2>2. phase = "level"
      BY <2>1 DEF LevelInv
    <2>3. \A u \in Units, d \in Nat : PriceOf(u, d)' = PriceOf(u, d)
      BY <2>1 DEF PriceOf
    <2>4. \A u \in Units, d \in Nat :
            PriceOf(u, d) \in new <=> PairOf[u] \in P /\ d = level /\ chain[u][d + 1] = n
      BY DEF PriceOf
    <2>5. ASSUME NEW u \in Units, u \in Served(n, P)
          PROVE  ~done[u] /\ depth[u] = level /\ PriceOf(u, depth[u]) \in new
      BY <2>2, <2>4, <2>5, <1>nats DEF Served, Group, Current, LevelInv
    <2>6. ASSUME NEW u \in Units, got'[u] PROVE PriceOf(u, depth[u])' \in collected'
      <3>1. CASE got[u]
        BY <2>1, <2>3, <3>1, <1>nats DEF PriceInv, FirstAnswerWins
      <3>2. CASE ~got[u]
        BY <2>1, <2>3, <2>5, <2>6, <3>2, <1>nats
      <3> QED BY <3>1, <3>2
    <2>7. ASSUME NEW u \in Units, NEW d \in 0..depth[u] - 1
          PROVE  PriceOf(u, d)' \notin collected'
      <3>1. d < level /\ d \in Nat
        BY <2>2, <1>nats DEF LevelInv
      <3>2. QED
        BY <2>1, <2>3, <2>4, <3>1 DEF PriceInv, FirstAnswerWins
    <2>8. FirstAnswerWins'
      BY <2>1, <2>6, <2>7 DEF FirstAnswerWins
    <2>9. ASSUME NEW u \in Units, ~done[u], ~got'[u] PROVE PriceOf(u, level)' \notin collected'
      <3>1. ~got[u] /\ u \notin Served(n, P) /\ depth[u] = level
        BY <2>1, <2>2, <2>9 DEF LevelInv
      <3>2. PriceOf(u, level) \notin new
        BY <2>4, <2>9, <3>1, <1>nats DEF Served, Group, Current
      <3>3. QED
        BY <2>1, <2>2, <2>3, <2>9, <3>1, <3>2, <1>nats DEF PriceInv
    <2>10. \A r \in collected' :
             r.level <= level /\ (r.level = level => call'[r.source] = "ended")
      BY <2>1, <2>2, <1>nats, <1>fields DEF PriceInv, FetchTypeOK
    <2>11. QED
      BY <2>1, <2>2, <2>8, <2>9, <2>10 DEF PriceInv
  <1>9. ASSUME CancelFetch PROVE PriceInv'
    BY <1>9, SamePrices DEF CancelFetch, unitVars, resultVars
  <1>10. CASE UNCHANGED fetchVars
    BY <1>10, SamePrices DEF fetchVars, unitVars, resultVars
  <1>11. QED
    BY <1>1, <1>2, <1>3, <1>4, <1>5, <1>6, <1>7, <1>8, <1>9, <1>10
       DEF FetchNext, RunLevels, Dispatch

(* A request is resolved by the first source of its chain that had a price *)
(* for it when it was that source's turn.                                  *)
THEOREM FirstAnswer == FetchSpec => []FirstAnswerWins
  <1>1. PriceInv => FirstAnswerWins
    BY DEF PriceInv
  <1>2. QED
    BY <1>1, InitPrices, StepPrices, Levels, PTL DEF FetchSpec

-----------------------------------------------------------------------------
(* Diagnostics.                                                            *)
Reported(u, d) == \E g \in diags : g.unit = u /\ g.level = d

(* A failure is recorded at a level that has begun, when its call ends; a  *)
(* source that is called is one that can be; whatever a request missed at  *)
(* a source that has ended is reported; only a request whose chain is used *)
(* up is done without a price.                                             *)
MissInv ==
  /\ phase = "group" => \A f \in failed : f[1] < level
  /\ phase = "level" =>
       \A f \in failed : f[1] <= level /\ (f[1] = level => call[f[2]] = "ended")
  /\ \A n \in Sources : call[n] = "running" => n \notin Unknown \cup Unsupported
  /\ \A u \in Units : \A d \in 0..depth[u] - 1 : Missed(u, d) => Reported(u, d)
  /\ phase = "level" =>
       \A u \in Units :
         ~done[u] /\ call[Current(u)] = "ended" /\ Missed(u, level) => Reported(u, level)
  /\ \A u \in Units : done[u] /\ ~got[u] => depth[u] = Len(chain[u])
  /\ phase = "returned" =>
       /\ err = "zero" => collected = {}
       /\ err = "none" => collected # {}
       /\ err = "canceled" => ctxDone
       /\ err # "canceled" => \A u \in Units : done[u]

LEMMA InitMisses == FetchInit => MissInv
  BY DEF FetchInit, MissInv

(* What a call that ends without a price, in one way or another, does.     *)
LEMMA MissedCalls ==
  ASSUME FetchTypeOK, LevelInv, MissInv, NEW n \in Sources, call[n] \in {"begun", "running"},
         call' = [call EXCEPT ![n] = "ended"], phase' = phase,
         UNCHANGED <<chain, depth, done, got, level>>,
         diags \subseteq diags',
         failed' \in {failed, failed \cup {<<level, n>>}},
         \A u \in Group(n) : Missed(u, level)' => Reported(u, level)'
  PROVE  MissInv'
  <1>1. phase = "level" /\ level \in Nat /\ \A u \in Units : depth[u] \in Nat
    BY DEF LevelInv, FetchTypeOK
  <1>2. \A f \in failed : f \in Nat \X Sources
    BY DEF FetchTypeOK
  <1>3. \A f \in failed' : f[1] <= level /\ (f[1] = level => call'[f[2]] = "ended")
    BY <1>1, <1>2 DEF MissInv, FetchTypeOK
  <1>4. \A m \in Sources : call'[m] = "running" => m \notin Unknown \cup Unsupported
    BY DEF MissInv, FetchTypeOK
  <1>5. \A u \in Units, d \in Nat : Reported(u, d) => Reported(u, d)'
    BY DEF Reported
  <1>6. \A u \in Units, d \in Nat :
          Missed(u, d)' => Missed(u, d) \/ (d = level /\ chain[u][d + 1] = n)
    BY DEF Missed
  <1>7. ASSUME NEW u \in Units, NEW d \in 0..depth[u] - 1, Missed(u, d)'
        PROVE  Reported(u, d)'
    <2>1. d \in Nat /\ d < level
      BY <1>1 DEF LevelInv
    <2>2. Missed(u, d)
      BY <1>6, <1>7, <2>1
    <2>3. QED
      BY <1>5, <2>1, <2>2 DEF MissInv
  <1>8. ASSUME NEW u \in Units, ~done[u], call'[Current(u)] = "ended", Missed(u, level)'
        PROVE  Reported(u, level)'
    <2>0. depth[u] = level /\ Current(u) \in Sources
      BY <1>1, <1>8, ChainsAreSequences DEF LevelInv, Current
    <2>1. CASE Current(u) = n
      BY <1>8, <2>1 DEF Group
    <2>2. CASE Current(u) # n
      <3>1. call[Current(u)] = "ended" /\ Missed(u, level)
        BY <1>1, <1>6, <1>8, <2>0, <2>2 DEF Current, FetchTypeOK
      <3>2. QED
        BY <1>1, <1>5, <1>8, <3>1 DEF MissInv
    <2>3. QED
      BY <2>1, <2>2
  <1>9. \A u \in Units : Current(u)' = Current(u)
    BY DEF Current
  <1>10. QED
    BY <1>1, <1>3, <1>4, <1>7, <1>8, <1>9 DEF MissInv

(* The reports of a call cover every request it was made for.              *)
LEMMA ReportsCover ==
  ASSUME FetchTypeOK, LevelInv, NEW n \in Sources, NEW code, NEW u \in Group(n),
         diags' = diags \cup Report(code, n), level' = level
  PROVE  Reported(u, level)'
  <1>1. [code |-> code, unit |-> u, level |-> level] \in diags'
    BY DEF Report
  <1>2. QED
    BY <1>1 DEF Reported

LEMMA StepMisses == FetchTypeOK /\ LevelInv /\ MissInv /\ [FetchNext]_fetchVars => MissInv'
  <1> SUFFICES ASSUME FetchTypeOK, LevelInv, MissInv, [FetchNext]_fetchVars PROVE MissInv'
    OBVIOUS
  <1>nats. level \in Nat /\ \A u \in Units : depth[u] \in Nat
    BY DEF FetchTypeOK
  <1>fields. \A f \in failed : f[1] \in Nat /\ f[2] \in Sources
    BY DEF FetchTypeOK
  <1>same. ASSUME UNCHANGED <<chain, depth, diags, failed>>,
                  NEW u \in Units, NEW d \in 0..depth[u] - 1, Missed(u, d)'
           PROVE  Reported(u, d)'
    BY <1>same DEF MissInv, Missed, Reported
  <1>1. ASSUME StartLevel PROVE MissInv'
    <2>1. /\ UNCHANGED <<chain, depth, got, level, diags, failed>>
          /\ phase = "group" /\ phase' = "level"
          /\ \A n \in Sources : call'[n] \in {"none", "begun"}
          /\ \A u \in Units : done'[u] <=> done[u] \/ Exhausted(u, depth[u])
      BY <1>1 DEF StartLevel, resultVars
    <2>2. \A u \in Units : ~done'[u] => Current(u)' \in Sources
      BY <2>1, ChainsAreSequences DEF Exhausted, Current
    <2>3. \A u \in Units : done'[u] /\ ~got'[u] => depth'[u] = Len(chain'[u])
      BY <2>1, ChainsAreSequences DEF Exhausted, MissInv
    <2>4. \A f \in failed : f[1] < level
      BY <2>1 DEF MissInv
    <2>5. QED
      BY <2>1, <2>2, <2>3, <2>4, <1>same, <1>nats, <1>fields DEF MissInv
  <1>2. ASSUME EndLevel PROVE MissInv'
    <2>1. /\ phase = "level" /\ UNCHANGED <<chain, got, diags, failed, ctxDone>>
          /\ depth' = [u \in Units |-> IF ~done[u] /\ ~got[u] THEN depth[u] + 1 ELSE depth[u]]
          /\ done' = [u \in Units |-> done[u] \/ got[u] \/ Exhausted(u, depth'[u])]
          /\ call' = [n \in Sources |-> "none"]
          /\ \/ ctxDone /\ phase' = "returned" /\ err' = "canceled"
             \/ phase' = "group" /\ level' = level + 1
      BY <1>2 DEF EndLevel, Advances, resultVars
    <2>2. ASSUME NEW u \in Units, NEW d \in 0..depth'[u] - 1, Missed(u, d)'
          PROVE  Reported(u, d)'
      <3>1. Missed(u, d) /\ (Reported(u, d) => Reported(u, d)')
        BY <2>1, <2>2 DEF Missed, Reported
      <3>2. CASE d < depth[u]
        BY <2>1, <3>1, <3>2, <1>nats DEF MissInv
      <3>3. CASE ~(d < depth[u])
        <4>1. /\ ~done[u] /\ ~got[u] /\ d = depth[u]
              /\ depth[u] = level /\ depth[u] < Len(chain[u])
          BY <2>1, <3>3, <1>nats DEF LevelInv
        <4>2. Current(u) \in Sources /\ call[Current(u)] # "none"
          BY <2>1, <4>1, ChainsAreSequences DEF LevelInv, Current
        <4>3. call[Current(u)] = "ended"
          BY <1>2, <4>2 DEF EndLevel, Barrier
        <4>4. QED
          BY <2>1, <3>1, <4>1, <4>3 DEF MissInv
      <3>4. QED
        BY <3>2, <3>3
    <2>3. ASSUME NEW u \in Units, done'[u], ~got'[u] PROVE depth'[u] = Len(chain'[u])
      <3>1. CASE done[u]
        BY <2>1, <2>3, <3>1 DEF MissInv
      <3>2. CASE ~done[u]
        <4>1. depth'[u] = depth[u] + 1 /\ depth[u] < Len(chain[u]) /\ depth'[u] >= Len(chain[u])
          BY <2>1, <2>3, <3>2 DEF LevelInv, Exhausted
        <4>2. QED
          BY <2>1, <4>1, ChainsAreSequences
      <3>3. QED
        BY <3>1, <3>2
    <2>4. \A f \in failed : f[1] <= level
      BY <2>1 DEF MissInv
    <2>5. QED
      BY <2>1, <2>2, <2>3, <2>4, <1>nats, <1>fields DEF MissInv
  <1>3. ASSUME Finish PROVE MissInv'
    <2>1. /\ UNCHANGED <<chain, depth, got, diags, failed, collected>>
          /\ phase' = "returned" /\ call' = call
          /\ \A u \in Units : done'[u] /\ (done[u] \/ Exhausted(u, depth[u]))
          /\ err' = IF collected = {} THEN "zero" ELSE "none"
      BY <1>3 DEF Finish, resultVars
    <2>2. \A u \in Units : ~got'[u] => depth'[u] = Len(chain'[u])
      BY <2>1, ChainsAreSequences DEF Exhausted, MissInv
    <2>3. QED
      BY <2>1, <2>2, <1>same DEF MissInv
  <1>4. ASSUME NEW n \in Sources, Skip(n) PROVE MissInv'
    BY <1>4, ReportsCover, MissedCalls DEF Skip, unitVars
  <1>fail. ASSUME NEW n \in Sources, call[n] \in {"begun", "running"}, Fail(n) PROVE MissInv'
    BY <1>fail, ReportsCover, MissedCalls DEF Fail, unitVars
  <1>5. ASSUME NEW n \in Sources, BeginCall(n) PROVE MissInv'
    <2>1. /\ UNCHANGED <<chain, depth, done, got, phase, level, diags, failed, collected,
                         ctxDone, err>>
          /\ call[n] = "begun" /\ call' = [call EXCEPT ![n] = "running"]
          /\ n \notin Unknown \cup Unsupported
      BY <1>5 DEF BeginCall, unitVars, resultVars
    <2>2. phase = "level"
      BY <2>1 DEF LevelInv
    <2>3. \A u \in Units : Current(u)' = Current(u)
      BY <2>1 DEF Current
    <2>4. ASSUME NEW u \in Units, ~done[u], call'[Current(u)] = "ended", Missed(u, level)'
          PROVE  Reported(u, level)'
      <3>1. Current(u) \in Sources
        BY <2>2, <2>4, ChainsAreSequences DEF LevelInv, Current
      <3>2. call[Current(u)] = "ended"
        BY <2>1, <2>4, <3>1 DEF FetchTypeOK
      <3>3. QED
        BY <2>1, <2>2, <2>4, <3>2 DEF MissInv, Missed, Reported
    <2>5. \A f \in failed : f[1] <= level /\ (f[1] = level => call'[f[2]] = "ended")
      BY <2>1, <2>2, <1>fields DEF MissInv, FetchTypeOK
    <2>6. \A m \in Sources : call'[m] = "running" => m \notin Unknown \cup Unsupported
      BY <2>1 DEF MissInv, FetchTypeOK
    <2>7. QED
      BY <2>1, <2>2, <2>3, <2>4, <2>5, <2>6, <1>same DEF MissInv
  <1>6. ASSUME NEW n \in Sources, GiveUpCall(n) PROVE MissInv'
    BY <1>6, <1>fail DEF GiveUpCall
  <1>7. ASSUME NEW n \in Sources, FailCall(n) PROVE MissInv'
    BY <1>7, <1>fail DEF FailCall
  <1>8. ASSUME NEW n \in Sources, NEW P \in SUBSET Pairs, EndCall(n, P) PROVE MissInv'
    <2>1. /\ UNCHANGED <<chain, depth, done, phase, level, diags, failed>>
          /\ call[n] = "running" /\ call' = [call EXCEPT ![n] = "ended"]
          /\ got' = [u \in Units |-> got[u] \/ u \in Served(n, P)]
      BY <1>8 DEF EndCall
    <2>2. phase = "level"
      BY <2>1 DEF LevelInv
    <2>3. \A u \in Units : Current(u)' = Current(u)
      BY <2>1 DEF Current
    <2>4. n \notin Unknown \cup Unsupported /\ <<level, n>> \notin failed
      BY <2>1, <2>2 DEF MissInv
    <2>5. ASSUME NEW u \in Units, ~done[u], call'[Current(u)] = "ended", Missed(u, level)'
          PROVE  Reported(u, level)'
      <3>1. Current(u) \in Sources /\ depth[u] = level
        BY <2>2, <2>5, ChainsAreSequences DEF LevelInv, Current
      <3>2. Current(u) # n
        BY <2>1, <2>4, <2>5, <3>1 DEF Missed, Current
      <3>3. call[Current(u)] = "ended"
        BY <2>1, <2>5, <3>1, <3>2 DEF FetchTypeOK
      <3>4. QED
        BY <2>1, <2>2, <2>5, <3>3 DEF MissInv, Missed, Reported
    <2>6. \A f \in failed : f[1] <= level /\ (f[1] = level => call'[f[2]] = "ended")
      BY <2>1, <2>2, <1>fields DEF MissInv, FetchTypeOK
    <2>7. \A m \in Sources : call'[m] = "running" => m \notin Unknown \cup Unsupported
      BY <2>1 DEF MissInv, FetchTypeOK
    <2>8. \A u \in Units : done[u] /\ ~got'[u] => depth[u] = Len(chain[u])
      BY <2>1 DEF MissInv
    <2>9. QED
      BY <2>1, <2>2, <2>3, <2>5, <2>6, <2>7, <2>8, <1>same DEF MissInv
  <1>9. ASSUME CancelFetch PROVE MissInv'
    BY <1>9, <1>same DEF CancelFetch, unitVars, resultVars, MissInv, Missed, Reported, Current
  <1>10. CASE UNCHANGED fetchVars
    BY <1>10, <1>same DEF fetchVars, unitVars, resultVars, MissInv, Missed, Reported, Current
  <1>11. QED
    BY <1>1, <1>2, <1>3, <1>4, <1>5, <1>6, <1>7, <1>8, <1>9, <1>10
       DEF FetchNext, RunLevels, Dispatch

(* A fetch that was not cancelled leaves no source of a request without a  *)
(* price untried, nor a failure unreported.                                *)
THEOREM Untried == FetchSpec => []NothingLeftUntried
  <1>1. MissInv => NothingLeftUntried
    BY DEF MissInv, NothingLeftUntried, Reported
  <1>2. QED
    BY <1>1, InitMisses, StepMisses, Levels, PTL DEF FetchSpec

-----------------------------------------------------------------------------
(* Refinement: how many sources of a request have been asked and have      *)
(* answered, as FallbackChain sees it.                                     *)
Asked    == [u \in Units |-> AskedOf(u)]
AnsweredAll == [u \in Units |-> AnsweredOf(u)]
GotPrice      == {u \in Units : got[u]}
chainVars == <<chain, Asked, AnsweredAll, GotPrice>>

(* A step that starts or ends no call is a stutter.                        *)
LEMMA SameChain ==
  ASSUME UNCHANGED <<chain, got>>,
         \A u \in Units : AskedOf(u)' = AskedOf(u) /\ AnsweredOf(u)' = AnsweredOf(u)
  PROVE  UNCHANGED chainVars
  BY DEF chainVars, Asked, AnsweredAll, GotPrice

(* A call that ends answers the requests it was made for.                  *)
LEMMA CallAnswers ==
  ASSUME FetchTypeOK, LevelInv, NEW n \in Sources, call[n] \in {"begun", "running"},
         call' = [call EXCEPT ![n] = "ended"], phase' = phase,
         UNCHANGED <<chain, depth, done>>,
         NEW H \in SUBSET Group(n), got' = [u \in Units |-> got[u] \/ u \in H]
  PROVE  Promise!ChainNext
  <1>1. phase = "level" /\ Group(n) \subseteq Units
    BY DEF LevelInv, Group
  <1>2. \A u \in Units : Current(u)' = Current(u)
    BY DEF Current
  <1>3. ASSUME NEW u \in Group(n)
        PROVE  /\ ~done[u] /\ ~got[u] /\ depth[u] \in Nat
               /\ call[Current(u)] # "ended" /\ call'[Current(u)] = "ended"
    BY DEF Group, LevelInv, FetchTypeOK
  <1>4. ASSUME NEW u \in Units, u \notin Group(n), ~done[u]
        PROVE  call'[Current(u)] = call[Current(u)]
    <2>1. Current(u) \in Sources /\ Current(u) # n
      BY <1>1, <1>4, ChainsAreSequences DEF LevelInv, Current, Group
    <2>2. QED
      BY <2>1 DEF FetchTypeOK
  <1>5. \A u \in Group(n) : AnsweredAll[u] < Asked[u]
    BY <1>1, <1>3 DEF AnsweredAll, Asked, AnsweredOf, AskedOf, InFlight
  <1>6. AnsweredAll' =
          [u \in Units |-> IF u \in Group(n) THEN AnsweredAll[u] + 1 ELSE AnsweredAll[u]]
    <2>1. ASSUME NEW u \in Units
          PROVE  AnsweredOf(u)' = IF u \in Group(n) THEN AnsweredOf(u) + 1 ELSE AnsweredOf(u)
      BY <1>1, <1>2, <1>3, <1>4, <2>1 DEF AnsweredOf, InFlight
    <2>2. QED
      BY <2>1 DEF AnsweredAll
  <1>7. Asked' = Asked
    <2>1. ASSUME NEW u \in Units PROVE AskedOf(u)' = AskedOf(u)
      BY <1>1, <1>3, <2>1 DEF AskedOf, InFlight
    <2>2. QED
      BY <2>1 DEF Asked
  <1>8. GotPrice' = GotPrice \cup H
    BY <1>1 DEF GotPrice
  <1>9. Promise!Answer(Group(n), H)
    BY <1>5, <1>6, <1>7, <1>8 DEF Promise!Answer, Promise!Waiting, Asked, AnsweredAll, GotPrice
  <1>10. QED
    BY <1>1, <1>9 DEF Promise!ChainNext

LEMMA LevelAsks ==
  ASSUME FetchTypeOK, LevelInv, StartLevel
  PROVE  Promise!ChainNext
  <1> DEFINE left == {u \in Units : ~done[u] /\ ~Exhausted(u, depth[u])}
  <1>1. /\ phase = "group" /\ phase' = "level" /\ UNCHANGED <<chain, depth, got>>
        /\ done' = [u \in Units |-> u \notin left]
        /\ call' = [n \in Sources |->
                      IF \E u \in left : Current(u) = n THEN "begun" ELSE "none"]
    BY DEF StartLevel
  <1>2. ASSUME NEW u \in left
        PROVE  /\ ~got[u] /\ depth[u] \in Nat /\ depth[u] < Len(chain[u])
               /\ ~done'[u] /\ call'[Current(u)'] # "ended"
    <2>1. depth[u] \in Nat /\ depth[u] < Len(chain[u]) /\ Current(u) \in Sources
      BY ChainsAreSequences DEF Exhausted, Current
    <2>2. Current(u)' = Current(u)
      BY <1>1 DEF Current
    <2>3. QED
      BY <1>1, <2>1, <2>2 DEF LevelInv
  <1>3. \A u \in Units : u \notin left => done'[u]
    BY <1>1
  <1> HIDE DEF left
  <1>4. left \subseteq Units
    BY DEF left
  <1>5. \A u \in left : Asked[u] = depth[u] /\ AnsweredAll[u] = depth[u] /\ u \notin GotPrice
    BY <1>1, <1>2, <1>4 DEF Asked, AnsweredAll, GotPrice, AskedOf, AnsweredOf, InFlight
  <1>6. Asked' = [u \in Units |-> IF u \in left THEN Asked[u] + 1 ELSE Asked[u]]
    <2>1. ASSUME NEW u \in Units
          PROVE  AskedOf(u)' = IF u \in left THEN AskedOf(u) + 1 ELSE AskedOf(u)
      BY <1>1, <1>2, <1>3, <2>1 DEF AskedOf, InFlight
    <2>2. QED
      BY <2>1 DEF Asked
  <1>7. AnsweredAll' = AnsweredAll
    <2>1. ASSUME NEW u \in Units PROVE AnsweredOf(u)' = AnsweredOf(u)
      BY <1>1, <1>2, <1>3, <2>1 DEF AnsweredOf, InFlight
    <2>2. QED
      BY <2>1 DEF AnsweredAll
  <1>8. GotPrice' = GotPrice
    BY <1>1 DEF GotPrice
  <1>9. \A u \in left : ~(AnsweredAll[u] < Asked[u]) /\ Asked[u] < Len(chain[u])
    BY <1>2, <1>5
  <1>10. Promise!Ask(left)
    BY <1>1, <1>5, <1>6, <1>7, <1>8, <1>9
       DEF Promise!Ask, Promise!Waiting, Asked, AnsweredAll, GotPrice
  <1>11. QED
    BY <1>4, <1>10 DEF Promise!ChainNext

LEMMA StepChains ==
  FetchTypeOK /\ LevelInv /\ [FetchNext]_fetchVars
          => Promise!ChainNext \/ UNCHANGED chainVars
  <1> DEFINE Goal == Promise!ChainNext \/ UNCHANGED chainVars
  <1> SUFFICES ASSUME FetchTypeOK, LevelInv, [FetchNext]_fetchVars PROVE Goal
    OBVIOUS
  <1>calls. ASSUME NEW n \in Sources, call[n] \in {"begun", "running"},
                   call' = [call EXCEPT ![n] = "ended"], phase' = phase,
                   UNCHANGED <<chain, depth, done, got>>
            PROVE  Promise!ChainNext
    <2>1. PICK H \in SUBSET Group(n) : H = {}
      OBVIOUS
    <2>2. got' = [u \in Units |-> got[u] \/ u \in H]
      BY <1>calls, <2>1 DEF FetchTypeOK
    <2>3. QED
      BY <1>calls, <2>2, CallAnswers
  <1>1. ASSUME StartLevel PROVE Goal
    BY <1>1, LevelAsks
  <1>2. ASSUME EndLevel PROVE Goal
    <2>1. /\ phase = "level" /\ phase' # "level" /\ UNCHANGED <<chain, got>>
          /\ depth' = [u \in Units |-> IF ~done[u] /\ ~got[u] THEN depth[u] + 1 ELSE depth[u]]
      BY <1>2 DEF EndLevel, Advances
    <2>2. ASSUME NEW u \in Units, ~done[u] PROVE call[Current(u)] = "ended"
      <3>1. Current(u) \in Sources /\ call[Current(u)] # "none"
        BY <2>1, <2>2, ChainsAreSequences DEF LevelInv, Current
      <3>2. QED
        BY <1>2, <3>1 DEF EndLevel, Barrier
    <2>3. ASSUME NEW u \in Units
          PROVE  AskedOf(u)' = AskedOf(u) /\ AnsweredOf(u)' = AnsweredOf(u)
      BY <2>1, <2>2, <2>3 DEF AskedOf, AnsweredOf, InFlight
    <2>4. QED
      BY <2>1, <2>3, SameChain
  <1>3. ASSUME Finish PROVE Goal
    <2>1. phase # "level" /\ phase' # "level" /\ UNCHANGED <<chain, depth, got>>
      BY <1>3 DEF Finish
    <2>2. QED
      BY <2>1, SameChain DEF AskedOf, AnsweredOf, InFlight
  <1>4. ASSUME NEW n \in Sources, Skip(n) PROVE Goal
    BY <1>4, <1>calls DEF Skip, unitVars
  <1>5. ASSUME NEW n \in Sources, BeginCall(n) PROVE Goal
    <2>1. /\ UNCHANGED <<chain, depth, done, got, phase>>
          /\ call[n] = "begun" /\ call' = [call EXCEPT ![n] = "running"]
      BY <1>5 DEF BeginCall, unitVars
    <2>2. ASSUME NEW u \in Units, InFlight(u)
          PROVE  /\ Current(u)' = Current(u)
                 /\ call'[Current(u)] = "ended" <=> call[Current(u)] = "ended"
      <3>1. Current(u) \in Sources
        BY <2>2, ChainsAreSequences DEF LevelInv, Current, InFlight
      <3>2. QED
        BY <2>1, <3>1 DEF Current, FetchTypeOK
    <2>3. ASSUME NEW u \in Units
          PROVE  AskedOf(u)' = AskedOf(u) /\ AnsweredOf(u)' = AnsweredOf(u)
      BY <2>1, <2>2, <2>3 DEF AskedOf, AnsweredOf, InFlight
    <2>4. QED
      BY <2>1, <2>3, SameChain
  <1>6. ASSUME NEW n \in Sources, GiveUpCall(n) PROVE Goal
    BY <1>6, <1>calls DEF GiveUpCall, Fail, unitVars
  <1>7. ASSUME NEW n \in Sources, FailCall(n) PROVE Goal
    BY <1>7, <1>calls DEF FailCall, Fail, unitVars
  <1>8. ASSUME NEW n \in Sources, NEW P \in SUBSET Pairs, EndCall(n, P) PROVE Goal
    BY <1>8, CallAnswers DEF EndCall, Served
  <1>9. ASSUME CancelFetch PROVE Goal
    BY <1>9, SameChain DEF CancelFetch, unitVars, AskedOf, AnsweredOf, InFlight, Current
  <1>10. CASE UNCHANGED fetchVars
    BY <1>10, SameChain DEF fetchVars, unitVars, AskedOf, AnsweredOf, InFlight, Current
  <1>11. QED
    BY <1>1, <1>2, <1>3, <1>4, <1>5, <1>6, <1>7, <1>8, <1>9, <1>10
       DEF FetchNext, RunLevels, Dispatch

(* The fetch implements the fallback chains: each request has its sources  *)
(* asked in order, one after another, and none after one had a price.      *)
THEOREM Implementation == FetchSpec => ImplementsChain
  <1>1. ASSUME FetchInit PROVE Promise!Start
    <2>1. \A u \in Units : AskedOf(u) = 0 /\ AnsweredOf(u) = 0
      BY <1>1 DEF FetchInit, AskedOf, AnsweredOf, InFlight
    <2>2. QED
      BY <1>1, <2>1 DEF FetchInit, Promise!Start
  <1>2. FetchTypeOK /\ LevelInv /\ [FetchNext]_fetchVars
          => Promise!ChainNext \/ UNCHANGED chainVars
    BY StepChains
  <1>3. QED
    BY <1>1, <1>2, Levels, PTL
       DEF FetchSpec, ImplementsChain, Promise!ChainSpec,
           chainVars, Asked, AnsweredAll, GotPrice

-----------------------------------------------------------------------------
\* A cache with room to count in.
CacheInv(c, o, n) ==
    /\ n \in Nat /\ o.max \in Int /\ IsFiniteSet(DOMAIN c)
    /\ \A k \in DOMAIN c : c[k].seq \in Nat
    /\ CacheOK(c, o, n)

BatchOK(b, n) ==
    /\ {"pc", "tries", "days"} \subseteq DOMAIN b
    /\ b.tries \in 0..MaxAttempts
    /\ b.pc \in {"token", "try", "backoff"} => b.tries < MaxAttempts
    /\ NewestIn(b.days) \subseteq n

BatchInv ==
    /\ \A i \in DOMAIN batch : BatchOK(batch[i], newest)
    /\ IsFiniteSet(Inside) /\ slots = Cardinality(Inside) /\ slots <= Slots
    /\ request = None => DOMAIN batch = {}

Inv ==
    /\ opts \in Options /\ CacheInv(cache, opts, seq)
    /\ newest \subseteq Days /\ latestDate \in {0} \cup newest
    /\ tokens \in 0..Burst
    /\ BatchInv
-----------------------------------------------------------------------------
\* Of finitely many entries one is the oldest: all others are younger.
LEMMA Oldest ==
    ASSUME NEW c, NEW S \in SUBSET DOMAIN c, S # {},
           \A k \in DOMAIN c : c[k].seq \in Nat
    PROVE  \E k \in S : \A j \in S : c[k].seq <= c[j].seq
  <1> DEFINE T == {c[k].seq : k \in S}
  <1>1. T \subseteq Nat /\ T # {}  OBVIOUS
  <1>2. PICK x \in T : \A y \in T : ~ (<<y, x>> \in OpToRel(<, Nat))
    <2> HIDE DEF T
    <2> QED  BY <1>1, NatLessThanWellFounded, WFMin, Zenon
  <1>3. \A y \in T : ~ (y < x)
    BY <1>1, <1>2, Zenon DEF OpToRel
  <1>4. \A y \in T : x <= y  BY <1>1, <1>3
  <1> QED  BY <1>4

\* evictIfFull leaves room for one entry.
LEMMA EvictionMakesRoom ==
    ASSUME NEW c, NEW o, NEW n, CacheInv(c, o, n)
    PROVE  LET left == EvictIfFull(c, o.max)
           IN  /\ DOMAIN left \subseteq DOMAIN c /\ IsFiniteSet(DOMAIN left)
               /\ \A k \in DOMAIN left : left[k] = c[k]
               /\ o.max > 0 => Cardinality(DOMAIN left) < o.max
  <1> DEFINE left == EvictIfFull(c, o.max)
             D == DOMAIN left
  <1>1. /\ D \subseteq DOMAIN c /\ \A k \in D : left[k] = c[k]
        /\ o.max > 0 => \A k \in D : Cardinality(Younger(c, k)) < o.max - 1
    BY DEF EvictIfFull, Restrict, CacheInv
  <1>2. IsFiniteSet(D)  BY <1>1, FS_Subset DEF CacheInv
  <1>3. ASSUME o.max > 0 PROVE Cardinality(D) < o.max
    <2>1. CASE D = {}  BY <2>1, <1>3, FS_EmptySet DEF CacheInv
    <2>2. CASE D # {}
      <3>1. PICK k \in D : \A j \in D : c[k].seq <= c[j].seq
        <4> HIDE DEF D
        <4> QED  BY <1>1, <2>2, Oldest DEF CacheInv
      <3>2. D \ {k} \subseteq Younger(c, k)
        BY <1>1, <3>1 DEF Younger, CacheInv, CacheOK
      <3>3. IsFiniteSet(Younger(c, k))  BY FS_Subset DEF Younger, CacheInv
      <3>4. /\ Cardinality(D \ {k}) <= Cardinality(Younger(c, k))
            /\ Cardinality(Younger(c, k)) \in Nat
        BY <3>2, <3>3, FS_Subset, FS_CardinalityType
      <3>5. /\ Cardinality(D \ {k}) = Cardinality(D) - 1
            /\ Cardinality(D) \in Nat /\ Cardinality(D \ {k}) \in Nat
        BY <1>2, FS_RemoveElement, FS_CardinalityType
      <3>6. Cardinality(Younger(c, k)) < o.max - 1  BY <1>1, <1>3
      <3> HIDE DEF D
      <3> QED  BY <3>4, <3>5, <3>6 DEF CacheInv
    <2> QED  BY <2>1, <2>2
  <1> QED  BY <1>1, <1>2, <1>3

\* A Put keeps the cap and numbers its entry apart from the others.
LEMMA PutKeepsCap ==
    ASSUME NEW c, NEW o, NEW n, NEW k, NEW v, NEW now, CacheInv(c, o, n)
    PROVE  CacheInv(Put(c, k, v, n + 1, o, now), o, n + 1)
  <1> DEFINE left == EvictIfFull(c, o.max)
             put == Put(c, k, v, n + 1, o, now)
  <1>1. /\ DOMAIN left \subseteq DOMAIN c /\ IsFiniteSet(DOMAIN left)
        /\ \A j \in DOMAIN left : left[j] = c[j]
        /\ o.max > 0 => Cardinality(DOMAIN left) < o.max
    BY EvictionMakesRoom
  <1>2. /\ DOMAIN put = DOMAIN left \cup {k}
        /\ put[k].seq = n + 1
        /\ \A j \in DOMAIN put : j # k => put[j] = left[j]
    BY DEF Put, Entry
  <1> HIDE DEF left, put
  <1>3. IsFiniteSet(DOMAIN put) /\ (o.max > 0 => Cardinality(DOMAIN put) <= o.max)
    <2>1. Cardinality(DOMAIN left) \in Nat  BY <1>1, FS_CardinalityType
    <2>2. /\ IsFiniteSet(DOMAIN left \cup {k})
          /\ Cardinality(DOMAIN left \cup {k}) \in
                 {Cardinality(DOMAIN left), Cardinality(DOMAIN left) + 1}
      BY <1>1, FS_AddElement
    <2> QED  BY <1>1, <1>2, <2>1, <2>2 DEF CacheInv
  <1>4. \A j \in DOMAIN put : j # k => j \in DOMAIN c /\ put[j].seq = c[j].seq
    BY <1>1, <1>2
  <1>5. \A j \in DOMAIN put : put[j].seq \in Nat /\ put[j].seq <= n + 1
    BY <1>2, <1>4 DEF CacheInv, CacheOK
  <1>6. \A i, j \in DOMAIN put : put[i].seq = put[j].seq => i = j
    BY <1>2, <1>4 DEF CacheInv, CacheOK
  <1> QED  BY <1>3, <1>5, <1>6 DEF CacheInv, CacheOK, put

\* A Get only forgets.
LEMMA GetKeepsCap ==
    ASSUME NEW c, NEW o, NEW n, NEW k, NEW now, CacheInv(c, o, n)
    PROVE  CacheInv(AfterGet(c, k, o, now), o, n)
  <1> DEFINE gained == AfterGet(c, k, o, now)
  <1>1. DOMAIN gained \subseteq DOMAIN c /\ \A j \in DOMAIN gained : gained[j] = c[j]
    BY DEF AfterGet, Restrict
  <1> HIDE DEF gained
  <1>2. IsFiniteSet(DOMAIN gained) /\ Cardinality(DOMAIN gained) <= Cardinality(DOMAIN c)
        /\ Cardinality(DOMAIN gained) \in Nat /\ Cardinality(DOMAIN c) \in Nat
    BY <1>1, FS_Subset, FS_CardinalityType DEF CacheInv
  <1> QED  BY <1>1, <1>2 DEF CacheInv, CacheOK, gained
-----------------------------------------------------------------------------
\* A step that gives one batch a new state moves it into the source or out of it.
LEMMA OneBatch ==
    ASSUME BatchInv, NEW i \in DOMAIN batch, NEW b,
           newest \subseteq newest', BatchOK(b, newest'),
           batch' = [batch EXCEPT ![i] = b]
    PROVE  /\ \A j \in DOMAIN batch' : BatchOK(batch'[j], newest')
           /\ Inside' = IF b.pc \in {"date", "look", "fill"}
                        THEN Inside \cup {i} ELSE Inside \ {i}
  <1>1. /\ DOMAIN batch' = DOMAIN batch /\ batch'[i] = b
        /\ \A j \in DOMAIN batch : j # i => batch'[j] = batch[j]
    OBVIOUS
  <1>2. \A j \in DOMAIN batch : BatchOK(batch[j], newest')
    BY DEF BatchInv, BatchOK
  <1> QED  BY <1>1, <1>2 DEF Inside

\* The same for a step that takes no slot and gives none back.
LEMMA SameSlots ==
    ASSUME BatchInv, NEW i \in DOMAIN batch, NEW b,
           newest \subseteq newest', BatchOK(b, newest'),
           batch' = [batch EXCEPT ![i] = b],
           b.pc \in {"date", "look", "fill"} <=> batch[i].pc \in {"date", "look", "fill"},
           UNCHANGED <<slots, request>>
    PROVE  BatchInv'
  <1>1. Inside' = Inside  BY OneBatch DEF Inside
  <1>2. \A j \in DOMAIN batch' : BatchOK(batch'[j], newest')  BY OneBatch
  <1> QED  BY <1>1, <1>2 DEF BatchInv

\* A batch that begins has made no attempt.
LEMMA BeginsFresh ==
    ASSUME NEW r, NEW from, Begin(r, from), Inside = {}, BatchInv,
           request' # None, newest' = newest, slots' = slots
    PROVE  BatchInv'
  <1>1. ASSUME NEW qs, NEW n PROVE BatchOK(Fresh(qs), n) /\ Fresh(qs).pc = "token"
    BY LimitsAssumption DEF Fresh, BatchOK, NewestIn
  <1>2. \A i \in DOMAIN batch' : BatchOK(batch'[i], newest') /\ batch'[i].pc = "token"
    BY <1>1 DEF Begin
  <1>3. Inside' = {}  BY <1>2 DEF Inside
  <1> QED  BY <1>2, <1>3 DEF BatchInv

\* The end of a call of the source gives its slot back.
LEMMA EndGivesBack ==
    ASSUME BatchInv, NEW i \in DOMAIN batch, NEW gained, NEW error,
           batch[i].pc \in {"look", "fill"}, End(i, gained, error), newest' = newest
    PROVE  BatchInv' /\ tokens' = tokens
  <1> DEFINE again == error = "transient" /\ batch[i].tries < MaxAttempts
             b == [batch[i] EXCEPT !.pc = IF again THEN "backoff" ELSE "end",
                                   !.got = gained, !.error = IF again THEN None ELSE error]
  <1>1. batch' = [batch EXCEPT ![i] = b]  BY DEF End
  <1>2. BatchOK(batch[i], newest)  BY DEF BatchInv
  <1>3. BatchOK(b, newest') /\ b.pc \notin {"date", "look", "fill"}
    BY <1>2 DEF BatchOK
  <1> HIDE DEF b
  <1>4. /\ Inside' = Inside \ {i} /\ i \in Inside
        /\ \A j \in DOMAIN batch' : BatchOK(batch'[j], newest')
    BY <1>1, <1>3, OneBatch DEF Inside
  <1>5. /\ IsFiniteSet(Inside \ {i}) /\ Cardinality(Inside \ {i}) = Cardinality(Inside) - 1
        /\ Cardinality(Inside) \in Nat
    BY <1>4, FS_RemoveElement, FS_CardinalityType DEF BatchInv
  <1>6. slots' = slots - 1 /\ request' = request /\ tokens' = tokens
    BY DEF End, Released, BatchFrame, callVars
  <1> QED  BY <1>4, <1>5, <1>6, LimitsAssumption DEF BatchInv

\* Feeds hold days.
LEMMA FeedDays ==
    ASSUME NEW f, NEW last PROVE NewestIn(Content(f, last)) \subseteq Days
  BY DEF Content, NewestIn

LEMMA InitInv == Init => Inv
  <1> SUFFICES ASSUME Init PROVE Inv  OBVIOUS
  <1>1. CacheInv(cache, opts, seq)
    BY FS_EmptySet, LimitsAssumption DEF Init, CacheInv, CacheOK
  <1>2. Inside = {}  BY DEF Init, Inside
  <1>3. BatchInv  BY <1>2, FS_EmptySet, LimitsAssumption DEF Init, BatchInv
  <1> QED  BY <1>1, <1>3, LimitsAssumption DEF Init, Inv

\* What a goroutine does outside the source, or inside it without leaving.
LEMMA StepInside ==
    ASSUME Inv, NEW i \in DOMAIN batch,
           TakeToken(i) \/ Attempt(i) \/ GiveUp(i) \/ Backoff(i) \/ ReadDate(i)
             \/ Look(i) \/ Fetch(i) \/ PutRate(i)
    PROVE  BatchInv'
  <1> USE DEF Inv
  <1>0. BatchOK(batch[i], newest)  BY DEF BatchInv
  <1>1. CASE TakeToken(i) \/ Backoff(i)
    <2> DEFINE b == [batch[i] EXCEPT !.pc = "try"]
    <2>1. batch' = [batch EXCEPT ![i] = b] /\ batch[i].pc \in {"token", "backoff"}
      BY <1>1 DEF TakeToken, Backoff, Goes, At
    <2>2. newest' = newest /\ UNCHANGED <<slots, request>>
      BY <1>1 DEF TakeToken, Backoff, cacheVars, BatchFrame, callVars
    <2>3. BatchOK(b, newest') /\ b.pc = "try"  BY <1>0, <2>1, <2>2 DEF BatchOK
    <2> HIDE DEF b
    <2> QED  BY <2>1, <2>2, <2>3, SameSlots
  <1>2. CASE Attempt(i)
    <2> DEFINE b == [batch[i] EXCEPT !.pc = "slot", !.tries = @ + 1]
    <2>1. batch' = [batch EXCEPT ![i] = b] /\ batch[i].pc = "try"
      BY <1>2 DEF Attempt, At
    <2>2. newest' = newest /\ UNCHANGED <<slots, request>>
      BY <1>2 DEF Attempt, cacheVars, BatchFrame, callVars
    <2>3. BatchOK(b, newest') /\ b.pc = "slot"
      BY <1>0, <2>1, <2>2, LimitsAssumption DEF BatchOK
    <2> HIDE DEF b
    <2> QED  BY <2>1, <2>2, <2>3, SameSlots
  <1>3. CASE GiveUp(i)
    <2> DEFINE b == [batch[i] EXCEPT !.pc = "end", !.error = "canceled"]
    <2>1. /\ batch' = [batch EXCEPT ![i] = b]
          /\ batch[i].pc \in {"token", "try", "slot", "backoff"}
      BY <1>3 DEF GiveUp, At
    <2>2. newest' = newest /\ UNCHANGED <<slots, request>>
      BY <1>3 DEF GiveUp, cacheVars, BatchFrame, callVars
    <2>3. BatchOK(b, newest') /\ b.pc = "end"  BY <1>0, <2>1, <2>2 DEF BatchOK
    <2> HIDE DEF b
    <2> QED  BY <2>1, <2>2, <2>3, SameSlots
  <1>4. CASE ReadDate(i)
    <2>1. PICK seen, todo, missing :
             batch' = [batch EXCEPT ![i].pc = "look", ![i].seen = seen,
                                    ![i].todo = todo, ![i].missing = missing]
      BY <1>4 DEF ReadDate
    <2> DEFINE b == [batch[i] EXCEPT !.pc = "look", !.seen = seen, !.todo = todo,
                                     !.missing = missing]
    <2>2. batch' = [batch EXCEPT ![i] = b] /\ batch[i].pc = "date"
      BY <1>4, <2>1 DEF ReadDate, At
    <2>3. newest' = newest /\ UNCHANGED <<slots, request>>
      BY <1>4 DEF ReadDate, cacheVars, BatchFrame, callVars
    <2>4. BatchOK(b, newest') /\ b.pc = "look"  BY <1>0, <2>2, <2>3 DEF BatchOK
    <2> HIDE DEF b
    <2> QED  BY <2>2, <2>3, <2>4, SameSlots
  <1>5. CASE Look(i)
    <2> DEFINE old == batch[i]
               q == CHOOSE p \in old.todo : TRUE
               k == IF request.method = "latest" THEN LatestKey(q.cur)
                    ELSE AtKey(q.cur, q.day)
               date == IF request.method = "latest" THEN old.seen ELSE q.day
               hit == [old EXCEPT !.todo = @ \ {q},
                                  !.got = @ \cup {Price(q.cur, date, cache[k].value)}]
               none == [old EXCEPT !.todo = {}, !.got = {}, !.missing = Wanted(old)]
               miss == [old EXCEPT !.todo = @ \ {q}, !.missing = @ \cup {q.cur}]
    <2>1. \E b \in {hit, none, miss} : batch' = [batch EXCEPT ![i] = b]
      BY <1>5 DEF Look
    <2>2. \A b \in {hit, none, miss} :
             BatchOK(b, newest) /\ b.pc = "look" /\ batch[i].pc = "look"
      BY <1>0, <1>5 DEF BatchOK, Look, At
    <2>3. newest' = newest /\ UNCHANGED <<slots, request>>
      BY <1>5 DEF Look, BatchFrame, callVars
    <2> HIDE DEF hit, none, miss
    <2> QED  BY <2>1, <2>2, <2>3, SameSlots
  <1>6. CASE Fetch(i)
    <2>1. PICK days :
             /\ batch' = [batch EXCEPT ![i].pc = "fill", ![i].days = days,
                                       ![i].todo = Fill(days)]
             /\ newest' = newest \cup NewestIn(days)
      BY <1>6 DEF Fetch
    <2> DEFINE b == [batch[i] EXCEPT !.pc = "fill", !.days = days, !.todo = Fill(days)]
    <2>2. batch' = [batch EXCEPT ![i] = b] /\ batch[i].pc = "look"
      BY <1>6, <2>1 DEF Fetch, Missing, At
    <2>3. newest \subseteq newest' /\ UNCHANGED <<slots, request>>
      BY <1>6, <2>1 DEF Fetch, BatchFrame, callVars
    <2>4. BatchOK(b, newest') /\ b.pc = "fill"  BY <1>0, <2>1, <2>2 DEF BatchOK
    <2> HIDE DEF b
    <2> QED  BY <2>2, <2>3, <2>4, SameSlots
  <1>7. CASE PutRate(i)
    <2> DEFINE b == [batch[i] EXCEPT !.todo = @ \ {FirstOf(@)}]
    <2>1. batch' = [batch EXCEPT ![i] = b] /\ batch[i].pc = "fill"
      BY <1>7 DEF PutRate, At
    <2>2. newest' = newest /\ UNCHANGED <<slots, request>>
      BY <1>7 DEF PutRate, BatchFrame, callVars
    <2>3. BatchOK(b, newest') /\ b.pc = "fill"  BY <1>0, <2>1, <2>2 DEF BatchOK
    <2> HIDE DEF b
    <2> QED  BY <2>1, <2>2, <2>3, SameSlots
  <1> QED  BY <1>1, <1>2, <1>3, <1>4, <1>5, <1>6, <1>7

\* A slot is taken when one is left.
LEMMA TakingSlots ==
    ASSUME Inv, NEW i \in DOMAIN batch, TakeSlot(i) PROVE BatchInv'
  <1> DEFINE b == [batch[i] EXCEPT !.pc = "date", !.got = {}, !.missing = {}]
  <1>1. /\ batch' = [batch EXCEPT ![i] = b] /\ batch[i].pc = "slot"
        /\ slots < Slots /\ slots' = slots + 1 /\ newest' = newest /\ request' = request
    BY DEF TakeSlot, At, cacheVars, BatchFrame, callVars
  <1>2. BatchOK(b, newest') /\ b.pc = "date"  BY <1>1 DEF Inv, BatchInv, BatchOK
  <1> HIDE DEF b
  <1>3. /\ Inside' = Inside \cup {i} /\ i \notin Inside
        /\ \A j \in DOMAIN batch' : BatchOK(batch'[j], newest')
    BY <1>1, <1>2, OneBatch DEF Inv, Inside
  <1>4. /\ IsFiniteSet(Inside') /\ Cardinality(Inside') = Cardinality(Inside) + 1
        /\ Cardinality(Inside) \in Nat
    BY <1>3, FS_AddElement, FS_CardinalityType DEF Inv, BatchInv
  <1>5. request # None  BY DEF Inv, BatchInv
  <1> QED  BY <1>1, <1>3, <1>4, <1>5, LimitsAssumption DEF Inv, BatchInv

\* Every step keeps the batches and their slots.
LEMMA BatchStep == Inv /\ [Next]_vars => BatchInv'
  <1> SUFFICES ASSUME Inv, [Next]_vars PROVE BatchInv'  OBVIOUS
  <1> USE DEF Inv
  <1>1. ASSUME NEW r \in Requests, Call(r) PROVE BatchInv'
    <2>1. Inside = {} /\ request' # None
      BY <1>1, LimitsAssumption DEF Call, BatchInv, Inside
    <2>2. Begin(r, r.from) /\ newest' = newest /\ slots' = slots
      BY <1>1 DEF Call, cacheVars
    <2> QED  BY <2>1, <2>2, BeginsFresh
  <1>2. CASE NextBucket
    <2>1. Inside = {}  BY <1>2 DEF NextBucket, Over, Inside
    <2>2. /\ Begin(request, BucketEnd(request)) /\ request' # None
          /\ newest' = newest /\ slots' = slots
      BY <1>2 DEF NextBucket, cacheVars
    <2> QED  BY <2>1, <2>2, BeginsFresh
  <1>3. CASE Return
    <2>1. Inside = {}  BY <1>3 DEF Return, Over, Inside
    <2>2. /\ DOMAIN batch' = {} /\ newest' = newest /\ slots' = slots
      BY <1>3 DEF Return, cacheVars
    <2>3. Inside' = {}  BY <2>2 DEF Inside
    <2> QED  BY <2>1, <2>2, <2>3 DEF BatchInv
  <1>4. CASE CancelCtx \/ Tick \/ Refill
    <2>1. UNCHANGED <<batch, newest, slots, request>>
      BY <1>4 DEF CancelCtx, Tick, Refill, cacheVars, callVars
    <2> QED  BY <2>1 DEF BatchInv, Inside
  <1>5. ASSUME NEW i \in DOMAIN batch, Goroutine(i) PROVE BatchInv'
    <2>1. CASE TakeSlot(i)  BY <2>1, TakingSlots
    <2>2. CASE AllFound(i) \/ FailFetch(i) \/ Stamp(i)
      <3>1. batch[i].pc \in {"look", "fill"} /\ newest' = newest
        BY <2>2 DEF AllFound, FailFetch, Stamp, Missing, At, cacheVars
      <3>2. PICK gained, error : End(i, gained, error)
        BY <2>2 DEF AllFound, FailFetch, Stamp
      <3> QED  BY <3>1, <3>2, EndGivesBack
    <2>3. CASE TakeToken(i) \/ Attempt(i) \/ GiveUp(i) \/ Backoff(i) \/ ReadDate(i)
                 \/ Look(i) \/ Fetch(i) \/ PutRate(i)
      BY <2>3, StepInside
    <2> QED  BY <1>5, <2>1, <2>2, <2>3 DEF Goroutine, Source
  <1>6. CASE UNCHANGED vars
    <2>1. UNCHANGED <<batch, newest, slots, request>>
      BY <1>6 DEF vars, cacheVars, callVars
    <2> QED  BY <2>1 DEF BatchInv, Inside
  <1> QED  BY <1>1, <1>2, <1>3, <1>4, <1>5, <1>6 DEF Next, Caller

\* Every step keeps the cache and the latest date.
LEMMA CacheStep ==
    Inv /\ [Next]_vars =>
        /\ opts' = opts /\ CacheInv(cache', opts', seq')
        /\ newest' \subseteq Days /\ latestDate' \in {0} \cup newest'
        /\ tokens' \in 0..Burst
  <1> SUFFICES ASSUME Inv, [Next]_vars
               PROVE  /\ opts' = opts /\ CacheInv(cache', opts', seq')
                      /\ newest' \subseteq Days /\ latestDate' \in {0} \cup newest'
                      /\ tokens' \in 0..Burst
    OBVIOUS
  <1> USE DEF Inv
  <1>1. ASSUME UNCHANGED cacheVars, tokens' \in {tokens, tokens - 1, tokens + 1},
               tokens' \in 0..Burst
        PROVE  /\ opts' = opts /\ CacheInv(cache', opts', seq')
               /\ newest' \subseteq Days /\ latestDate' \in {0} \cup newest'
               /\ tokens' \in 0..Burst
    BY <1>1 DEF cacheVars
  <1>2. ASSUME NEW i \in DOMAIN batch, Look(i)
        PROVE  /\ opts' = opts /\ CacheInv(cache', opts', seq')
               /\ newest' \subseteq Days /\ latestDate' \in {0} \cup newest'
               /\ tokens' \in 0..Burst
    <2>1. PICK k : cache' = AfterGet(cache, k, opts, today)
      BY <1>2 DEF Look
    <2>2. UNCHANGED <<opts, seq, latestDate, newest, tokens>>  BY <1>2 DEF Look
    <2> QED  BY <2>1, <2>2, GetKeepsCap
  <1>3. ASSUME NEW i \in DOMAIN batch, PutRate(i)
        PROVE  /\ opts' = opts /\ CacheInv(cache', opts', seq')
               /\ newest' \subseteq Days /\ latestDate' \in {0} \cup newest'
               /\ tokens' \in 0..Burst
    <2>1. PICK k, v : seq' = seq + 1 /\ cache' = Put(cache, k, v, seq + 1, opts, today)
      BY <1>3 DEF PutRate
    <2>2. UNCHANGED <<opts, latestDate, newest, tokens>>  BY <1>3 DEF PutRate
    <2> QED  BY <2>1, <2>2, PutKeepsCap
  <1>4. ASSUME NEW i \in DOMAIN batch, Fetch(i)
        PROVE  /\ opts' = opts /\ CacheInv(cache', opts', seq')
               /\ newest' \subseteq Days /\ latestDate' \in {0} \cup newest'
               /\ tokens' \in 0..Burst
    <2>1. PICK last \in {today - 1, today} :
             newest' = newest \cup NewestIn(Content(FeedFor, last))
      BY <1>4 DEF Fetch
    <2>2. UNCHANGED <<opts, cache, seq, latestDate, tokens>>  BY <1>4 DEF Fetch
    <2> QED  BY <2>1, <2>2, FeedDays
  <1>5. ASSUME NEW i \in DOMAIN batch, Stamp(i)
        PROVE  /\ opts' = opts /\ CacheInv(cache', opts', seq')
               /\ newest' \subseteq Days /\ latestDate' \in {0} \cup newest'
               /\ tokens' \in 0..Burst
    <2>1. /\ latestDate' = IF \E d \in NewestIn(batch[i].days) : d > latestDate
                           THEN CHOOSE d \in NewestIn(batch[i].days) : TRUE ELSE latestDate
          /\ UNCHANGED <<opts, cache, seq, newest, tokens>>
      BY <1>5 DEF Stamp, End
    <2>2. NewestIn(batch[i].days) \subseteq newest  BY DEF BatchInv, BatchOK
    <2>3. latestDate' \in {0} \cup newest  BY <2>1, <2>2
    <2> QED  BY <2>1, <2>3
  <1>6. CASE Refill \/ \E i \in DOMAIN batch : TakeToken(i)
    BY <1>1, <1>6, LimitsAssumption DEF Refill, TakeToken
  <1>7. ASSUME UNCHANGED <<cacheVars, tokens>>
        PROVE  /\ opts' = opts /\ CacheInv(cache', opts', seq')
               /\ newest' \subseteq Days /\ latestDate' \in {0} \cup newest'
               /\ tokens' \in 0..Burst
    BY <1>1, <1>7
  <1>8. CASE CancelCtx \/ Tick \/ NextBucket \/ Return \/ \E r \in Requests : Call(r)
    BY <1>7, <1>8 DEF CancelCtx, Tick, NextBucket, Return, Call
  <1>9. ASSUME NEW i \in DOMAIN batch,
               Attempt(i) \/ GiveUp(i) \/ Backoff(i) \/ TakeSlot(i) \/ ReadDate(i)
                 \/ AllFound(i) \/ FailFetch(i)
        PROVE  UNCHANGED <<cacheVars, tokens>>
    BY <1>9 DEF Attempt, GiveUp, Backoff, TakeSlot, ReadDate, AllFound, FailFetch, End
  <1>10. CASE UNCHANGED vars  BY <1>7, <1>10 DEF vars
  <1> QED
    BY <1>2, <1>3, <1>4, <1>5, <1>6, <1>7, <1>8, <1>9, <1>10
       DEF Next, Caller, Goroutine, Source

\* The cap of the cache holds, the latest date is that of a feed that was read,
\* attempts end, and each slot is held by a batch inside the source: whatever
\* the limits, the requests and the order of the batches' steps.
THEOREM Typing == Spec => []TypeOK
  <1>1. Init => Inv  BY InitInv
  <1>2. Inv /\ [Next]_vars => Inv'  BY BatchStep, CacheStep DEF Inv
  <1>3. Inv => TypeOK  BY DEF Inv, CacheInv, BatchInv, BatchOK, TypeOK
  <1> QED  BY <1>1, <1>2, <1>3, PTL DEF Spec
-----------------------------------------------------------------------------
(***************************************************************************)
(* The rates.  A latest rate and the date it is given both come from feeds *)
(* that were read, though not always from the same one.                    *)
(***************************************************************************)
TruePrice(p, r, n) ==
    \/ p.rate = p.date /\ Good(p.date, p.cur)
    \/ r.method = "latest" /\ {p.rate, p.date} \subseteq n /\ Good(p.rate, p.cur)

TrueEntry(k, v, n) ==
    \/ \E c, d : k = AtKey(c, d) /\ v = d /\ Good(d, c)
    \/ \E c : k = LatestKey(c) /\ v \in n /\ Good(v, c)

TrueBatch(b, r, n) ==
    /\ {"pc", "seen", "todo", "got", "days"} \subseteq DOMAIN b
    /\ \A p \in b.got : TruePrice(p, r, n)
    /\ b.seen \in {0} \cup n
    /\ b.pc = "look" /\ r.method = "latest" /\ b.todo # {} => b.seen # 0
    /\ b.pc = "fill" =>
          \A p \in b.todo : Good(p.day, p.cur) /\ (p.latest => p.day \in n)

TrueCache == \A k \in DOMAIN cache : TrueEntry(k, cache[k].value, newest)
TrueBatches == \A i \in DOMAIN batch : TrueBatch(batch[i], asked.request, newest)
Truth ==
    /\ request # None => asked.request = request
    /\ TrueCache /\ TrueBatches
    /\ \A p \in prices : TruePrice(p, asked.request, newest)

\* More feeds take no truth away.
LEMMA TruthGrows ==
    ASSUME NEW n, NEW m, n \subseteq m
    PROVE  /\ \A p, r : TruePrice(p, r, n) => TruePrice(p, r, m)
           /\ \A k, v : TrueEntry(k, v, n) => TrueEntry(k, v, m)
           /\ \A b, r : TrueBatch(b, r, n) => TrueBatch(b, r, m)
  <1>1. \A p, r : TruePrice(p, r, n) => TruePrice(p, r, m)  BY DEF TruePrice
  <1>2. \A k, v : TrueEntry(k, v, n) => TrueEntry(k, v, m)  BY DEF TrueEntry
  <1>3. \A b, r : TrueBatch(b, r, n) => TrueBatch(b, r, m)
    BY <1>1 DEF TrueBatch
  <1> QED  BY <1>1, <1>2, <1>3

\* A step of one batch leaves the others true.
LEMMA OneTrueBatch ==
    ASSUME TrueBatches, NEW i \in DOMAIN batch, NEW b,
           newest \subseteq newest', asked' = asked,
           TrueBatch(b, asked.request, newest'), batch' = [batch EXCEPT ![i] = b]
    PROVE  TrueBatches'
  <1>1. \A j \in DOMAIN batch : TrueBatch(batch[j], asked.request, newest')
    BY TruthGrows DEF TrueBatches
  <1> QED  BY <1>1 DEF TrueBatches

\* What the cache answers is true of the key that was asked.
LEMMA AnswersAreTrue ==
    ASSUME TrueCache, NEW c, NEW d
    PROVE  /\ AtKey(c, d) \in DOMAIN cache =>
                  cache[AtKey(c, d)].value = d /\ Good(d, c)
           /\ LatestKey(c) \in DOMAIN cache =>
                  cache[LatestKey(c)].value \in newest /\ Good(cache[LatestKey(c)].value, c)
  BY DEF TrueCache, TrueEntry, AtKey, LatestKey

\* A goroutine outside the source, or reading the latest date.
LEMMA TruthOutside ==
    ASSUME Inv, Truth, NEW i \in DOMAIN batch,
           TakeToken(i) \/ Attempt(i) \/ GiveUp(i) \/ Backoff(i) \/ TakeSlot(i)
             \/ ReadDate(i)
    PROVE  TrueBatches' /\ UNCHANGED <<cacheVars, callVars>>
  <1>0. TrueBatch(batch[i], asked.request, newest) /\ TrueBatches
    BY DEF Truth, TrueBatches
  <1>1. UNCHANGED <<cacheVars, callVars>> /\ newest' = newest /\ asked' = asked
    BY DEF TakeToken, Attempt, GiveUp, Backoff, TakeSlot, ReadDate, BatchFrame,
           cacheVars, callVars
  <1>2. CASE TakeToken(i) \/ Attempt(i) \/ GiveUp(i) \/ Backoff(i)
    <2> DEFINE Moved == {[batch[i] EXCEPT !.pc = "try"],
                         [batch[i] EXCEPT !.pc = "slot", !.tries = @ + 1],
                         [batch[i] EXCEPT !.pc = "end", !.error = "canceled"]}
    <2>1. \E b \in Moved : batch' = [batch EXCEPT ![i] = b]
      BY <1>2 DEF TakeToken, Attempt, GiveUp, Backoff, Goes
    <2>2. TrueBatch([batch[i] EXCEPT !.pc = "try"], asked.request, newest)
      BY <1>0 DEF TrueBatch
    <2>3. TrueBatch([batch[i] EXCEPT !.pc = "slot", !.tries = @ + 1],
                    asked.request, newest)
      BY <1>0 DEF TrueBatch
    <2>4. TrueBatch([batch[i] EXCEPT !.pc = "end", !.error = "canceled"],
                    asked.request, newest)
      BY <1>0 DEF TrueBatch
    <2>5. \A b \in Moved : TrueBatch(b, asked.request, newest)
      BY <2>2, <2>3, <2>4
    <2> HIDE DEF Moved
    <2> QED  BY <1>0, <1>1, <2>1, <2>5, OneTrueBatch
  <1>3. CASE TakeSlot(i)
    <2> DEFINE b == [batch[i] EXCEPT !.pc = "date", !.got = {}, !.missing = {}]
    <2>1. batch' = [batch EXCEPT ![i] = b]  BY <1>3 DEF TakeSlot
    <2>2. TrueBatch(b, asked.request, newest)  BY <1>0 DEF TrueBatch
    <2> HIDE DEF b
    <2> QED  BY <1>0, <1>1, <2>1, <2>2, OneTrueBatch
  <1>4. CASE ReadDate(i)
    <2> DEFINE blank == request.method = "latest" /\ latestDate = 0
               todo == IF blank THEN {} ELSE Lookups(batch[i])
               missing == IF blank THEN Wanted(batch[i]) ELSE {}
               b == [batch[i] EXCEPT !.pc = "look", !.seen = latestDate,
                                     !.todo = todo, !.missing = missing]
    <2>1. batch' = [batch EXCEPT ![i] = b]  BY <1>4 DEF ReadDate
    <2>2. request # None  BY DEF Inv, BatchInv
    <2>3. todo # {} /\ asked.request.method = "latest" => latestDate # 0
      BY <2>2 DEF Truth
    <2> HIDE DEF todo, missing
    <2>4. TrueBatch(b, asked.request, newest)
      BY <1>0, <2>3 DEF TrueBatch, Inv
    <2> HIDE DEF b
    <2> QED  BY <1>0, <1>1, <2>1, <2>4, OneTrueBatch
  <1> QED  BY <1>1, <1>2, <1>3, <1>4

\* A lookup: a hit is a true price.
LEMMA TruthOfLook ==
    ASSUME Inv, Truth, NEW i \in DOMAIN batch, Look(i)
    PROVE  TrueBatches' /\ TrueCache'
  <1> DEFINE old == batch[i]
             q == CHOOSE p \in old.todo : TRUE
             k == IF request.method = "latest" THEN LatestKey(q.cur)
                  ELSE AtKey(q.cur, q.day)
             date == IF request.method = "latest" THEN old.seen ELSE q.day
             price == Price(q.cur, date, cache[k].value)
             hit == [old EXCEPT !.todo = @ \ {q}, !.got = @ \cup {price}]
             none == [old EXCEPT !.todo = {}, !.got = {}, !.missing = Wanted(old)]
             miss == [old EXCEPT !.todo = @ \ {q}, !.missing = @ \cup {q.cur}]
  <1>0. TrueBatch(old, asked.request, newest) /\ TrueBatches /\ TrueCache
        /\ asked.request = request
    BY DEF Truth, TrueBatches, Inv, BatchInv
  <1>1. /\ newest' = newest /\ asked' = asked /\ old.pc = "look" /\ old.todo # {}
        /\ cache' = AfterGet(cache, k, opts, today)
        /\ \/ Hit(cache, k, opts, today) /\ batch' = [batch EXCEPT ![i] = hit]
           \/ batch' = [batch EXCEPT ![i] = none]
           \/ batch' = [batch EXCEPT ![i] = miss]
    BY DEF Look, At, BatchFrame, callVars
  <1>2. TrueCache'
    BY <1>0, <1>1 DEF TrueCache, AfterGet, Restrict
  <1>3. ASSUME Hit(cache, k, opts, today) PROVE TruePrice(price, asked.request, newest)
    <2>1. k \in DOMAIN cache  BY <1>3 DEF Hit
    <2>2. price.cur = q.cur /\ price.date = date /\ price.rate = cache[k].value
      BY DEF Price
    <2>3. CASE request.method = "latest"
      <3>1. k = LatestKey(q.cur) /\ date = old.seen /\ old.seen \in newest
        BY <1>0, <1>1, <2>3 DEF TrueBatch
      <3>2. cache[k].value \in newest /\ Good(cache[k].value, q.cur)
        BY <1>0, <2>1, <3>1, AnswersAreTrue
      <3> HIDE DEF q, k, date, price
      <3> QED  BY <1>0, <2>2, <2>3, <3>1, <3>2 DEF TruePrice
    <2>4. CASE request.method # "latest"
      <3>1. k = AtKey(q.cur, q.day) /\ date = q.day  BY <2>4
      <3>2. cache[k].value = q.day /\ Good(q.day, q.cur)
        BY <1>0, <2>1, <3>1, AnswersAreTrue
      <3> HIDE DEF q, k, date, price
      <3> QED  BY <2>2, <3>1, <3>2 DEF TruePrice
    <2> QED  BY <2>3, <2>4
  <1>4. /\ Hit(cache, k, opts, today) => TrueBatch(hit, asked.request, newest)
        /\ TrueBatch(none, asked.request, newest)
        /\ TrueBatch(miss, asked.request, newest)
    <2> HIDE DEF q, k, date, price
    <2> QED  BY <1>0, <1>1, <1>3 DEF TrueBatch
  <1>5. TrueBatches'
    <2> HIDE DEF hit, none, miss, k
    <2> QED  BY <1>0, <1>1, <1>4, OneTrueBatch
  <1> QED  BY <1>2, <1>5

\* A feed, and the rates it leaves in the cache.
LEMMA TruthOfFetch ==
    ASSUME Inv, Truth, NEW i \in DOMAIN batch, Fetch(i)
    PROVE  TrueBatches' /\ TrueCache' /\ newest \subseteq newest'
  <1>0. TrueBatch(batch[i], asked.request, newest) /\ TrueBatches /\ TrueCache
    BY DEF Truth, TrueBatches
  <1>1. PICK days, todo :
           /\ batch' = [batch EXCEPT ![i].pc = "fill", ![i].days = days,
                                     ![i].todo = todo]
           /\ todo = Fill(days) /\ newest' = newest \cup NewestIn(days)
    BY DEF Fetch
  <1>2. asked' = asked /\ cache' = cache  BY DEF Fetch, BatchFrame, callVars
  <1> DEFINE b == [batch[i] EXCEPT !.pc = "fill", !.days = days, !.todo = todo]
  <1>3. \A p \in todo : Good(p.day, p.cur) /\ (p.latest => p.day \in newest')
    BY <1>1 DEF Fill, Stored
  <1>4. TrueBatch(batch[i], asked.request, newest')  BY <1>0, <1>1, TruthGrows
  <1>5. TrueBatch(b, asked.request, newest')  BY <1>3, <1>4 DEF TrueBatch
  <1>6. batch' = [batch EXCEPT ![i] = b]  BY <1>1
  <1> HIDE DEF b
  <1>7. TrueBatches'  BY <1>0, <1>1, <1>2, <1>5, <1>6, OneTrueBatch
  <1>8. TrueCache'  BY <1>0, <1>1, <1>2, TruthGrows DEF TrueCache
  <1> QED  BY <1>1, <1>7, <1>8

LEMMA TruthOfPut ==
    ASSUME Inv, Truth, NEW i \in DOMAIN batch, PutRate(i)
    PROVE  TrueBatches' /\ TrueCache'
  <1> DEFINE old == batch[i]
             p == FirstOf(old.todo)
             k == IF p.latest THEN LatestKey(p.cur) ELSE AtKey(p.cur, p.day)
             b == [old EXCEPT !.todo = @ \ {p}]
  <1>0. TrueBatch(old, asked.request, newest) /\ TrueBatches /\ TrueCache
    BY DEF Truth, TrueBatches
  <1>1. /\ newest' = newest /\ asked' = asked /\ old.pc = "fill" /\ old.todo # {}
        /\ cache' = Put(cache, k, p.day, seq + 1, opts, today)
        /\ batch' = [batch EXCEPT ![i] = b]
    BY DEF PutRate, At, BatchFrame, callVars
  <1>2. p \in old.todo  BY <1>1 DEF FirstOf
  <1>3. TrueEntry(k, p.day, newest)
    <2>1. Good(p.day, p.cur) /\ (p.latest => p.day \in newest)
      BY <1>0, <1>1, <1>2 DEF TrueBatch
    <2> HIDE DEF p
    <2> QED  BY <2>1 DEF TrueEntry
  <1>4. TrueBatch(b, asked.request, newest)
    <2> HIDE DEF p
    <2> QED  BY <1>0, <1>1 DEF TrueBatch
  <1>5. TrueBatches'
    <2> HIDE DEF b
    <2> QED  BY <1>0, <1>1, <1>4, OneTrueBatch
  <1>6. TrueCache'
    <2> HIDE DEF p, k
    <2>1. CacheInv(cache, opts, seq)  BY DEF Inv
    <2>2. /\ DOMAIN EvictIfFull(cache, opts.max) \subseteq DOMAIN cache
          /\ \A j \in DOMAIN EvictIfFull(cache, opts.max) :
                EvictIfFull(cache, opts.max)[j] = cache[j]
      BY <2>1, EvictionMakesRoom
    <2>3. \A j \in DOMAIN cache' :
             \/ j = k /\ cache'[j].value = p.day
             \/ j \in DOMAIN cache /\ cache'[j].value = cache[j].value
      BY <1>1, <2>2 DEF Put, Entry
    <2> QED  BY <1>0, <1>1, <1>3, <2>3 DEF TrueCache
  <1> QED  BY <1>5, <1>6

\* The end of a call of the source: what a feed yields is true.
LEMMA TruthOfEnd ==
    ASSUME Inv, Truth, NEW i \in DOMAIN batch,
           AllFound(i) \/ FailFetch(i) \/ Stamp(i)
    PROVE  TrueBatches'
  <1>0. TrueBatch(batch[i], asked.request, newest) /\ TrueBatches
    BY DEF Truth, TrueBatches
  <1>1. \A p \in Picked(batch[i]) : p.rate = p.date /\ Good(p.date, p.cur)
    BY DEF Picked, Price
  <1>2. newest' = newest /\ asked' = asked
    BY DEF AllFound, FailFetch, Stamp, End, BatchFrame, callVars, cacheVars
  <1>3. PICK gained, error :
           End(i, gained, error) /\ gained \subseteq batch[i].got \cup Picked(batch[i])
    BY DEF AllFound, FailFetch, Stamp
  <1>4. \A p \in gained : TruePrice(p, asked.request, newest)
    BY <1>0, <1>1, <1>3 DEF TrueBatch, TruePrice
  <1> DEFINE again == error = "transient" /\ batch[i].tries < MaxAttempts
             pc == IF again THEN "backoff" ELSE "end"
             fault == IF again THEN None ELSE error
             b == [batch[i] EXCEPT !.pc = pc, !.got = gained, !.error = fault]
  <1>5. batch' = [batch EXCEPT ![i] = b]  BY <1>3 DEF End
  <1>6. pc \notin {"look", "fill"}  OBVIOUS
  <1>7. TrueBatch(b, asked.request, newest)
    <2> HIDE DEF pc, fault
    <2> QED  BY <1>0, <1>4, <1>6 DEF TrueBatch
  <1> HIDE DEF b
  <1> QED  BY <1>0, <1>2, <1>5, <1>7, OneTrueBatch

\* A batch that begins has found nothing.
LEMMA TruthOfBegin ==
    ASSUME NEW r, NEW from, Begin(r, from) PROVE TrueBatches'
  <1>1. ASSUME NEW qs, NEW a, NEW n PROVE TrueBatch(Fresh(qs), a, n)
    <2>1. /\ {"pc", "seen", "todo", "got", "days"} \subseteq DOMAIN Fresh(qs)
          /\ Fresh(qs).pc = "token" /\ Fresh(qs).got = {} /\ Fresh(qs).seen = 0
      BY DEF Fresh
    <2> QED  BY <2>1 DEF TrueBatch
  <1> QED  BY <1>1 DEF Begin, TrueBatches

\* What has been collected is true, and stays with the call it was asked by.
LEMMA TruthOfCaller ==
    ASSUME Inv, Truth, Caller \/ \E r \in Requests : Call(r) PROVE Truth'
  <1>1. cache' = cache /\ newest' = newest
    BY DEF Caller, NextBucket, Return, Call, cacheVars
  <1>2. TrueCache'  BY <1>1 DEF Truth, TrueCache
  <1>3. CASE \E r \in Requests : Call(r)
    <2>1. PICK r \in Requests : Call(r)  BY <1>3
    <2>2. /\ Begin(r, r.from) /\ request' = r /\ asked'.request = r /\ prices' = {}
      BY <2>1 DEF Call
    <2>3. TrueBatches'  BY <2>2, TruthOfBegin
    <2> QED  BY <1>2, <2>2, <2>3 DEF Truth
  <1>4. CASE Caller
    <2>1. Merge /\ asked' = asked  BY <1>4 DEF Caller, NextBucket, Return
    <2>2. \A p \in prices' : TruePrice(p, asked.request, newest)
      BY <2>1 DEF Merge, Truth, TrueBatches, TrueBatch
    <2>3. TrueBatches'
      <3>1. CASE NextBucket
        BY <3>1, TruthOfBegin DEF NextBucket
      <3>2. CASE Return
        <4>1. DOMAIN batch' = {}  BY <3>2 DEF Return
        <4> QED  BY <4>1 DEF TrueBatches
      <3> QED  BY <1>4, <3>1, <3>2 DEF Caller
    <2>4. request' # None => asked'.request = request'
      BY <1>4, <2>1 DEF Caller, NextBucket, Return, Truth
    <2> QED  BY <1>1, <1>2, <2>1, <2>2, <2>3, <2>4 DEF Truth
  <1> QED  BY <1>3, <1>4

LEMMA TruthStep == Inv /\ Truth /\ [Next]_vars => Truth'
  <1> SUFFICES ASSUME Inv, Truth, [Next]_vars PROVE Truth'  OBVIOUS
  <1>1. CASE Caller \/ \E r \in Requests : Call(r)  BY <1>1, TruthOfCaller
  <1>2. CASE CancelCtx \/ Tick \/ Refill \/ UNCHANGED vars
    <2>1. UNCHANGED <<cache, newest, batch, request, asked, prices>>
      BY <1>2 DEF CancelCtx, Tick, Refill, vars, cacheVars, callVars
    <2> QED  BY <2>1 DEF Truth, TrueCache, TrueBatches
  <1>3. ASSUME NEW i \in DOMAIN batch, Goroutine(i) PROVE Truth'
    <2>1. UNCHANGED callVars
      BY <1>3 DEF Goroutine, Source, TakeToken, Attempt, GiveUp, Backoff, TakeSlot,
                  ReadDate, Look, AllFound, Fetch, FailFetch, PutRate, Stamp, End, BatchFrame
    <2>2. TrueBatches' /\ TrueCache' /\ newest \subseteq newest'
      <3>1. CASE TakeToken(i) \/ Attempt(i) \/ GiveUp(i) \/ Backoff(i) \/ TakeSlot(i)
                   \/ ReadDate(i)
        BY <3>1, TruthOutside DEF cacheVars, Truth, TrueCache
      <3>2. CASE Look(i)  BY <3>2, TruthOfLook DEF Look
      <3>3. CASE Fetch(i)  BY <3>3, TruthOfFetch
      <3>4. CASE PutRate(i)  BY <3>4, TruthOfPut DEF PutRate
      <3>5. CASE AllFound(i) \/ FailFetch(i) \/ Stamp(i)
        <4>1. cache' = cache /\ newest' = newest
          BY <3>5 DEF AllFound, FailFetch, Stamp, cacheVars
        <4> QED  BY <3>5, <4>1, TruthOfEnd DEF Truth, TrueCache
      <3> QED  BY <1>3, <3>1, <3>2, <3>3, <3>4, <3>5 DEF Goroutine, Source
    <2>3. \A p \in prices : TruePrice(p, asked.request, newest')
      BY <2>2, TruthGrows DEF Truth
    <2> QED  BY <2>1, <2>2, <2>3 DEF Truth, callVars
  <1> QED  BY <1>1, <1>2, <1>3 DEF Next

\* Two days are more than one.
LEMMA TwoDays ==
    ASSUME NEW S, IsFiniteSet(S), NEW a \in S, NEW b \in S, a # b
    PROVE  Cardinality(S) > 1
  <1>1. IsFiniteSet({a}) /\ Cardinality({a}) = 1  BY FS_Singleton
  <1>2. Cardinality({a} \cup {b}) = 2  BY <1>1, FS_AddElement
  <1>3. Cardinality({a} \cup {b}) <= Cardinality(S)  BY FS_Subset
  <1>4. Cardinality(S) \in Nat  BY FS_CardinalityType
  <1> QED  BY <1>2, <1>3, <1>4

\* A price carries the rate of its own date, or a latest price found in the cache
\* the rate of one feed's newest day and the date of another's: whatever feeds
\* the bank publishes, and whatever the cache has evicted or let expire.
THEOREM Prices == Spec => []PricesAreTrue
  <1>1. Init => Truth
    BY DEF Init, Truth, TrueCache, TrueBatches
  <1>2. Init => Inv  BY InitInv
  <1>3. Inv /\ [Next]_vars => Inv'  BY BatchStep, CacheStep DEF Inv
  <1>4. Inv /\ Truth => PricesAreTrue
    <2> SUFFICES ASSUME Inv, Truth, NEW p \in Results
                 PROVE  \/ p.rate = p.date /\ Good(p.date, p.cur)
                        \/ /\ asked.request.method = "latest" /\ Cardinality(newest) > 1
                           /\ {p.rate, p.date} \subseteq newest /\ Good(p.rate, p.cur)
      BY DEF PricesAreTrue
    <2>1. TruePrice(p, asked.request, newest)
      BY DEF Results, Truth, TrueBatches, TrueBatch
    <2>2. IsFiniteSet(newest)  BY RatesAssumption, FS_Subset DEF Inv
    <2> QED  BY <2>1, <2>2, TwoDays DEF TruePrice
  <1> QED  BY <1>1, <1>2, <1>3, <1>4, TruthStep, PTL DEF Spec
-----------------------------------------------------------------------------
(***************************************************************************)
(* Completeness.  A batch owes a price for each currency it was asked for: *)
(* on each day of the bucket whose rate was published when the call began, *)
(* or, for a latest call, on some day.  a is the last call, from and to    *)
(* bound the bucket, S holds the prices.                                   *)
(***************************************************************************)
Paid(a, c, from, to, S) ==
    IF a.request.method = "latest"
    THEN (\E d \in Days : d < a.day) /\ (\A d \in Days : Good(d, c)) =>
             \E p \in S : p.cur = c
    ELSE \A d \in Days : from <= d /\ d < to /\ d < a.day /\ Good(d, c) =>
             Price(c, d, d) \in S

\* The days that are looked up for a currency, and what a lookup has to find.
LookedUp(a, from, to) == IF a.request.method = "range" THEN from..(to - 1) ELSE {from}
Found(a, c, d, S) ==
    IF a.request.method = "latest" THEN \E p \in S : p.cur = c ELSE Price(c, d, d) \in S

\* A feed in hand reaches every day that may be owed.
Reaches(days, a, from) ==
    IF a.request.method = "latest"
    THEN (\E d \in Days : d < a.day) => \E d \in Days : d \in days
    ELSE \A d \in Days : from <= d /\ d < a.day => d \in days

\* While the source looks, a currency is missing, or each lookup has been
\* answered or is still to be made.  Then only what is missing is open, and in the
\* end nothing is, unless the batch has failed.
Owes(b, a, from, to) ==
    /\ {"pc", "tries", "queries", "seen", "todo", "missing", "days", "got", "error"}
          \subseteq DOMAIN b
    /\ b.pc \in {"look", "fill"} =>
          \A c \in Wanted(b) :
              \/ c \in b.missing
              \/ \A d \in LookedUp(a, from, to) :
                    \/ Found(a, c, d, b.got)
                    \/ b.pc = "look" /\ [cur |-> c, day |-> d] \in b.todo
    /\ b.pc = "fill" => Reaches(b.days, a, from)
    /\ b.pc = "end" => \/ b.error # None
                       \/ \A c \in Wanted(b) : Paid(a, c, from, to, b.got)

\* A query has its prices in ps, or is in es with an error.
Settled(a, q, from, to, ps, es) == q.eur => q \in es \/ Paid(a, q.cur, from, to, ps)

Owing ==
    /\ request \in Requests /\ asked.request = request /\ lo \in Nat
    /\ request.method = "at" => lo = request.from
    /\ \A q \in Range(request.queries) : \E i \in DOMAIN batch : q \in batch[i].queries
    /\ \A i \in DOMAIN batch : Owes(batch[i], asked, lo, BucketEnd(request))
    /\ request.method # "latest" =>
          \A q \in Range(request.queries) :
              Settled(asked, q, request.from, lo, prices, errors)
Answered ==
    calls > 0 /\ live =>
        \A q \in Range(asked.request.queries) :
            Settled(asked, q, asked.request.from, asked.request.to, prices, errors)
Completing ==
    /\ today \in Nat /\ asked.day \in Nat /\ asked.day <= today /\ calls \in Nat
    /\ IF request = None THEN Answered ELSE Owing

\* chunkRanges: every index below the length is in a chunk.
LEMMA ChunksCover ==
    ASSUME NEW n \in Nat, NEW p \in Nat, p < n
    PROVE  \E i \in DOMAIN ChunkRanges(n) : p \in ChunkRanges(n)[i]
  <1> DEFINE i == p \div BatchSize
             m == (n + BatchSize - 1) \div BatchSize
  <1>0. BatchSize \in Nat \ {0}  BY LimitsAssumption
  <1>1. /\ i \in Int /\ p = BatchSize * i + (p % BatchSize)
        /\ p % BatchSize \in 0..BatchSize - 1
    BY <1>0
  <1>2. i >= 0  BY <1>0
  <1>3. i * BatchSize <= p /\ p < (i + 1) * BatchSize  BY <1>0, <1>1
  <1>4. m \in Int /\ n + BatchSize - 1 < BatchSize * (m + 1)  BY <1>0
  <1>5. i + 1 <= m  BY <1>0, <1>1, <1>2, <1>4
  <1>6. i \in DOMAIN ChunkRanges(n)
    <2> HIDE DEF i
    <2> QED  BY <1>1, <1>2, <1>4, <1>5 DEF ChunkRanges
  <1>7. ChunkRanges(n)[i] = i * BatchSize..(IF (i + 1) * BatchSize > n THEN n
                                            ELSE (i + 1) * BatchSize) - 1
    <2> HIDE DEF i
    <2> QED  BY <1>6 DEF ChunkRanges
  <1>8. i * BatchSize \in Int /\ (i + 1) * BatchSize \in Int  BY <1>0, <1>1
  <1>9. p \in ChunkRanges(n)[i]
    <2> HIDE DEF i
    <2> QED  BY <1>3, <1>7, <1>8
  <1> QED  BY <1>6, <1>9

\* GroupByQuoteCurrency and SplitBatch forget no query.
LEMMA BatchesCover ==
    ASSUME NEW r \in Request, NEW q \in Range(r.queries)
    PROVE  \E x \in Batches(r.queries) : q \in Chunk(r.queries, x)
  <1> DEFINE qs == r.queries
             S == Partition(qs, q.cur)
             n == Cardinality(S)
  <1>1. qs \in Seq(Query)  BY DEF Request
  <1>2. PICK k \in DOMAIN qs : q = qs[k]  BY DEF Range
  <1>3. /\ DOMAIN qs = 1..Len(qs) /\ Len(qs) \in Nat /\ q \in Query
    BY <1>1, <1>2
  <1>4. IsFiniteSet(S) /\ S \subseteq 1..Len(qs)
    <2>1. IsFiniteSet(1..Len(qs))  BY <1>3, FS_Interval
    <2> QED  BY <1>3, <2>1, FS_Subset DEF Partition
  <1>5. k \in S /\ q.cur \in Currencies  BY <1>2, <1>3 DEF Partition, Query
  <1> DEFINE B == {j \in S : j < k}
  <1>6. B \subseteq S \ {k}  BY <1>3, <1>4
  <1>7. /\ IsFiniteSet(S \ {k}) /\ Cardinality(S \ {k}) = n - 1 /\ n \in Nat
    <2> HIDE DEF S
    <2> QED  BY <1>4, <1>5, FS_RemoveElement, FS_CardinalityType
  <1>8. Cardinality(B) \in Nat /\ Cardinality(B) < n
    <2> HIDE DEF B, n, S
    <2>1. IsFiniteSet(B) /\ Cardinality(B) <= Cardinality(S \ {k})
      BY <1>6, <1>7, FS_Subset
    <2> QED  BY <1>7, <2>1, FS_CardinalityType
  <1>9. Place(S, k) = Cardinality(B)  BY DEF Place
  <1>10. PICK i \in DOMAIN ChunkRanges(n) : Place(S, k) \in ChunkRanges(n)[i]
    <2> HIDE DEF B, n, S
    <2> QED  BY <1>7, <1>8, <1>9, ChunksCover
  <1> DEFINE x == <<q.cur, i>>
  <1>11. x \in Batches(qs)  BY <1>5, <1>10 DEF Batches
  <1>12. x[1] = q.cur /\ x[2] = i  OBVIOUS
  <1> HIDE DEF x
  <1>13. q \in Chunk(qs, x)
    <2> HIDE DEF n, S
    <2>1. Place(S, k) \in ChunkRanges(Cardinality(S))[x[2]]  BY <1>10, <1>12 DEF n
    <2> QED  BY <1>2, <1>5, <1>12, <2>1 DEF Chunk, S
  <1> QED  BY <1>11, <1>13

\* Of the days up to a given one, some is the newest.
LEMMA NewestExists ==
    ASSUME NEW last \in Int, NEW e \in Days, e <= last
    PROVE  \E d \in Days : d \in NewestIn({x \in Days : x <= last})
  <1> DEFINE S == {x \in Days : x <= last}
             T == {last - x : x \in S}
  <1>1. \A x \in S : x \in Nat /\ x <= last  BY RatesAssumption
  <1>2. T \subseteq Nat /\ T # {}  BY <1>1
  <1>3. PICK t \in T : \A y \in T : ~ (<<y, t>> \in OpToRel(<, Nat))
    <2> HIDE DEF T
    <2> QED  BY <1>2, NatLessThanWellFounded, WFMin, Zenon
  <1>4. \A y \in T : ~ (y < t)
    BY <1>2, <1>3, Zenon DEF OpToRel
  <1>5. PICK d \in S : t = last - d  OBVIOUS
  <1>6. ASSUME NEW x \in S PROVE x <= d
    <2>1. ~ (last - x < t)  BY <1>4
    <2> HIDE DEF S, T
    <2>2. x \in Nat /\ d \in Nat  BY <1>1
    <2> QED  BY <1>5, <2>1, <2>2
  <1> QED  BY <1>5, <1>6 DEF NewestIn

\* Whichever feed is chosen, and if today's is late, it has the days owed.
LEMMA FeedsReach ==
    ASSUME today \in Nat, asked.day \in Nat, asked.day <= today, lo \in Nat,
           asked.request = request, NEW last \in {today - 1, today}
    PROVE  Reaches(Content(FeedFor, last), asked, lo)
  <1>0. Window \in Nat \ {0} /\ last \in Int  BY LimitsAssumption
  <1>1. \A d \in Days : d \in Nat /\ (d < asked.day => d <= last)
    BY <1>0, RatesAssumption
  <1>2. CASE request.method = "latest"
    <2>1. Content(FeedFor, last) = NewestIn({d \in Days : d <= last})
      BY <1>2 DEF Content, FeedFor
    <2>2. ASSUME NEW e \in Days, e < asked.day
          PROVE  \E d \in Days : d \in NewestIn({x \in Days : x <= last})
      BY <1>0, <1>1, <2>2, NewestExists
    <2> QED  BY <1>2, <2>1, <2>2 DEF Reaches
  <1>3. CASE request.method # "latest"
    <2>1. CASE lo + Window <= today
      <3>1. Content(FeedFor, last) = {d \in Days : d <= last}
        BY <1>3, <2>1 DEF Content, FeedFor
      <3> QED  BY <1>1, <1>3, <3>1 DEF Reaches
    <2>2. CASE ~ (lo + Window <= today)
      <3>1. Content(FeedFor, last) =
               {d \in {e \in Days : e <= last} : d + Window > last}
        BY <1>3, <2>2 DEF Content, FeedFor
      <3>2. \A d \in Days : lo <= d => d + Window > last
        BY <1>0, <1>1, <2>2
      <3> QED  BY <1>1, <1>3, <3>1, <3>2 DEF Reaches
    <2> QED  BY <2>1, <2>2
  <1> QED  BY <1>2, <1>3

\* What a batch has found pays: the days looked up are those owed.
LEMMA FindsPay ==
    ASSUME NEW a, NEW c, NEW from \in Nat, NEW to \in Nat, NEW S,
           a.request.method \in {"latest", "at", "range", "iter"},
           a.request.method \in {"at", "iter"} => to = from + 1,
           \A d \in LookedUp(a, from, to) : Found(a, c, d, S),
           a.request.method = "latest" => from \in LookedUp(a, from, to)
    PROVE  Paid(a, c, from, to, S)
  <1>1. CASE a.request.method = "latest"  BY <1>1 DEF Paid, Found
  <1>2. CASE a.request.method = "range"
    <2>1. ASSUME NEW d \in Days, from <= d, d < to PROVE d \in LookedUp(a, from, to)
      BY <1>2, <2>1, RatesAssumption DEF LookedUp
    <2> QED  BY <1>2, <2>1 DEF Paid, Found
  <1>3. CASE a.request.method \in {"at", "iter"}
    <2>1. ASSUME NEW d \in Days, from <= d, d < to PROVE d \in LookedUp(a, from, to)
      BY <1>3, <2>1, RatesAssumption DEF LookedUp
    <2> QED  BY <1>3, <2>1 DEF Paid, Found
  <1> QED  BY <1>1, <1>2, <1>3

\* What is picked from a feed pays for what was missing.
LEMMA PicksPay ==
    ASSUME NEW b, NEW c \in b.missing, NEW S, Picked(b) \subseteq S,
           asked.request = request, lo \in Nat, BucketEnd(request) \in Nat,
           request.method \in {"latest", "at", "range", "iter"},
           request.method \in {"at", "iter"} => BucketEnd(request) = lo + 1,
           Reaches(b.days, asked, lo)
    PROVE  Paid(asked, c, lo, BucketEnd(request), S)
  <1> DEFINE days == CASE request.method = "latest" -> b.days
                       [] request.method = "range" ->
                             {d \in b.days : lo <= d /\ d < BucketEnd(request)}
                       [] OTHER -> {d \in b.days : d = lo}
  <1>1. ASSUME NEW d \in days, Good(d, c) PROVE Price(c, d, d) \in S
    <2>1. <<c, d>> \in {y \in b.missing \X days : Good(y[2], y[1])}
      BY <1>1
    <2>2. Price(c, d, d) \in Picked(b)
      <3>1. Picked(b) = {Price(x[1], x[2], x[2]) :
                            x \in {y \in b.missing \X days : Good(y[2], y[1])}}
        BY DEF Picked
      <3> HIDE DEF days
      <3> QED  BY <2>1, <3>1
    <2> QED  BY <2>2
  <1>2. CASE request.method = "latest"
    <2>1. days = b.days  BY <1>2
    <2>2. \A d : Price(c, d, d).cur = c  BY DEF Price
    <2> HIDE DEF days
    <2> QED  BY <1>1, <1>2, <2>1, <2>2 DEF Reaches, Paid
  <1>3. CASE request.method # "latest"
    <2>1. ASSUME NEW d \in Days, lo <= d, d < BucketEnd(request), d < asked.day
          PROVE  d \in days
      <3>1. d \in b.days  BY <1>3, <2>1 DEF Reaches
      <3>2. request.method # "range" => d = lo
        BY <1>3, <2>1, RatesAssumption
      <3> QED  BY <1>3, <2>1, <3>1, <3>2
    <2> HIDE DEF days
    <2> QED  BY <1>1, <1>3, <2>1 DEF Paid
  <1> QED  BY <1>2, <1>3

\* The bucket of the call in progress.
LEMMA Bucket ==
    ASSUME request \in Requests, lo \in Nat, request.method = "at" => lo = request.from
    PROVE  /\ request \in Request /\ request.from \in Nat /\ request.to \in Nat
           /\ request.method \in {"latest", "at", "range", "iter"}
           /\ BucketEnd(request) \in Nat
           /\ request.method \in {"at", "iter"} => BucketEnd(request) = lo + 1
  <1>1. /\ request \in Request /\ PerCall \in Nat
        /\ request.method = "at" => request.to = request.from + 1
    BY LimitsAssumption
  <1>2. /\ request.from \in Nat /\ request.to \in Nat
        /\ request.method \in {"latest", "at", "range", "iter"}
    BY <1>1 DEF Request
  <1> QED  BY <1>1, <1>2 DEF BucketEnd

\* A batch of the call in progress, before a step of it.
OwingStep(i) ==
    \E b : /\ batch' = [batch EXCEPT ![i] = b] /\ b.queries = batch[i].queries
           /\ Owes(b, asked, lo, BucketEnd(request))

\* A goroutine outside the source owes nothing yet, or ends with an error.
LEMMA OwesOutside ==
    ASSUME Owing, NEW i \in DOMAIN batch,
           TakeToken(i) \/ Attempt(i) \/ GiveUp(i) \/ Backoff(i) \/ TakeSlot(i)
    PROVE  OwingStep(i)
  <1> DEFINE tried == [batch[i] EXCEPT !.pc = "try"]
             slot == [batch[i] EXCEPT !.pc = "slot", !.tries = @ + 1]
             over == [batch[i] EXCEPT !.pc = "end", !.error = "canceled"]
             date == [batch[i] EXCEPT !.pc = "date", !.got = {}, !.missing = {}]
  <1>1. \E b \in {tried, slot, over, date} : batch' = [batch EXCEPT ![i] = b]
    BY DEF TakeToken, Attempt, GiveUp, Backoff, TakeSlot, Goes
  <1>2. {"pc", "tries", "queries", "seen", "todo", "missing", "days", "got", "error"}
           \subseteq DOMAIN batch[i]
    BY DEF Owing, Owes
  <1>3. None # "canceled"  BY LimitsAssumption
  <1>4. \A b \in {tried, slot, over, date} :
           /\ b.queries = batch[i].queries
           /\ {"pc", "tries", "queries", "seen", "todo", "missing", "days", "got", "error"}
                 \subseteq DOMAIN b
           /\ b.pc \notin {"look", "fill"} /\ (b.pc = "end" => b.error # None)
    <2>1. /\ tried.queries = batch[i].queries /\ tried.pc = "try"
          /\ {"pc", "tries", "queries", "seen", "todo", "missing", "days", "got", "error"}
                \subseteq DOMAIN tried
      BY <1>2
    <2>2. /\ slot.queries = batch[i].queries /\ slot.pc = "slot"
          /\ {"pc", "tries", "queries", "seen", "todo", "missing", "days", "got", "error"}
                \subseteq DOMAIN slot
      BY <1>2
    <2>3. /\ over.queries = batch[i].queries /\ over.pc = "end" /\ over.error = "canceled"
          /\ {"pc", "tries", "queries", "seen", "todo", "missing", "days", "got", "error"}
                \subseteq DOMAIN over
      BY <1>2
    <2>4. /\ date.queries = batch[i].queries /\ date.pc = "date"
          /\ {"pc", "tries", "queries", "seen", "todo", "missing", "days", "got", "error"}
                \subseteq DOMAIN date
      BY <1>2
    <2> HIDE DEF tried, slot, over, date
    <2> QED  BY <1>3, <2>1, <2>2, <2>3, <2>4
  <1> HIDE DEF tried, slot, over, date
  <1>5. \A b \in {tried, slot, over, date} : Owes(b, asked, lo, BucketEnd(request))
    BY <1>4 DEF Owes
  <1> QED  BY <1>1, <1>4, <1>5 DEF OwingStep

\* What is looked up is what the batch asks for.
LEMMA LookupsAre ==
    ASSUME asked.request = request, NEW b, NEW c \in Wanted(b),
           NEW d \in LookedUp(asked, lo, BucketEnd(request))
    PROVE  [cur |-> c, day |-> d] \in Lookups(b)
  BY DEF LookedUp, Lookups

LEMMA OwesAtDate ==
    ASSUME Owing, NEW i \in DOMAIN batch, ReadDate(i) PROVE OwingStep(i)
  <1> DEFINE old == batch[i]
             blank == request.method = "latest" /\ latestDate = 0
             todo == IF blank THEN {} ELSE Lookups(old)
             missing == IF blank THEN Wanted(old) ELSE {}
             b == [old EXCEPT !.pc = "look", !.seen = latestDate, !.todo = todo,
                              !.missing = missing]
  <1>1. batch' = [batch EXCEPT ![i] = b]  BY DEF ReadDate
  <1>2. {"pc", "tries", "queries", "seen", "todo", "missing", "days", "got", "error"}
           \subseteq DOMAIN old
    BY DEF Owing, Owes
  <1>3. ASSUME NEW c \in Wanted(old)
        PROVE  \/ c \in missing
               \/ \A d \in LookedUp(asked, lo, BucketEnd(request)) :
                     [cur |-> c, day |-> d] \in todo
    BY LookupsAre DEF Owing
  <1> HIDE DEF todo, missing
  <1>4. /\ b.pc = "look" /\ b.queries = old.queries /\ b.todo = todo
        /\ b.missing = missing /\ b.got = old.got
        /\ {"pc", "tries", "queries", "seen", "todo", "missing", "days", "got", "error"}
              \subseteq DOMAIN b
    BY <1>2
  <1> HIDE DEF b, old
  <1>5. Wanted(b) = Wanted(old)  BY <1>4 DEF Wanted
  <1>6. Owes(b, asked, lo, BucketEnd(request))  BY <1>3, <1>4, <1>5 DEF Owes
  <1> QED  BY <1>1, <1>4, <1>6 DEF OwingStep, old

\* A Get that hits answers its lookup; one that misses leaves the currency, or
\* all of them, to a feed.
LEMMA OwesAtLook ==
    ASSUME Inv, Truth, Owing, NEW i \in DOMAIN batch, Look(i) PROVE OwingStep(i)
  <1> DEFINE old == batch[i]
             q == CHOOSE p \in old.todo : TRUE
             k == IF request.method = "latest" THEN LatestKey(q.cur)
                  ELSE AtKey(q.cur, q.day)
             date == IF request.method = "latest" THEN old.seen ELSE q.day
             price == Price(q.cur, date, cache[k].value)
             hit == [old EXCEPT !.todo = @ \ {q}, !.got = @ \cup {price}]
             none == [old EXCEPT !.todo = {}, !.got = {}, !.missing = Wanted(old)]
             miss == [old EXCEPT !.todo = @ \ {q}, !.missing = @ \cup {q.cur}]
             D == LookedUp(asked, lo, BucketEnd(request))
  <1>1. /\ old.pc = "look"
        /\ \/ Hit(cache, k, opts, today) /\ batch' = [batch EXCEPT ![i] = hit]
           \/ batch' = [batch EXCEPT ![i] = none]
           \/ batch' = [batch EXCEPT ![i] = miss]
    BY DEF Look, At
  <1>2. /\ {"pc", "tries", "queries", "seen", "todo", "missing", "days", "got", "error"}
              \subseteq DOMAIN old
        /\ \A c \in Wanted(old) :
              \/ c \in old.missing
              \/ \A d \in D : \/ Found(asked, c, d, old.got)
                              \/ [cur |-> c, day |-> d] \in old.todo
    BY <1>1 DEF Owing, Owes
  <1>3. ASSUME Hit(cache, k, opts, today) PROVE Found(asked, q.cur, q.day, {price})
    <2>1. k \in DOMAIN cache  BY <1>3 DEF Hit
    <2>2. asked.request = request /\ TrueCache  BY DEF Owing, Truth
    <2>3. CASE request.method = "latest"
      BY <2>2, <2>3 DEF Found, Price
    <2>4. CASE request.method # "latest"
      <3>1. k = AtKey(q.cur, q.day) /\ date = q.day  BY <2>4
      <3>2. cache[k].value = q.day  BY <2>1, <2>2, <3>1, AnswersAreTrue
      <3> HIDE DEF q, k, date
      <3> QED  BY <2>2, <2>4, <3>1, <3>2 DEF Found
    <2> QED  BY <2>3, <2>4
  <1>4. ASSUME NEW c, NEW d, Found(asked, c, d, old.got) \/ Found(asked, c, d, {price})
        PROVE  Found(asked, c, d, old.got \cup {price})
    <2> HIDE DEF old, price
    <2> QED  BY <1>4 DEF Found
  <1>5. ASSUME NEW c, NEW d, [cur |-> c, day |-> d] = q PROVE c = q.cur /\ d = q.day
    <2>1. [cur |-> c, day |-> d].cur = c /\ [cur |-> c, day |-> d].day = d  OBVIOUS
    <2> HIDE DEF q
    <2> QED  BY <1>5, <2>1
  <1> HIDE DEF q, k, date, price, D
  <1>6. /\ \A b \in {hit, none, miss} :
              /\ b.pc = "look" /\ b.queries = old.queries
              /\ {"pc", "tries", "queries", "seen", "todo", "missing", "days", "got",
                  "error"} \subseteq DOMAIN b
        /\ hit.todo = old.todo \ {q} /\ hit.got = old.got \cup {price}
        /\ hit.missing = old.missing
        /\ none.missing = Wanted(old)
        /\ miss.todo = old.todo \ {q} /\ miss.got = old.got
        /\ miss.missing = old.missing \cup {q.cur}
    BY <1>1, <1>2
  <1> HIDE DEF hit, none, miss, old
  <1>7. \A b \in {hit, none, miss} : Wanted(b) = Wanted(old)  BY <1>6 DEF Wanted
  <1>8. ASSUME Hit(cache, k, opts, today) PROVE Owes(hit, asked, lo, BucketEnd(request))
    <2>1. ASSUME NEW c \in Wanted(old), c \notin old.missing, NEW d \in D
          PROVE  \/ Found(asked, c, d, hit.got)
                 \/ [cur |-> c, day |-> d] \in hit.todo
      <3>1. CASE Found(asked, c, d, old.got)  BY <1>4, <1>6, <3>1
      <3>2. CASE [cur |-> c, day |-> d] = q
        BY <1>3, <1>4, <1>5, <1>6, <1>8, <3>2
      <3>3. CASE [cur |-> c, day |-> d] \in old.todo \ {q}  BY <1>6, <3>3
      <3> QED  BY <1>2, <2>1, <3>1, <3>2, <3>3
    <2> QED  BY <1>6, <1>7, <2>1 DEF Owes, D
  <1>9. Owes(none, asked, lo, BucketEnd(request))  BY <1>6, <1>7 DEF Owes
  <1>10. Owes(miss, asked, lo, BucketEnd(request))
    <2>1. ASSUME NEW c \in Wanted(old), c \notin miss.missing, NEW d \in D
          PROVE  \/ Found(asked, c, d, miss.got)
                 \/ [cur |-> c, day |-> d] \in miss.todo
      <3>1. [cur |-> c, day |-> d] # q  BY <1>5, <1>6, <2>1
      <3> QED  BY <1>2, <1>6, <2>1, <3>1
    <2> QED  BY <1>6, <1>7, <2>1 DEF Owes, D
  <1> QED  BY <1>1, <1>6, <1>8, <1>9, <1>10 DEF OwingStep, old

\* The end of a call of the source: with an error or with a price for whatever the
\* batch wants.
LEMMA OwesAtEnd ==
    ASSUME Owing, NEW i \in DOMAIN batch, NEW gained, NEW error, End(i, gained, error),
           \/ error \in {"transient", "permanent"}
           \/ \A c \in Wanted(batch[i]) : Paid(asked, c, lo, BucketEnd(request), gained)
    PROVE  OwingStep(i)
  <1> DEFINE old == batch[i]
             again == error = "transient" /\ old.tries < MaxAttempts
             pc == IF again THEN "backoff" ELSE "end"
             fault == IF again THEN None ELSE error
             b == [old EXCEPT !.pc = pc, !.got = gained, !.error = fault]
  <1>1. batch' = [batch EXCEPT ![i] = b]  BY DEF End
  <1>2. {"pc", "tries", "queries", "seen", "todo", "missing", "days", "got", "error"}
           \subseteq DOMAIN old
    BY DEF Owing, Owes
  <1>3. /\ pc \notin {"look", "fill"}
        /\ pc = "end" /\ error \in {"transient", "permanent"} => fault # None
    BY LimitsAssumption
  <1> HIDE DEF pc, fault
  <1>4. /\ b.pc = pc /\ b.error = fault /\ b.got = gained /\ b.queries = old.queries
        /\ {"pc", "tries", "queries", "seen", "todo", "missing", "days", "got", "error"}
              \subseteq DOMAIN b
    BY <1>2
  <1> HIDE DEF b, old
  <1>5. Wanted(b) = Wanted(old)  BY <1>4 DEF Wanted
  <1>6. Owes(b, asked, lo, BucketEnd(request))
    <2>1. CASE error \in {"transient", "permanent"}
      BY <1>3, <1>4, <2>1 DEF Owes
    <2>2. CASE \A c \in Wanted(old) : Paid(asked, c, lo, BucketEnd(request), gained)
      BY <1>3, <1>4, <1>5, <2>2 DEF Owes
    <2> QED  BY <2>1, <2>2 DEF old
  <1> QED  BY <1>1, <1>4, <1>6 DEF OwingStep, old

\* What has been found or picked is what is owed.
LEMMA SettlesAtEnd ==
    ASSUME Owing, NEW i \in DOMAIN batch, AllFound(i) \/ FailFetch(i) \/ Stamp(i)
    PROVE  OwingStep(i)
  <1> DEFINE old == batch[i]
             to == BucketEnd(request)
             D == LookedUp(asked, lo, to)
  <1>1. /\ request \in Requests /\ asked.request = request /\ lo \in Nat
        /\ to \in Nat /\ request.method \in {"latest", "at", "range", "iter"}
        /\ request.method \in {"at", "iter"} => to = lo + 1
    BY Bucket DEF Owing
  <1>2. request.method = "latest" => lo \in D  BY <1>1 DEF LookedUp
  <1>3. Owes(old, asked, lo, to)  BY DEF Owing
  <1>4. ASSUME NEW c, NEW S, \A d \in D : Found(asked, c, d, S)
        PROVE  Paid(asked, c, lo, to, S)
    <2> HIDE DEF to
    <2> QED  BY <1>1, <1>2, <1>4, FindsPay
  <1>5. CASE AllFound(i)
    <2>1. /\ old.pc = "look" /\ old.todo = {} /\ old.missing = {}
          /\ End(i, old.got, None)
      BY <1>5 DEF AllFound, At
    <2>2. ASSUME NEW c \in Wanted(old) PROVE Paid(asked, c, lo, to, old.got)
      <3> HIDE DEF to
      <3>1. \A d \in D : Found(asked, c, d, old.got)
        BY <1>3, <2>1 DEF Owes
      <3> QED  BY <1>4, <3>1
    <2> QED  BY <2>1, <2>2, OwesAtEnd
  <1>6. CASE FailFetch(i)
    <2>1. PICK error \in {"transient", "permanent"} : End(i, {}, error)
      BY <1>6 DEF FailFetch
    <2> QED  BY <2>1, OwesAtEnd
  <1>7. CASE Stamp(i)
    <2> DEFINE gained == old.got \cup Picked(old)
    <2>1. old.pc = "fill" /\ End(i, gained, None)
      BY <1>7 DEF Stamp, At
    <2>2. ASSUME NEW c \in Wanted(old) PROVE Paid(asked, c, lo, to, gained)
      <3>1. Reaches(old.days, asked, lo)  BY <1>3, <2>1 DEF Owes
      <3>2. CASE c \in old.missing
        <4> HIDE DEF old, gained
        <4>1. Picked(old) \subseteq gained  BY DEF gained
        <4> QED  BY <1>1, <3>1, <3>2, <4>1, PicksPay
      <3>3. CASE c \notin old.missing
        <4> HIDE DEF to
        <4>1. \A d \in D : Found(asked, c, d, old.got)
          BY <1>3, <2>1, <3>3 DEF Owes
        <4>2. \A d \in D : Found(asked, c, d, gained)
          <5>1. ASSUME NEW d \in D PROVE Found(asked, c, d, gained)
            <6>1. Found(asked, c, d, old.got)  BY <4>1
            <6> HIDE DEF D
            <6> QED  BY <6>1 DEF Found
          <5> QED  BY <5>1
        <4> HIDE DEF gained, D
        <4> QED  BY <1>4, <4>2
      <3> QED  BY <3>2, <3>3
    <2> HIDE DEF gained
    <2> QED  BY <2>1, <2>2, OwesAtEnd
  <1> QED  BY <1>5, <1>6, <1>7

\* A feed that is read has what is missing, and stays in hand while it is stored.
LEMMA OwesAtFeed ==
    ASSUME Owing, today \in Nat, asked.day \in Nat, asked.day <= today,
           NEW i \in DOMAIN batch, Fetch(i) \/ PutRate(i)
    PROVE  OwingStep(i)
  <1> DEFINE old == batch[i]
  <1>1. /\ Owes(old, asked, lo, BucketEnd(request))
        /\ asked.request = request /\ lo \in Nat
    BY DEF Owing
  <1>2. {"pc", "tries", "queries", "seen", "todo", "missing", "days", "got", "error"}
           \subseteq DOMAIN old
    BY <1>1 DEF Owes
  <1>3. CASE Fetch(i)
    <2>1. PICK last \in {today - 1, today} :
             batch' = [batch EXCEPT ![i].pc = "fill", ![i].days = Content(FeedFor, last),
                                    ![i].todo = Fill(Content(FeedFor, last))]
      BY <1>3 DEF Fetch
    <2>2. old.pc = "look" /\ old.todo = {}  BY <1>3 DEF Fetch, Missing, At
    <2> DEFINE days == Content(FeedFor, last)
               todo == Fill(days)
               b == [old EXCEPT !.pc = "fill", !.days = days, !.todo = todo]
    <2>3. batch' = [batch EXCEPT ![i] = b]  BY <2>1
    <2>4. Reaches(days, asked, lo)  BY <1>1, FeedsReach
    <2> HIDE DEF days, todo
    <2>5. /\ b.pc = "fill" /\ b.days = days /\ b.got = old.got
          /\ b.missing = old.missing /\ b.queries = old.queries
          /\ {"pc", "tries", "queries", "seen", "todo", "missing", "days", "got", "error"}
                \subseteq DOMAIN b
      BY <1>2
    <2> HIDE DEF b, old
    <2>6. Wanted(b) = Wanted(old)  BY <2>5 DEF Wanted
    <2>7. Owes(b, asked, lo, BucketEnd(request))
      BY <1>1, <2>2, <2>4, <2>5, <2>6 DEF Owes
    <2> QED  BY <2>3, <2>5, <2>7 DEF OwingStep, old
  <1>4. CASE PutRate(i)
    <2> DEFINE p == FirstOf(old.todo)
               b == [old EXCEPT !.todo = @ \ {p}]
    <2>1. batch' = [batch EXCEPT ![i] = b] /\ old.pc = "fill"
      BY <1>4 DEF PutRate, At
    <2> HIDE DEF p
    <2>2. /\ b.pc = old.pc /\ b.days = old.days /\ b.got = old.got
          /\ b.missing = old.missing /\ b.queries = old.queries
          /\ {"pc", "tries", "queries", "seen", "todo", "missing", "days", "got", "error"}
                \subseteq DOMAIN b
      BY <1>2
    <2> HIDE DEF b, old
    <2>3. Wanted(b) = Wanted(old)  BY <2>2 DEF Wanted
    <2>4. Owes(b, asked, lo, BucketEnd(request))
      BY <1>1, <2>1, <2>2, <2>3 DEF Owes
    <2> QED  BY <2>1, <2>2, <2>4 DEF OwingStep, old
  <1> QED  BY <1>3, <1>4

\* A step of one batch leaves what the others owe.
LEMMA OwingGoes ==
    ASSUME Owing, NEW i \in DOMAIN batch, OwingStep(i), UNCHANGED callVars
    PROVE  Owing'
  <1>1. PICK b : /\ batch' = [batch EXCEPT ![i] = b] /\ b.queries = batch[i].queries
                 /\ Owes(b, asked, lo, BucketEnd(request))
    BY DEF OwingStep
  <1>2. /\ DOMAIN batch' = DOMAIN batch
        /\ \A j \in DOMAIN batch : /\ batch'[j].queries = batch[j].queries
                                   /\ batch'[j] \in {b, batch[j]}
    BY <1>1
  <1>3. /\ UNCHANGED <<request, lo, asked, prices, errors>>
        /\ BucketEnd(request)' = BucketEnd(request)
    BY DEF callVars, BucketEnd
  <1>4. \A j \in DOMAIN batch' : Owes(batch'[j], asked', lo', BucketEnd(request)')
    BY <1>1, <1>2, <1>3 DEF Owing
  <1>5. \A q \in Range(request.queries) : \E j \in DOMAIN batch' : q \in batch'[j].queries
    BY <1>2 DEF Owing
  <1> QED  BY <1>3, <1>4, <1>5 DEF Owing

\* More prices pay as well, and two buckets in a row pay for both.
LEMMA PaidStays ==
    ASSUME NEW a, NEW c, NEW from, NEW to, NEW S, NEW T, S \subseteq T,
           Paid(a, c, from, to, S)
    PROVE  Paid(a, c, from, to, T)
  BY DEF Paid
LEMMA PaidJoins ==
    ASSUME NEW a, NEW c, NEW from \in Nat, NEW mid \in Nat, NEW to \in Nat,
           NEW end \in Nat, to <= end, NEW S, a.request.method # "latest",
           Paid(a, c, from, mid, S), Paid(a, c, mid, end, S)
    PROVE  Paid(a, c, from, to, S)
  <1>1. ASSUME NEW d \in Days, from <= d, d < to, d < a.day, Good(d, c)
        PROVE  Price(c, d, d) \in S
    <2>0. d \in Nat  BY RatesAssumption
    <2>1. CASE d < mid  BY <1>1, <2>1 DEF Paid
    <2>2. CASE mid <= d /\ d < end  BY <1>1, <2>2 DEF Paid
    <2> QED  BY <1>1, <2>0, <2>1, <2>2
  <1> QED  BY <1>1 DEF Paid

\* The merge of a bucket: each query has its prices or an error.
LEMMA MergePays ==
    ASSUME Owing, Over, Merge, NEW q \in Range(request.queries), q.eur
    PROVE  q \in errors' \/ Paid(asked, q.cur, lo, BucketEnd(request), prices')
  <1>1. PICK i \in DOMAIN batch : q \in batch[i].queries  BY DEF Owing
  <1>2. batch[i].pc = "end" /\ Owes(batch[i], asked, lo, BucketEnd(request))
    BY DEF Over, Owing
  <1>3. CASE batch[i].error # None
    BY <1>1, <1>3 DEF Merge
  <1>4. CASE batch[i].error = None
    <2>1. q.cur \in Wanted(batch[i])  BY <1>1 DEF Wanted
    <2>2. Paid(asked, q.cur, lo, BucketEnd(request), batch[i].got)
      BY <1>2, <1>4, <2>1 DEF Owes
    <2>3. batch[i].got \subseteq prices'  BY DEF Merge
    <2> QED  BY <2>2, <2>3, PaidStays
  <1> QED  BY <1>3, <1>4

\* A bucket that begins owes all, and asks for every query.
LEMMA OwingBegins ==
    ASSUME request' \in Requests, asked'.request = request', lo' \in Nat,
           request'.method = "at" => lo' = request'.from,
           NEW from, Begin(request', from),
           request'.method # "latest" =>
               \A q \in Range(request'.queries) :
                   Settled(asked', q, request'.from, lo', prices', errors')
    PROVE  Owing'
  <1>1. request' \in Request  BY LimitsAssumption
  <1>2. batch' = [x \in Batches(request'.queries) |->
                     Fresh(Chunk(request'.queries, x))]
    BY DEF Begin
  <1>3. ASSUME NEW qs
        PROVE  /\ {"pc", "tries", "queries", "seen", "todo", "missing", "days", "got",
                   "error"} \subseteq DOMAIN Fresh(qs)
               /\ Fresh(qs).pc = "token" /\ Fresh(qs).queries = qs
    BY DEF Fresh
  <1>4. ASSUME NEW i \in DOMAIN batch'
        PROVE  Owes(batch'[i], asked', lo', BucketEnd(request)')
    <2>1. batch'[i] = Fresh(Chunk(request'.queries, i))  BY <1>2
    <2> QED  BY <1>3, <2>1 DEF Owes
  <1>5. ASSUME NEW q \in Range(request'.queries)
        PROVE  \E i \in DOMAIN batch' : q \in batch'[i].queries
    <2>1. PICK x \in Batches(request'.queries) : q \in Chunk(request'.queries, x)
      BY <1>1, BatchesCover
    <2>2. x \in DOMAIN batch' /\ batch'[x].queries = Chunk(request'.queries, x)
      BY <1>2, <1>3
    <2> QED  BY <2>1, <2>2
  <1> QED  BY <1>4, <1>5 DEF Owing

LEMMA CompletingCall ==
    ASSUME Completing, NEW r \in Requests, Call(r) PROVE Completing'
  <1>1. r \in Request /\ r # None  BY LimitsAssumption
  <1>2. r.from \in Nat /\ r.to \in Nat  BY <1>1 DEF Request
  <1>3. /\ request' = r /\ asked' = [request |-> r, day |-> today] /\ today' = today
        /\ Begin(r, r.from) /\ lo' = r.from /\ calls' = calls + 1
    BY DEF Call, Begin
  <1>4. asked'.request = r /\ asked'.day = today  BY <1>3
  <1>5. ASSUME NEW q, NEW ps, NEW es, r.method # "latest"
        PROVE  Settled(asked', q, r.from, r.from, ps, es)
    <2>1. \A d \in Days : ~ (r.from <= d /\ d < r.from)  BY <1>2, RatesAssumption
    <2> QED  BY <1>4, <1>5, <2>1 DEF Settled, Paid
  <1>6. Owing'
    <2>1. /\ request' \in Requests /\ asked'.request = request' /\ lo' \in Nat
          /\ request'.method = "at" => lo' = request'.from
          /\ Begin(request', r.from)
          /\ request'.method # "latest" =>
                 \A q \in Range(request'.queries) :
                     Settled(asked', q, request'.from, lo', prices', errors')
      BY <1>2, <1>3, <1>4, <1>5
    <2> QED  BY <2>1, OwingBegins
  <1> QED  BY <1>1, <1>3, <1>4, <1>6 DEF Completing

LEMMA CompletingCaller ==
    ASSUME Completing, request # None, Caller PROVE Completing'
  <1> DEFINE to == BucketEnd(request)
  <1>1. Over /\ Merge /\ UNCHANGED <<today, calls, asked>>
    BY DEF Caller, NextBucket, Return, callVars
  <1>2. Owing  BY DEF Completing
  <1>3. /\ request \in Requests /\ asked.request = request /\ lo \in Nat
        /\ to \in Nat /\ request.from \in Nat /\ request.to \in Nat
        /\ request.method \in {"latest", "at", "range", "iter"}
    BY <1>2, Bucket DEF Owing
  <1>4. prices \subseteq prices' /\ errors \subseteq errors'  BY <1>1 DEF Merge
  <1>5. ASSUME NEW q \in Range(request.queries), NEW upTo \in Nat, upTo <= to,
               request.method # "latest"
        PROVE  Settled(asked, q, request.from, upTo, prices', errors')
    <2> SUFFICES ASSUME q.eur, q \notin errors'
                 PROVE  Paid(asked, q.cur, request.from, upTo, prices')
      BY DEF Settled
    <2>1. Paid(asked, q.cur, lo, to, prices')  BY <1>1, <1>2, MergePays
    <2>2. Paid(asked, q.cur, request.from, lo, prices)
      BY <1>2, <1>4, <1>5 DEF Owing, Settled
    <2>3. Paid(asked, q.cur, request.from, lo, prices')  BY <1>4, <2>2, PaidStays
    <2> HIDE DEF to
    <2> QED  BY <1>3, <1>5, <2>1, <2>3, PaidJoins
  <1>6. CASE NextBucket
    <2>1. /\ More /\ Begin(request, to) /\ lo' = to /\ request' = request
      BY <1>6 DEF NextBucket, Begin
    <2>2. request.method \in {"range", "iter"}  BY <2>1 DEF More
    <2>3. \A q \in Range(request.queries) :
             Settled(asked, q, request.from, to, prices', errors')
      BY <1>3, <1>5, <2>2
    <2>4. Owing'
      <3> HIDE DEF to
      <3>1. /\ request' \in Requests /\ asked'.request = request' /\ lo' \in Nat
            /\ request'.method = "at" => lo' = request'.from
            /\ Begin(request', to)
            /\ \A q \in Range(request'.queries) :
                   Settled(asked', q, request'.from, lo', prices', errors')
        BY <1>1, <1>3, <2>1, <2>2, <2>3
      <3> QED  BY <3>1, OwingBegins
    <2> QED  BY <1>1, <2>1, <2>4 DEF Completing
  <1>7. CASE Return
    <2>1. (More => ~live) /\ request' = None /\ live' = live
      BY <1>7 DEF Return
    <2>2. ASSUME live, NEW q \in Range(request.queries)
          PROVE  Settled(asked, q, request.from, request.to, prices', errors')
      <3>1. request.to <= to
        <4>1. ~More  BY <2>1, <2>2
        <4>2. CASE request.method \in {"range", "iter"}
          BY <1>3, <4>1, <4>2 DEF More
        <4>3. CASE request.method \in {"latest", "at"}
          BY <1>3, <4>3 DEF BucketEnd
        <4> QED  BY <1>3, <4>2, <4>3
      <3>2. CASE request.method # "latest"  BY <1>3, <1>5, <3>1, <3>2
      <3>3. CASE request.method = "latest"
        <4>1. ASSUME q.eur
              PROVE  q \in errors' \/ Paid(asked, q.cur, lo, to, prices')
          BY <1>1, <1>2, <4>1, MergePays
        <4> QED  BY <1>3, <3>3, <4>1 DEF Settled, Paid
      <3> QED  BY <3>2, <3>3
    <2>3. Answered'
      BY <1>1, <1>3, <2>1, <2>2 DEF Answered
    <2> QED  BY <1>1, <2>1, <2>3 DEF Completing
  <1> QED  BY <1>6, <1>7 DEF Caller

LEMMA CompletingStep == Inv /\ Truth /\ Completing /\ [Next]_vars => Completing'
  <1> SUFFICES ASSUME Inv, Truth, Completing, [Next]_vars PROVE Completing'  OBVIOUS
  <1>1. ASSUME NEW r \in Requests, Call(r) PROVE Completing'
    BY <1>1, CompletingCall
  <1>2. CASE Caller
    <2>1. request # None  BY <1>2 DEF Caller, NextBucket, Return
    <2> QED  BY <1>2, <2>1, CompletingCaller
  <1>3. CASE CancelCtx \/ Tick \/ Refill \/ UNCHANGED vars
    <2>1. /\ UNCHANGED <<batch, request, lo, asked, prices, errors, calls>>
          /\ today' \in {today, today + 1} /\ (live' => live)
      BY <1>3 DEF CancelCtx, Tick, Refill, vars, cacheVars, callVars
    <2>2. BucketEnd(request)' = BucketEnd(request)  BY <2>1 DEF BucketEnd
    <2>3. Owing => Owing'  BY <2>1, <2>2 DEF Owing
    <2>4. Answered => Answered'  BY <2>1 DEF Answered
    <2>5. today' \in Nat /\ asked'.day \in Nat /\ asked'.day <= today' /\ calls' \in Nat
      BY <2>1 DEF Completing
    <2> QED  BY <2>1, <2>3, <2>4, <2>5 DEF Completing
  <1>4. ASSUME NEW i \in DOMAIN batch, Goroutine(i) PROVE Completing'
    <2>1. UNCHANGED callVars /\ today' = today
      BY <1>4 DEF Goroutine, Source, TakeToken, Attempt, GiveUp, Backoff, TakeSlot,
                  ReadDate, Look, AllFound, Fetch, FailFetch, PutRate, Stamp, End, BatchFrame
    <2>2. request # None  BY <1>4 DEF Inv, BatchInv
    <2>3. Owing /\ today \in Nat /\ asked.day \in Nat /\ asked.day <= today
      BY <2>2 DEF Completing
    <2>4. OwingStep(i)
      <3>1. CASE TakeToken(i) \/ Attempt(i) \/ GiveUp(i) \/ Backoff(i) \/ TakeSlot(i)
        BY <2>3, <3>1, OwesOutside
      <3>2. CASE ReadDate(i)  BY <2>3, <3>2, OwesAtDate
      <3>3. CASE Look(i)  BY <2>3, <3>3, OwesAtLook
      <3>4. CASE Fetch(i) \/ PutRate(i)  BY <2>3, <3>4, OwesAtFeed
      <3>5. CASE AllFound(i) \/ FailFetch(i) \/ Stamp(i)  BY <2>3, <3>5, SettlesAtEnd
      <3> QED  BY <1>4, <3>1, <3>2, <3>3, <3>4, <3>5 DEF Goroutine, Source
    <2>5. Owing'  BY <2>1, <2>3, <2>4, OwingGoes
    <2> QED  BY <2>1, <2>2, <2>3, <2>5 DEF Completing, callVars
  <1> QED  BY <1>1, <1>2, <1>3, <1>4 DEF Next

\* A call that was not cancelled has a price for every query of a euro pair whose
\* rate was published when it began, or an error for it: whatever the cache has
\* evicted between two lookups, however late the feeds are, and however the
\* call is cut into buckets, partitions and chunks.
THEOREM Complete == Spec => []QuotesAreComplete
  <1>1. Init => Completing
    <2> SUFFICES ASSUME Init PROVE Completing  OBVIOUS
    <2>1. today = 1 /\ asked.day = 0 /\ calls = 0 /\ request = None  BY DEF Init
    <2> QED  BY <2>1 DEF Completing, Answered
  <1>2. Init => Inv /\ Truth
    BY InitInv DEF Init, Truth, TrueCache, TrueBatches
  <1>3. Inv /\ Truth /\ [Next]_vars => Inv' /\ Truth'
    BY BatchStep, CacheStep, TruthStep DEF Inv
  <1>4. Completing => QuotesAreComplete
    <2> SUFFICES ASSUME Completing, request = None, calls > 0, live,
                        NEW q \in Range(asked.request.queries), q.eur, q \notin errors
                 PROVE  /\ \A d \in Expected(q) : Price(q.cur, d, d) \in prices
                        /\ (/\ asked.request.method = "latest"
                            /\ \E d \in Days : d < asked.day
                            /\ \A d \in Days : Good(d, q.cur)) =>
                               \E p \in prices : p.cur = q.cur
      BY DEF QuotesAreComplete
    <2>1. Paid(asked, q.cur, asked.request.from, asked.request.to, prices)
      BY DEF Completing, Answered, Settled
    <2>2. CASE asked.request.method = "latest"  BY <2>1, <2>2 DEF Paid, Expected
    <2>3. CASE asked.request.method # "latest"  BY <2>1, <2>3 DEF Paid, Expected
    <2> QED  BY <2>2, <2>3
  <1> QED  BY <1>1, <1>2, <1>3, <1>4, CompletingStep, PTL DEF Spec
=============================================================================
