---------------------------- MODULE SessionProofs ----------------------------
(***************************************************************************)
(* Theorems about the ledger session, for any number of goroutines,        *)
(* subscriptions, paths and contents and for any bounds.                   *)
(***************************************************************************)
EXTENDS Session, TLAPS

-----------------------------------------------------------------------------
(* Typing.                                                                 *)

LEMMA InitTypeOK == Init => TypeOK
  <1>1. NoOverlay \in Overlay
    BY DEF NoOverlay, Overlay
  <1>2. Loaded(0, NoOverlay) \in Ledger
    BY <1>1 DEF Loaded, Ledger
  <1>3. Answer("none", NoLedger) \in Result
    BY DEF Answer, Result, Errors
  <1>4. ASSUME Init
        PROVE  /\ snap \in [Callers -> Overlay] /\ result \in [Callers -> Result]
               /\ last \in Result
    BY <1>1, <1>3, <1>4 DEF Init
  <1>5. ASSUME Init
        PROVE  /\ todo \in [Callers -> SUBSET Subs] /\ pushed \in [Subs -> SUBSET Nat]
               /\ subMu \in [Subs -> Callers \cup {Free}]
    BY <1>5 DEF Init
  <1>6. ASSUME Init
        PROVE  /\ subState \in [Subs -> {"new", "open", "closed"}]
               /\ ch \in [Subs -> Nat] /\ born \in [Subs -> Nat]
               /\ pc \in [Callers -> Steps] /\ load \in [Callers -> Nat]
               /\ ctxDone \in [Callers -> BOOLEAN]
    BY <1>6 DEF Init, Steps, EmptyCh
  <1>7. ASSUME Init
        PROVE  /\ overlay \in Overlay /\ cached \in Ledger
               /\ valid \in BOOLEAN /\ closed \in BOOLEAN /\ reloading \in BOOLEAN
    BY <1>1, <1>2, <1>7 DEF Init
  <1>8. ASSUME Init
        PROVE  /\ subscribers \subseteq Subs /\ done \in Nat
               /\ closedDone \subseteq Nat /\ overlapped \subseteq Nat
               /\ calls \in 0..MaxCalls /\ edits \in 0..MaxEdits
    BY <1>8, BoundsAssumption DEF Init
  <1>9. QED
    BY <1>4, <1>5, <1>6, <1>7, <1>8 DEF TypeOK

LEMMA EditsKeepTypes ==
  ASSUME TypeOK, NEW f \in Paths,
         ClearOverlay(f) \/ \E c \in Contents : SetOverlay(f, c)
  PROVE  overlay' \in Overlay /\ overlapped' \subseteq Nat /\ edits' \in 0..MaxEdits
  <1>1. overlay \in Overlay /\ overlapped \subseteq Nat /\ done \in Nat
    BY DEF TypeOK
  <1>2. overlay' \in Overlay
    BY <1>1 DEF Overlay, ClearOverlay, SetOverlay
  <1>3. overlapped' \subseteq Nat
    BY <1>1 DEF ClearOverlay, SetOverlay, Invalidate
  <1>4. edits' \in 0..MaxEdits
    BY BoundsAssumption DEF ClearOverlay, SetOverlay, TypeOK
  <1>5. QED
    BY <1>2, <1>3, <1>4

LEMMA OutcomesAreResults ==
  ASSUME TypeOK, NEW p \in Callers, NEW r \in Outcomes(p)
  PROVE  /\ r \in Result
         /\ r.err = "none" => r.ledger = Loaded(load[p], snap[p])
         /\ r.err = "none" => r.ledger \in Ledger
  BY DEF TypeOK, Outcomes, Answer, Loaded, Result, Ledger, Errors

(* Every variable keeps its type: in particular a failed load never puts a *)
(* nil ledger into the cache.                                              *)
LEMMA StepTypeOK == TypeOK /\ [Next]_vars => TypeOK'
  <1> SUFFICES ASSUME TypeOK, [Next]_vars PROVE TypeOK'
    OBVIOUS
  <1> USE BoundsAssumption DEF TypeOK, vars, sessionVars, flightVars, subVars,
          localVars, budgetVars, historyVars, Steps, EmptyCh
  <1>1. ASSUME NEW f \in Paths, ClearOverlay(f) PROVE TypeOK'
    <2>1. overlay' \in Overlay /\ overlapped' \subseteq Nat /\ edits' \in 0..MaxEdits
      BY <1>1, EditsKeepTypes
    <2>2. valid' = FALSE
      BY <1>1 DEF ClearOverlay, Invalidate
    <2>3. QED
      BY <1>1, <2>1, <2>2 DEF ClearOverlay
  <1>2. ASSUME NEW f \in Paths, NEW c \in Contents, SetOverlay(f, c) PROVE TypeOK'
    <2>1. overlay' \in Overlay /\ overlapped' \subseteq Nat /\ edits' \in 0..MaxEdits
      BY <1>2, EditsKeepTypes
    <2>2. valid' = FALSE
      BY <1>2 DEF SetOverlay, Invalidate
    <2>3. QED
      BY <1>2, <2>1, <2>2 DEF SetOverlay
  <1>3. ASSUME NEW p \in Callers, CancelCtx(p) PROVE TypeOK'
    BY <1>3 DEF CancelCtx
  <1>4. ASSUME NEW s \in Subs, Subscribe(s) PROVE TypeOK'
    BY <1>4 DEF Subscribe, Registered
  <1>5. ASSUME NEW s \in Subs, Receive(s) PROVE TypeOK'
    BY <1>5 DEF Receive
  <1>6. ASSUME NEW p \in Callers, RefuseCall(p) PROVE TypeOK'
    BY <1>6 DEF RefuseCall, BeginReload, BeginCall, Answer, Result, Errors
  <1>7. ASSUME NEW p \in Callers, NEW force \in BOOLEAN, ServeCached(p, force)
        PROVE TypeOK'
    BY <1>7 DEF ServeCached, BeginReload, BeginCall, Answer, Result, Errors
  <1>8. ASSUME NEW p \in Callers, NEW force \in BOOLEAN, JoinLoad(p, force)
        PROVE TypeOK'
    BY <1>8 DEF JoinLoad, BeginReload, BeginCall
  <1>9. ASSUME NEW p \in Callers, NEW force \in BOOLEAN, LeadLoad(p, force)
        PROVE TypeOK'
    BY <1>9 DEF LeadLoad, StartLoad, BeginReload, BeginCall
  <1>10. ASSUME NEW p \in Callers, NEW s \in Subs, Cancel(p, s) PROVE TypeOK'
    BY <1>10 DEF Cancel, BeginCall
  <1>11. ASSUME NEW p \in Callers, Close(p) PROVE TypeOK'
    BY <1>11 DEF Close, BeginCall, Taken
  <1>12. ASSUME NEW p \in Callers, NEW r \in Outcomes(p), CommitLoad(p, r)
         PROVE TypeOK'
    BY <1>12, OutcomesAreResults DEF CommitLoad, Fills, AfterCommit
  <1>13. ASSUME NEW p \in Callers, CloneSubscribers(p) PROVE TypeOK'
    BY <1>13 DEF CloneSubscribers
  <1>14. ASSUME NEW p \in Callers, NEW s \in Subs, SkipClosed(p, s) PROVE TypeOK'
    BY <1>14 DEF SkipClosed
  <1>15. ASSUME NEW p \in Callers, NEW s \in Subs, Drain(p, s) PROVE TypeOK'
    BY <1>15 DEF Drain, TakeLock
  <1>16. ASSUME NEW p \in Callers, NEW s \in Subs, Push(p, s) PROVE TypeOK'
    BY <1>16 DEF Push
  <1>17. ASSUME NEW p \in Callers, FinishLoad(p) PROVE TypeOK'
    BY <1>17 DEF FinishLoad, ClosedBy
  <1>18. ASSUME NEW p \in Callers, ReadShared(p) PROVE TypeOK'
    BY <1>18 DEF ReadShared, Shared
  <1>19. ASSUME NEW p \in Callers, StopWaiting(p) PROVE TypeOK'
    BY <1>19 DEF StopWaiting, Answer, Result, Errors
  <1>20. ASSUME NEW p \in Callers, NEW s \in Subs, CloseSub(p, s) PROVE TypeOK'
    BY <1>20 DEF CloseSub, CloseChannel
  <1>21. ASSUME NEW p \in Callers, FinishClosing(p) PROVE TypeOK'
    BY <1>21 DEF FinishClosing
  <1>22. CASE UNCHANGED vars
    BY <1>22
  <1>23. QED
    BY <1>1, <1>2, <1>3, <1>4, <1>5, <1>6, <1>7, <1>8, <1>9, <1>10, <1>11, <1>12,
       <1>13, <1>14, <1>15, <1>16, <1>17, <1>18, <1>19, <1>20, <1>21, <1>22
       DEF Next, Environment, StartCall, Continue

(* The variables of the session, its callers and its broadcasters keep    *)
(* their types.                                                            *)
THEOREM Typing == Spec => []TypeOK
  BY InitTypeOK, StepTypeOK, PTL DEF Spec

-----------------------------------------------------------------------------
(* At most one load runs at a time.                                        *)

LEMMA InitOneLoad == Init => OneLoadAtATime
  BY DEF Init, OneLoadAtATime

LEMMA StepOneLoad == TypeOK /\ OneLoadAtATime /\ [Next]_vars => OneLoadAtATime'
  <1> SUFFICES ASSUME TypeOK, OneLoadAtATime, [Next]_vars PROVE OneLoadAtATime'
    OBVIOUS
  <1> pc \in [Callers -> Steps]
    BY DEF TypeOK
  <1> USE DEF OneLoadAtATime, vars, sessionVars, flightVars, subVars, localVars,
          budgetVars, historyVars
  <1>1. ASSUME NEW f \in Paths, ClearOverlay(f) PROVE OneLoadAtATime'
    BY <1>1 DEF ClearOverlay, Invalidate
  <1>2. ASSUME NEW f \in Paths, NEW c \in Contents, SetOverlay(f, c)
        PROVE OneLoadAtATime'
    BY <1>2 DEF SetOverlay, Invalidate
  <1>3. ASSUME NEW p \in Callers, CancelCtx(p) PROVE OneLoadAtATime'
    BY <1>3 DEF CancelCtx
  <1>4. ASSUME NEW s \in Subs, Subscribe(s) PROVE OneLoadAtATime'
    BY <1>4 DEF Subscribe, Registered
  <1>5. ASSUME NEW s \in Subs, Receive(s) PROVE OneLoadAtATime'
    BY <1>5 DEF Receive
  <1>6. ASSUME NEW p \in Callers, RefuseCall(p) PROVE OneLoadAtATime'
    BY <1>6 DEF RefuseCall, BeginReload, BeginCall
  <1>7. ASSUME NEW p \in Callers, NEW force \in BOOLEAN, ServeCached(p, force)
        PROVE OneLoadAtATime'
    BY <1>7 DEF ServeCached, BeginReload, BeginCall
  <1>8. ASSUME NEW p \in Callers, NEW force \in BOOLEAN, JoinLoad(p, force)
        PROVE OneLoadAtATime'
    BY <1>8 DEF JoinLoad, BeginReload, BeginCall
  <1>9. ASSUME NEW p \in Callers, NEW force \in BOOLEAN, LeadLoad(p, force)
        PROVE OneLoadAtATime'
    BY <1>9 DEF LeadLoad, StartLoad, BeginReload, BeginCall
  <1>10. ASSUME NEW p \in Callers, NEW s \in Subs, Cancel(p, s)
         PROVE OneLoadAtATime'
    BY <1>10 DEF Cancel, BeginCall
  <1>11. ASSUME NEW p \in Callers, Close(p) PROVE OneLoadAtATime'
    BY <1>11 DEF Close, BeginCall, Taken
  <1>12. ASSUME NEW p \in Callers, NEW r \in Outcomes(p), CommitLoad(p, r)
         PROVE OneLoadAtATime'
    BY <1>12 DEF CommitLoad, Fills, AfterCommit
  <1>13. ASSUME NEW p \in Callers, CloneSubscribers(p) PROVE OneLoadAtATime'
    BY <1>13 DEF CloneSubscribers
  <1>14. ASSUME NEW p \in Callers, NEW s \in Subs, SkipClosed(p, s)
         PROVE OneLoadAtATime'
    BY <1>14 DEF SkipClosed, Skipped
  <1>15. ASSUME NEW p \in Callers, NEW s \in Subs, Drain(p, s)
         PROVE OneLoadAtATime'
    BY <1>15 DEF Drain, TakeLock, Skipped
  <1>16. ASSUME NEW p \in Callers, NEW s \in Subs, Push(p, s)
         PROVE OneLoadAtATime'
    BY <1>16 DEF Push
  <1>17. ASSUME NEW p \in Callers, FinishLoad(p) PROVE OneLoadAtATime'
    BY <1>17 DEF FinishLoad, ClosedBy
  <1>18. ASSUME NEW p \in Callers, ReadShared(p) PROVE OneLoadAtATime'
    BY <1>18 DEF ReadShared, Shared
  <1>19. ASSUME NEW p \in Callers, StopWaiting(p) PROVE OneLoadAtATime'
    BY <1>19 DEF StopWaiting
  <1>20. ASSUME NEW p \in Callers, NEW s \in Subs, CloseSub(p, s)
         PROVE OneLoadAtATime'
    BY <1>20 DEF CloseSub, CloseChannel
  <1>21. ASSUME NEW p \in Callers, FinishClosing(p) PROVE OneLoadAtATime'
    BY <1>21 DEF FinishClosing
  <1>22. CASE UNCHANGED vars
    BY <1>22
  <1>23. QED
    BY <1>1, <1>2, <1>3, <1>4, <1>5, <1>6, <1>7, <1>8, <1>9, <1>10,
       <1>11, <1>12, <1>13, <1>14, <1>15, <1>16, <1>17, <1>18, <1>19,
       <1>20, <1>21, <1>22
       DEF Next, Environment, StartCall, Continue

(* Although s.reloading is cleared before the leader has broadcast and     *)
(* closed done, no two goroutines are inside the loader.                   *)
THEOREM OneLoad == Spec => []OneLoadAtATime
  BY InitOneLoad, StepOneLoad, Typing, PTL DEF Spec

-----------------------------------------------------------------------------
(* Staleness.  The invariant also says what a load in flight has read: the *)
(* current overlay, unless an edit overtook it.                            *)

CacheInv ==
  /\ StaleOnlyIfOvertaken
  /\ \A p \in Callers :
       pc[p] = "load" =>
         /\ load[p] = done
         /\ load[p] \notin overlapped => snap[p] = overlay

LEMMA InitCache == Init => CacheInv
  BY DEF Init, CacheInv, StaleOnlyIfOvertaken, Loaded

LEMMA StepCache ==
  TypeOK /\ OneLoadAtATime /\ CacheInv /\ [Next]_vars => CacheInv'
  <1> SUFFICES ASSUME TypeOK, OneLoadAtATime, CacheInv, [Next]_vars PROVE CacheInv'
    OBVIOUS
  <1> pc \in [Callers -> Steps] /\ load \in [Callers -> Nat]
      /\ snap \in [Callers -> Overlay]
    BY DEF TypeOK
  <1> USE DEF OneLoadAtATime, CacheInv, StaleOnlyIfOvertaken, vars, sessionVars,
          flightVars, subVars, localVars, budgetVars, historyVars
  <1>1. ASSUME NEW f \in Paths, ClearOverlay(f) PROVE CacheInv'
    BY <1>1 DEF ClearOverlay, Invalidate
  <1>2. ASSUME NEW f \in Paths, NEW c \in Contents, SetOverlay(f, c)
        PROVE CacheInv'
    BY <1>2 DEF SetOverlay, Invalidate
  <1>3. ASSUME NEW p \in Callers, CancelCtx(p) PROVE CacheInv'
    BY <1>3 DEF CancelCtx
  <1>4. ASSUME NEW s \in Subs, Subscribe(s) PROVE CacheInv'
    BY <1>4 DEF Subscribe, Registered
  <1>5. ASSUME NEW s \in Subs, Receive(s) PROVE CacheInv'
    BY <1>5 DEF Receive
  <1>6. ASSUME NEW p \in Callers, RefuseCall(p) PROVE CacheInv'
    BY <1>6 DEF RefuseCall, BeginReload, BeginCall
  <1>7. ASSUME NEW p \in Callers, NEW force \in BOOLEAN, ServeCached(p, force)
        PROVE CacheInv'
    BY <1>7 DEF ServeCached, BeginReload, BeginCall
  <1>8. ASSUME NEW p \in Callers, NEW force \in BOOLEAN, JoinLoad(p, force)
        PROVE CacheInv'
    BY <1>8 DEF JoinLoad, BeginReload, BeginCall
  <1>9. ASSUME NEW p \in Callers, NEW force \in BOOLEAN, LeadLoad(p, force)
        PROVE CacheInv'
    BY <1>9 DEF LeadLoad, StartLoad, BeginReload, BeginCall
  <1>10. ASSUME NEW p \in Callers, NEW s \in Subs, Cancel(p, s) PROVE CacheInv'
    BY <1>10 DEF Cancel, BeginCall
  <1>11. ASSUME NEW p \in Callers, Close(p) PROVE CacheInv'
    BY <1>11 DEF Close, BeginCall, Taken
  <1>12. ASSUME NEW p \in Callers, NEW r \in Outcomes(p), CommitLoad(p, r)
         PROVE CacheInv'
    <2>1. \A q \in Callers : pc'[q] # "load"
      BY <1>12 DEF CommitLoad, AfterCommit
    <2>2. UNCHANGED <<overlay, overlapped>>
      BY <1>12 DEF CommitLoad
    <2>3. CASE Fills(r)
      <3>1. cached' = Loaded(load[p], snap[p])
        BY <1>12, <2>3, OutcomesAreResults DEF CommitLoad, Fills
      <3>2. load[p] \notin overlapped => snap[p] = overlay
        BY <1>12 DEF CommitLoad
      <3>3. QED
        BY <2>1, <2>2, <3>1, <3>2 DEF Loaded
    <2>4. CASE ~Fills(r)
      BY <1>12, <2>1, <2>2, <2>4 DEF CommitLoad
    <2>5. QED
      BY <2>3, <2>4
  <1>13. ASSUME NEW p \in Callers, CloneSubscribers(p) PROVE CacheInv'
    BY <1>13 DEF CloneSubscribers
  <1>14. ASSUME NEW p \in Callers, NEW s \in Subs, SkipClosed(p, s)
         PROVE CacheInv'
    BY <1>14 DEF SkipClosed, Skipped
  <1>15. ASSUME NEW p \in Callers, NEW s \in Subs, Drain(p, s) PROVE CacheInv'
    BY <1>15 DEF Drain, TakeLock, Skipped
  <1>16. ASSUME NEW p \in Callers, NEW s \in Subs, Push(p, s) PROVE CacheInv'
    BY <1>16 DEF Push
  <1>17. ASSUME NEW p \in Callers, FinishLoad(p) PROVE CacheInv'
    BY <1>17 DEF FinishLoad, ClosedBy
  <1>18. ASSUME NEW p \in Callers, ReadShared(p) PROVE CacheInv'
    BY <1>18 DEF ReadShared, Shared
  <1>19. ASSUME NEW p \in Callers, StopWaiting(p) PROVE CacheInv'
    BY <1>19 DEF StopWaiting
  <1>20. ASSUME NEW p \in Callers, NEW s \in Subs, CloseSub(p, s)
         PROVE CacheInv'
    BY <1>20 DEF CloseSub, CloseChannel
  <1>21. ASSUME NEW p \in Callers, FinishClosing(p) PROVE CacheInv'
    BY <1>21 DEF FinishClosing
  <1>22. CASE UNCHANGED vars
    BY <1>22
  <1>23. QED
    BY <1>1, <1>2, <1>3, <1>4, <1>5, <1>6, <1>7, <1>8, <1>9, <1>10,
       <1>11, <1>12, <1>13, <1>14, <1>15, <1>16, <1>17, <1>18, <1>19,
       <1>20, <1>21, <1>22
       DEF Next, Environment, StartCall, Continue

(* A cache that is marked valid and whose load was not overtaken by an     *)
(* overlay edit reflects the current overlay.                              *)
THEOREM Staleness == Spec => []StaleOnlyIfOvertaken
  <1>1. CacheInv => StaleOnlyIfOvertaken
    BY DEF CacheInv
  <1>2. QED
    BY <1>1, InitCache, StepCache, Typing, OneLoad, PTL DEF Spec

-----------------------------------------------------------------------------
(* Delivery.  Whoever holds a subscriber's mutex is between the drain and  *)
(* the push, and nobody fills or closes the channel meanwhile.             *)

SendInv ==
  /\ \A p \in Callers, s \in Subs :
       subMu[s] = p => pc[p] = "push" /\ subState[s] = "open" /\ ch[s] = EmptyCh
  /\ \A p \in Callers, s, t \in Subs : subMu[s] = p /\ subMu[t] = p => s = t
  /\ \A s \in subscribers : subState[s] # "new"
  /\ \A p \in Callers : \A s \in todo[p] : subState[s] # "new"

LEMMA InitSend == Init => SendInv
  BY FreeAssumption DEF Init, SendInv

LEMMA StepSend == TypeOK /\ SendInv /\ [Next]_vars => SendInv'
  <1> SUFFICES ASSUME TypeOK, SendInv, [Next]_vars PROVE SendInv'
    OBVIOUS
  <1> pc \in [Callers -> Steps] /\ subMu \in [Subs -> Callers \cup {Free}]
      /\ ch \in [Subs -> Nat] /\ subState \in [Subs -> {"new", "open", "closed"}]
      /\ subscribers \subseteq Subs /\ todo \in [Callers -> SUBSET Subs]
    BY DEF TypeOK
  <1> USE FreeAssumption
      DEF SendInv, vars, sessionVars, flightVars, subVars, localVars, budgetVars,
          historyVars
  <1>1. ASSUME NEW f \in Paths, ClearOverlay(f) PROVE SendInv'
    BY <1>1 DEF ClearOverlay, Invalidate
  <1>2. ASSUME NEW f \in Paths, NEW c \in Contents, SetOverlay(f, c)
        PROVE SendInv'
    BY <1>2 DEF SetOverlay, Invalidate
  <1>3. ASSUME NEW p \in Callers, CancelCtx(p) PROVE SendInv'
    BY <1>3 DEF CancelCtx
  <1>4. ASSUME NEW s \in Subs, Subscribe(s) PROVE SendInv'
    BY <1>4 DEF Subscribe, Registered
  <1>5. ASSUME NEW s \in Subs, Receive(s) PROVE SendInv'
    BY <1>5 DEF Receive
  <1>6. ASSUME NEW p \in Callers, RefuseCall(p) PROVE SendInv'
    BY <1>6 DEF RefuseCall, BeginReload, BeginCall
  <1>7. ASSUME NEW p \in Callers, NEW force \in BOOLEAN, ServeCached(p, force)
        PROVE SendInv'
    BY <1>7 DEF ServeCached, BeginReload, BeginCall
  <1>8. ASSUME NEW p \in Callers, NEW force \in BOOLEAN, JoinLoad(p, force)
        PROVE SendInv'
    BY <1>8 DEF JoinLoad, BeginReload, BeginCall
  <1>9. ASSUME NEW p \in Callers, NEW force \in BOOLEAN, LeadLoad(p, force)
        PROVE SendInv'
    BY <1>9 DEF LeadLoad, StartLoad, BeginReload, BeginCall
  <1>10. ASSUME NEW p \in Callers, NEW s \in Subs, Cancel(p, s) PROVE SendInv'
    BY <1>10 DEF Cancel, BeginCall
  <1>11. ASSUME NEW p \in Callers, Close(p) PROVE SendInv'
    BY <1>11 DEF Close, BeginCall, Taken
  <1>12. ASSUME NEW p \in Callers, NEW r \in Outcomes(p), CommitLoad(p, r)
         PROVE SendInv'
    BY <1>12 DEF CommitLoad, Fills, AfterCommit
  <1>13. ASSUME NEW p \in Callers, CloneSubscribers(p) PROVE SendInv'
    BY <1>13 DEF CloneSubscribers
  <1>14. ASSUME NEW p \in Callers, NEW s \in Subs, SkipClosed(p, s)
         PROVE SendInv'
    BY <1>14 DEF SkipClosed, Skipped
  <1>15. ASSUME NEW p \in Callers, NEW s \in Subs, Drain(p, s) PROVE SendInv'
    BY <1>15 DEF Drain, TakeLock, Skipped
  <1>16. ASSUME NEW p \in Callers, NEW s \in Subs, Push(p, s) PROVE SendInv'
    BY <1>16 DEF Push
  <1>17. ASSUME NEW p \in Callers, FinishLoad(p) PROVE SendInv'
    BY <1>17 DEF FinishLoad, ClosedBy
  <1>18. ASSUME NEW p \in Callers, ReadShared(p) PROVE SendInv'
    BY <1>18 DEF ReadShared, Shared
  <1>19. ASSUME NEW p \in Callers, StopWaiting(p) PROVE SendInv'
    BY <1>19 DEF StopWaiting
  <1>20. ASSUME NEW p \in Callers, NEW s \in Subs, CloseSub(p, s) PROVE SendInv'
    BY <1>20 DEF CloseSub, CloseChannel
  <1>21. ASSUME NEW p \in Callers, FinishClosing(p) PROVE SendInv'
    BY <1>21 DEF FinishClosing
  <1>22. CASE UNCHANGED vars
    BY <1>22
  <1>23. QED
    BY <1>1, <1>2, <1>3, <1>4, <1>5, <1>6, <1>7, <1>8, <1>9, <1>10,
       <1>11, <1>12, <1>13, <1>14, <1>15, <1>16, <1>17, <1>18, <1>19,
       <1>20, <1>21, <1>22
       DEF Next, Environment, StartCall, Continue

(* The push of send never blocks and never hits a closed channel.          *)
THEOREM SendSafety == Spec => []SendIsSafe
  <1>1. SendInv => SendIsSafe
    BY DEF SendInv, SendIsSafe
  <1>2. QED
    BY <1>1, InitSend, StepSend, Typing, PTL DEF Spec

-----------------------------------------------------------------------------
(* Refinement.                                                             *)

(* The build that the session has in progress, as LedgerStore sees it.     *)
CurrentBuild == IF reloading THEN Loaded(done, snap[Leader]) ELSE NoLedger

LEMMA LeaderIsUnique ==
  ASSUME OneLoadAtATime, NEW p \in Callers, pc[p] = "load"
  PROVE  Leader = p
  BY DEF OneLoadAtATime, Leader

LEMMA NextLeaderIsUnique ==
  ASSUME OneLoadAtATime', NEW p \in Callers, pc'[p] = "load"
  PROVE  Leader' = p
  BY DEF OneLoadAtATime, Leader

(* A step that starts and ends no load leaves the build as it is.          *)
LEMMA SameBuild ==
  ASSUME OneLoadAtATime, OneLoadAtATime', UNCHANGED <<reloading, done, snap>>,
         \A p \in Callers : pc[p] = "load" => pc'[p] = "load"
  PROVE  CurrentBuild' = CurrentBuild
  <1>1. CASE reloading
    <2>1. PICK p \in Callers : pc[p] = "load"
      BY <1>1 DEF OneLoadAtATime
    <2>2. Leader = p /\ Leader' = p
      BY <2>1, LeaderIsUnique, NextLeaderIsUnique
    <2>3. QED
      BY <2>2 DEF CurrentBuild
  <1>2. CASE ~reloading
    BY <1>2 DEF CurrentBuild
  <1>3. QED
    BY <1>1, <1>2

(* An edit of the overlay is an edit of the store's input.                 *)
LEMMA EditsAreEdits ==
  ASSUME TypeOK, OneLoadAtATime, OneLoadAtATime', NEW f \in Paths,
         ClearOverlay(f) \/ \E c \in Contents : SetOverlay(f, c)
  PROVE  Store!Edit
  <1>1. overlay' \in Overlay
    BY EditsKeepTypes
  <1>2. UNCHANGED <<cached, closed, reloading, done, snap, pc>> /\ ~closed
    BY DEF ClearOverlay, SetOverlay, flightVars, localVars
  <1>3. CurrentBuild' = CurrentBuild
    BY <1>2, SameBuild
  <1>4. QED
    BY <1>1, <1>2, <1>3 DEF Store!Edit, CurrentBuild

(* Leading a load begins a build from the current overlay.                 *)
LEMMA LeadsBegin ==
  ASSUME TypeOK, OneLoadAtATime', NEW p \in Callers, NEW force \in BOOLEAN,
         LeadLoad(p, force)
  PROVE  Store!Begin
  <1>1. /\ ~closed /\ ~reloading /\ reloading' /\ done' = done + 1
        /\ snap' = [snap EXCEPT ![p] = overlay]
        /\ pc' = [pc EXCEPT ![p] = "load"]
        /\ UNCHANGED <<overlay, cached, closed>>
    BY DEF LeadLoad, StartLoad, BeginReload, BeginCall, sessionVars
  <1>2. pc'[p] = "load" /\ snap'[p] = overlay
    BY <1>1 DEF TypeOK
  <1>3. Leader' = p
    BY <1>2, NextLeaderIsUnique
  <1>4. CurrentBuild = NoLedger
    BY <1>1 DEF CurrentBuild
  <1>5. CurrentBuild' = [load |-> done + 1, overlay |-> overlay]
    BY <1>1, <1>2, <1>3 DEF CurrentBuild, Loaded
  <1>6. QED
    BY <1>1, <1>4, <1>5 DEF Store!Begin, CurrentBuild

(* Ending a load publishes its ledger or abandons it.                      *)
LEMMA CommitsPublish ==
  ASSUME TypeOK, OneLoadAtATime, CacheInv, NEW p \in Callers,
         NEW r \in Outcomes(p), CommitLoad(p, r)
  PROVE  Store!Publish \/ Store!Abandon
  <1>1. /\ pc[p] = "load" /\ ~reloading'
        /\ UNCHANGED <<overlay, done, closed>>
    BY DEF CommitLoad
  <1>2. reloading /\ Leader = p /\ load[p] = done
    BY <1>1, LeaderIsUnique DEF OneLoadAtATime, CacheInv
  <1>3. CurrentBuild = Loaded(load[p], snap[p]) /\ CurrentBuild' = NoLedger
    BY <1>1, <1>2 DEF CurrentBuild
  <1>4. CurrentBuild # NoLedger
    BY <1>3, NoLedgerAssumption DEF TypeOK, Loaded, Overlay
  <1>5. CASE Fills(r)
    <2>1. cached' = CurrentBuild
      BY <1>3, <1>5, OutcomesAreResults DEF CommitLoad, Fills
    <2>2. ~closed
      BY <1>5 DEF Fills
    <2>3. QED
      BY <1>1, <1>3, <1>4, <2>1, <2>2 DEF Store!Publish, CurrentBuild
  <1>6. CASE ~Fills(r)
    <2>1. cached' = cached
      BY <1>6 DEF CommitLoad
    <2>2. QED
      BY <1>1, <1>3, <1>4, <2>1 DEF Store!Abandon, CurrentBuild
  <1>7. QED
    BY <1>5, <1>6

(* Close shuts the store.                                                  *)
LEMMA CloseShuts ==
  ASSUME TypeOK, OneLoadAtATime, OneLoadAtATime', NEW p \in Callers, Close(p)
  PROVE  Store!Shut
  <1>1. /\ pc[p] = "idle" /\ closed' /\ pc' = [pc EXCEPT ![p] = "closing"]
        /\ UNCHANGED <<overlay, cached, reloading, done, snap>>
    BY DEF Close, BeginCall, flightVars
  <1>2. CurrentBuild' = CurrentBuild
    BY <1>1, SameBuild DEF TypeOK
  <1>3. QED
    BY <1>1, <1>2 DEF Store!Shut, CurrentBuild

LEMMA StepImplements ==
  ASSUME TypeOK, OneLoadAtATime, CacheInv, [Next]_vars
  PROVE  [Store!StoreNext]_(Store!storeVars)
  <1> DEFINE Goal == [Store!StoreNext]_(Store!storeVars)
  <1>inv. OneLoadAtATime'
    BY StepOneLoad
  <1>st. ASSUME UNCHANGED <<overlay, cached, closed, reloading, done, snap>>,
                \A p \in Callers : pc[p] = "load" => pc'[p] = "load"
         PROVE  Goal
    <2>1. CurrentBuild' = CurrentBuild
      BY <1>st, <1>inv, SameBuild
    <2>2. QED
      BY <1>st, <2>1 DEF Store!storeVars, CurrentBuild
  <1> pc \in [Callers -> Steps]
    BY DEF TypeOK
  <1> HIDE DEF Goal
  <1> USE DEF vars, sessionVars, flightVars, subVars, localVars, budgetVars,
          historyVars
  <1>1. ASSUME NEW f \in Paths, ClearOverlay(f) PROVE Goal
    BY <1>1, <1>inv, EditsAreEdits DEF Goal, Store!StoreNext
  <1>2. ASSUME NEW f \in Paths, NEW c \in Contents, SetOverlay(f, c) PROVE Goal
    BY <1>2, <1>inv, EditsAreEdits DEF Goal, Store!StoreNext
  <1>3. ASSUME NEW p \in Callers, CancelCtx(p) PROVE Goal
    BY <1>3, <1>st DEF CancelCtx
  <1>4. ASSUME NEW s \in Subs, Subscribe(s) PROVE Goal
    BY <1>4, <1>st DEF Subscribe, Registered
  <1>5. ASSUME NEW s \in Subs, Receive(s) PROVE Goal
    BY <1>5, <1>st DEF Receive
  <1>6. ASSUME NEW p \in Callers, RefuseCall(p) PROVE Goal
    BY <1>6, <1>st DEF RefuseCall, BeginReload, BeginCall
  <1>7. ASSUME NEW p \in Callers, NEW force \in BOOLEAN, ServeCached(p, force)
        PROVE Goal
    BY <1>7, <1>st DEF ServeCached, BeginReload, BeginCall
  <1>8. ASSUME NEW p \in Callers, NEW force \in BOOLEAN, JoinLoad(p, force)
        PROVE Goal
    BY <1>8, <1>st DEF JoinLoad, BeginReload, BeginCall
  <1>9. ASSUME NEW p \in Callers, NEW force \in BOOLEAN, LeadLoad(p, force)
        PROVE Goal
    BY <1>9, <1>inv, LeadsBegin DEF Goal, Store!StoreNext
  <1>10. ASSUME NEW p \in Callers, NEW s \in Subs, Cancel(p, s) PROVE Goal
    BY <1>10, <1>st DEF Cancel, BeginCall
  <1>11. ASSUME NEW p \in Callers, Close(p) PROVE Goal
    BY <1>11, <1>inv, CloseShuts DEF Goal, Store!StoreNext
  <1>12. ASSUME NEW p \in Callers, NEW r \in Outcomes(p), CommitLoad(p, r)
         PROVE Goal
    BY <1>12, CommitsPublish DEF Goal, Store!StoreNext
  <1>13. ASSUME NEW p \in Callers, CloneSubscribers(p) PROVE Goal
    BY <1>13, <1>st DEF CloneSubscribers
  <1>14. ASSUME NEW p \in Callers, NEW s \in Subs, SkipClosed(p, s) PROVE Goal
    BY <1>14, <1>st DEF SkipClosed, Skipped
  <1>15. ASSUME NEW p \in Callers, NEW s \in Subs, Drain(p, s) PROVE Goal
    BY <1>15, <1>st DEF Drain, TakeLock, Skipped
  <1>16. ASSUME NEW p \in Callers, NEW s \in Subs, Push(p, s) PROVE Goal
    BY <1>16, <1>st DEF Push
  <1>17. ASSUME NEW p \in Callers, FinishLoad(p) PROVE Goal
    BY <1>17, <1>st DEF FinishLoad, ClosedBy
  <1>18. ASSUME NEW p \in Callers, ReadShared(p) PROVE Goal
    BY <1>18, <1>st DEF ReadShared, Shared
  <1>19. ASSUME NEW p \in Callers, StopWaiting(p) PROVE Goal
    BY <1>19, <1>st DEF StopWaiting
  <1>20. ASSUME NEW p \in Callers, NEW s \in Subs, CloseSub(p, s) PROVE Goal
    BY <1>20, <1>st DEF CloseSub, CloseChannel
  <1>21. ASSUME NEW p \in Callers, FinishClosing(p) PROVE Goal
    BY <1>21, <1>st DEF FinishClosing
  <1>22. CASE UNCHANGED vars
    <2>1. UNCHANGED <<overlay, cached, closed, reloading, done, snap>> /\ pc' = pc
      BY <1>22
    <2>2. QED
      BY <2>1, <1>st DEF Goal
  <1>23. QED
    BY <1>1, <1>2, <1>3, <1>4, <1>5, <1>6, <1>7, <1>8, <1>9, <1>10,
       <1>11, <1>12, <1>13, <1>14, <1>15, <1>16, <1>17, <1>18, <1>19,
       <1>20, <1>21, <1>22
       DEF Next, Environment, StartCall, Continue, Goal

(* The session implements the ledger store: builds one at a time, ledgers  *)
(* published in the order of the builds and from the overlay each began    *)
(* with, nothing published after Close.                                    *)
THEOREM Implementation == Spec => ImplementsStore
  <1>1. Init => Store!StoreInit
    BY DEF Init, Store!StoreInit, Loaded
  <1>2. TypeOK /\ OneLoadAtATime /\ CacheInv /\ [Next]_vars
          => [Store!StoreNext]_(Store!storeVars)
    BY StepImplements
  <1>3. QED
    BY <1>1, <1>2, InitCache, StepCache, Typing, OneLoad, PTL
       DEF Spec, ImplementsStore, Store!StoreSpec

-----------------------------------------------------------------------------
(* Subscribers.                                                            *)

LEMMA InitLeaks == Init => NoSubscriberLeaks
  BY DEF Init, NoSubscriberLeaks

LEMMA StepLeaks == TypeOK /\ NoSubscriberLeaks /\ [Next]_vars => NoSubscriberLeaks'
  <1> SUFFICES ASSUME TypeOK, NoSubscriberLeaks, [Next]_vars
               PROVE  NoSubscriberLeaks'
    OBVIOUS
  <1> pc \in [Callers -> Steps] /\ todo \in [Callers -> SUBSET Subs]
      /\ subState \in [Subs -> {"new", "open", "closed"}]
      /\ subscribers \subseteq Subs
    BY DEF TypeOK
  <1> USE DEF NoSubscriberLeaks, vars, sessionVars, flightVars, subVars, localVars,
          budgetVars, historyVars
  <1>1. ASSUME NEW f \in Paths, ClearOverlay(f) PROVE NoSubscriberLeaks'
    BY <1>1 DEF ClearOverlay, Invalidate
  <1>2. ASSUME NEW f \in Paths, NEW c \in Contents, SetOverlay(f, c)
        PROVE NoSubscriberLeaks'
    BY <1>2 DEF SetOverlay, Invalidate
  <1>3. ASSUME NEW p \in Callers, CancelCtx(p) PROVE NoSubscriberLeaks'
    BY <1>3 DEF CancelCtx
  <1>4. ASSUME NEW s \in Subs, Subscribe(s) PROVE NoSubscriberLeaks'
    BY <1>4 DEF Subscribe, Registered
  <1>5. ASSUME NEW s \in Subs, Receive(s) PROVE NoSubscriberLeaks'
    BY <1>5 DEF Receive
  <1>6. ASSUME NEW p \in Callers, RefuseCall(p) PROVE NoSubscriberLeaks'
    BY <1>6 DEF RefuseCall, BeginReload, BeginCall
  <1>7. ASSUME NEW p \in Callers, NEW force \in BOOLEAN, ServeCached(p, force)
        PROVE NoSubscriberLeaks'
    BY <1>7 DEF ServeCached, BeginReload, BeginCall
  <1>8. ASSUME NEW p \in Callers, NEW force \in BOOLEAN, JoinLoad(p, force)
        PROVE NoSubscriberLeaks'
    BY <1>8 DEF JoinLoad, BeginReload, BeginCall
  <1>9. ASSUME NEW p \in Callers, NEW force \in BOOLEAN, LeadLoad(p, force)
        PROVE NoSubscriberLeaks'
    BY <1>9 DEF LeadLoad, StartLoad, BeginReload, BeginCall
  <1>10. ASSUME NEW p \in Callers, NEW s \in Subs, Cancel(p, s)
         PROVE NoSubscriberLeaks'
    BY <1>10 DEF Cancel, BeginCall
  <1>11. ASSUME NEW p \in Callers, Close(p) PROVE NoSubscriberLeaks'
    BY <1>11 DEF Close, BeginCall, Taken
  <1>12. ASSUME NEW p \in Callers, NEW r \in Outcomes(p), CommitLoad(p, r)
         PROVE NoSubscriberLeaks'
    BY <1>12 DEF CommitLoad, Fills, AfterCommit
  <1>13. ASSUME NEW p \in Callers, CloneSubscribers(p) PROVE NoSubscriberLeaks'
    BY <1>13 DEF CloneSubscribers
  <1>14. ASSUME NEW p \in Callers, NEW s \in Subs, SkipClosed(p, s)
         PROVE NoSubscriberLeaks'
    BY <1>14 DEF SkipClosed, Skipped
  <1>15. ASSUME NEW p \in Callers, NEW s \in Subs, Drain(p, s)
         PROVE NoSubscriberLeaks'
    BY <1>15 DEF Drain, TakeLock, Skipped
  <1>16. ASSUME NEW p \in Callers, NEW s \in Subs, Push(p, s)
         PROVE NoSubscriberLeaks'
    BY <1>16 DEF Push
  <1>17. ASSUME NEW p \in Callers, FinishLoad(p) PROVE NoSubscriberLeaks'
    BY <1>17 DEF FinishLoad, ClosedBy
  <1>18. ASSUME NEW p \in Callers, ReadShared(p) PROVE NoSubscriberLeaks'
    BY <1>18 DEF ReadShared, Shared
  <1>19. ASSUME NEW p \in Callers, StopWaiting(p) PROVE NoSubscriberLeaks'
    BY <1>19 DEF StopWaiting
  <1>20. ASSUME NEW p \in Callers, NEW s \in Subs, CloseSub(p, s)
         PROVE NoSubscriberLeaks'
    BY <1>20 DEF CloseSub, CloseChannel
  <1>21. ASSUME NEW p \in Callers, FinishClosing(p) PROVE NoSubscriberLeaks'
    BY <1>21 DEF FinishClosing
  <1>22. CASE UNCHANGED vars
    BY <1>22
  <1>23. QED
    BY <1>1, <1>2, <1>3, <1>4, <1>5, <1>6, <1>7, <1>8, <1>9, <1>10,
       <1>11, <1>12, <1>13, <1>14, <1>15, <1>16, <1>17, <1>18, <1>19,
       <1>20, <1>21, <1>22
       DEF Next, Environment, StartCall, Continue

(* cancel and Close may race for a subscriber: one of them closes its      *)
(* channel, and nobody registers with a closed session.                    *)
THEOREM NoLeaks == Spec => []NoSubscriberLeaks
  BY InitLeaks, StepLeaks, Typing, PTL DEF Spec

(* What broadcast relies on: subscribers are open, a goroutine that closes *)
(* a subscriber has unregistered it first, the leaders in flight lead      *)
(* different loads, and a leader has every subscriber that its load was    *)
(* promised to on its list or has pushed to it.                            *)
Announces(p) == pc[p] \in {"send", "push"} /\ result[p].err = "none"

BroadcastInv ==
  /\ \A s \in subscribers : subState[s] = "open"
  /\ \A p \in Callers : pc[p] = "closing" =>
       \A s \in todo[p] : s \notin subscribers /\ subState[s] # "new"
  /\ \A p \in Callers : Leads(p) => load[p] <= done
  /\ \A p, q \in Callers : Leads(p) /\ Leads(q) /\ load[p] = load[q] => p = q
  /\ \A p \in Callers : pc[p] = "broadcast" => result[p].err = "none"
  /\ \A p \in Callers : Announces(p) =>
       \A s \in subscribers :
         born[s] <= load[p] => s \in todo[p] \/ load[p] \in pushed[s]

LEMMA InitBroadcast == Init => BroadcastInv
  BY DEF Init, BroadcastInv, Leads, Announces

LEMMA StepBroadcast ==
  TypeOK /\ OneLoadAtATime /\ CacheInv /\ BroadcastInv /\ [Next]_vars => BroadcastInv'
  <1> SUFFICES ASSUME TypeOK, OneLoadAtATime, CacheInv, BroadcastInv, [Next]_vars
               PROVE  BroadcastInv'
    OBVIOUS
  <1> /\ pc \in [Callers -> Steps] /\ todo \in [Callers -> SUBSET Subs]
      /\ subState \in [Subs -> {"new", "open", "closed"}]
      /\ subscribers \subseteq Subs /\ load \in [Callers -> Nat] /\ done \in Nat
      /\ result \in [Callers -> Result] /\ born \in [Subs -> Nat]
      /\ pushed \in [Subs -> SUBSET Nat]
    BY DEF TypeOK
  <1> USE DEF BroadcastInv, Leads, Announces, vars, sessionVars, flightVars,
          subVars, localVars, budgetVars, historyVars
  <1>1. ASSUME NEW f \in Paths, ClearOverlay(f) PROVE BroadcastInv'
    BY <1>1 DEF ClearOverlay, Invalidate
  <1>2. ASSUME NEW f \in Paths, NEW c \in Contents, SetOverlay(f, c)
        PROVE BroadcastInv'
    BY <1>2 DEF SetOverlay, Invalidate
  <1>3. ASSUME NEW p \in Callers, CancelCtx(p) PROVE BroadcastInv'
    BY <1>3 DEF CancelCtx
  <1>4. ASSUME NEW s \in Subs, Subscribe(s) PROVE BroadcastInv'
    <2>1. CASE closed
      BY <1>4, <2>1 DEF Subscribe, Registered
    <2>2. CASE ~closed
      <3>1. ASSUME NEW p \in Callers, Announces(p) PROVE load[p] < born'[s]
        <4>1. load[p] <= done
          BY <3>1
        <4>2. CASE reloading
          <5>1. PICK q \in Callers : pc[q] = "load"
            BY <4>2 DEF OneLoadAtATime
          <5>2. load[q] = done /\ load[p] # done
            BY <3>1, <5>1 DEF CacheInv
          <5>3. born'[s] = done
            BY <1>4, <4>2 DEF Subscribe
          <5>4. QED
            BY <4>1, <5>2, <5>3
        <4>3. CASE ~reloading
          BY <1>4, <4>1, <4>3 DEF Subscribe
        <4>4. QED
          BY <4>2, <4>3
      <3>2. subscribers' = subscribers \cup {s} /\ subState'[s] = "open"
        BY <1>4, <2>2 DEF Subscribe, Registered
      <3>3. QED
        BY <1>4, <3>1, <3>2 DEF Subscribe
    <2>3. QED
      BY <2>1, <2>2
  <1>5. ASSUME NEW s \in Subs, Receive(s) PROVE BroadcastInv'
    BY <1>5 DEF Receive
  <1>6. ASSUME NEW p \in Callers, RefuseCall(p) PROVE BroadcastInv'
    BY <1>6 DEF RefuseCall, BeginReload, BeginCall
  <1>7. ASSUME NEW p \in Callers, NEW force \in BOOLEAN, ServeCached(p, force)
        PROVE BroadcastInv'
    BY <1>7 DEF ServeCached, BeginReload, BeginCall
  <1>8. ASSUME NEW p \in Callers, NEW force \in BOOLEAN, JoinLoad(p, force)
        PROVE BroadcastInv'
    BY <1>8 DEF JoinLoad, BeginReload, BeginCall
  <1>9. ASSUME NEW p \in Callers, NEW force \in BOOLEAN, LeadLoad(p, force)
        PROVE BroadcastInv'
    BY <1>9 DEF LeadLoad, StartLoad, BeginReload, BeginCall
  <1>10. ASSUME NEW p \in Callers, NEW s \in Subs, Cancel(p, s)
         PROVE BroadcastInv'
    BY <1>10 DEF Cancel, BeginCall
  <1>11. ASSUME NEW p \in Callers, Close(p) PROVE BroadcastInv'
    BY <1>11 DEF Close, BeginCall, Taken
  <1>12. ASSUME NEW p \in Callers, NEW r \in Outcomes(p), CommitLoad(p, r)
         PROVE BroadcastInv'
    BY <1>12 DEF CommitLoad, Fills, AfterCommit
  <1>13. ASSUME NEW p \in Callers, CloneSubscribers(p) PROVE BroadcastInv'
    BY <1>13 DEF CloneSubscribers
  <1>14. ASSUME NEW p \in Callers, NEW s \in Subs, SkipClosed(p, s)
         PROVE BroadcastInv'
    BY <1>14 DEF SkipClosed, Skipped
  <1>15. ASSUME NEW p \in Callers, NEW s \in Subs, Drain(p, s)
         PROVE BroadcastInv'
    BY <1>15 DEF Drain, TakeLock, Skipped
  <1>16. ASSUME NEW p \in Callers, NEW s \in Subs, Push(p, s)
         PROVE BroadcastInv'
    BY <1>16 DEF Push
  <1>17. ASSUME NEW p \in Callers, FinishLoad(p) PROVE BroadcastInv'
    BY <1>17 DEF FinishLoad, ClosedBy
  <1>18. ASSUME NEW p \in Callers, ReadShared(p) PROVE BroadcastInv'
    BY <1>18 DEF ReadShared, Shared
  <1>19. ASSUME NEW p \in Callers, StopWaiting(p) PROVE BroadcastInv'
    BY <1>19 DEF StopWaiting
  <1>20. ASSUME NEW p \in Callers, NEW s \in Subs, CloseSub(p, s)
         PROVE BroadcastInv'
    BY <1>20 DEF CloseSub, CloseChannel
  <1>21. ASSUME NEW p \in Callers, FinishClosing(p) PROVE BroadcastInv'
    BY <1>21 DEF FinishClosing
  <1>22. CASE UNCHANGED vars
    BY <1>22
  <1>23. QED
    BY <1>1, <1>2, <1>3, <1>4, <1>5, <1>6, <1>7, <1>8, <1>9, <1>10,
       <1>11, <1>12, <1>13, <1>14, <1>15, <1>16, <1>17, <1>18, <1>19,
       <1>20, <1>21, <1>22
       DEF Next, Environment, StartCall, Continue

(* A load that commits after Subscribe has returned is pushed to the       *)
(* subscriber before its leader returns, unless it was cancelled.          *)
THEOREM BroadcastReaches == Spec => []BroadcastReachesSubscribers
  <1>1. TypeOK /\ BroadcastInv => BroadcastReachesSubscribers
    BY DEF BroadcastInv, BroadcastReachesSubscribers, Announces, TypeOK
  <1>2. TypeOK /\ OneLoadAtATime /\ CacheInv /\ BroadcastInv /\ [Next]_vars
          => BroadcastInv'
    BY StepBroadcast
  <1>3. QED
    BY <1>1, <1>2, InitBroadcast, InitCache, StepCache, Typing, OneLoad, PTL
       DEF Spec

-----------------------------------------------------------------------------
(* Waiters.                                                                *)

LEMMA InitWakeup == Init => NoLostWakeup
  BY DEF Init, NoLostWakeup

LEMMA StepWakeup ==
  TypeOK /\ OneLoadAtATime /\ CacheInv /\ NoLostWakeup /\ [Next]_vars => NoLostWakeup'
  <1> SUFFICES ASSUME TypeOK, OneLoadAtATime, CacheInv, NoLostWakeup, [Next]_vars
               PROVE  NoLostWakeup'
    OBVIOUS
  <1> pc \in [Callers -> Steps] /\ load \in [Callers -> Nat]
    BY DEF TypeOK
  <1> USE DEF NoLostWakeup, Leads, vars, sessionVars, flightVars, subVars, localVars,
          budgetVars, historyVars
  <1>1. ASSUME NEW f \in Paths, ClearOverlay(f) PROVE NoLostWakeup'
    BY <1>1 DEF ClearOverlay, Invalidate
  <1>2. ASSUME NEW f \in Paths, NEW c \in Contents, SetOverlay(f, c)
        PROVE NoLostWakeup'
    BY <1>2 DEF SetOverlay, Invalidate
  <1>3. ASSUME NEW p \in Callers, CancelCtx(p) PROVE NoLostWakeup'
    BY <1>3 DEF CancelCtx
  <1>4. ASSUME NEW s \in Subs, Subscribe(s) PROVE NoLostWakeup'
    BY <1>4 DEF Subscribe, Registered
  <1>5. ASSUME NEW s \in Subs, Receive(s) PROVE NoLostWakeup'
    BY <1>5 DEF Receive
  <1>6. ASSUME NEW p \in Callers, RefuseCall(p) PROVE NoLostWakeup'
    BY <1>6 DEF RefuseCall, BeginReload, BeginCall
  <1>7. ASSUME NEW p \in Callers, NEW force \in BOOLEAN, ServeCached(p, force)
        PROVE NoLostWakeup'
    BY <1>7 DEF ServeCached, BeginReload, BeginCall
  <1>8. ASSUME NEW p \in Callers, NEW force \in BOOLEAN, JoinLoad(p, force)
        PROVE NoLostWakeup'
    BY <1>8 DEF JoinLoad, BeginReload, BeginCall, OneLoadAtATime, CacheInv
  <1>9. ASSUME NEW p \in Callers, NEW force \in BOOLEAN, LeadLoad(p, force)
        PROVE NoLostWakeup'
    BY <1>9 DEF LeadLoad, StartLoad, BeginReload, BeginCall
  <1>10. ASSUME NEW p \in Callers, NEW s \in Subs, Cancel(p, s)
         PROVE NoLostWakeup'
    BY <1>10 DEF Cancel, BeginCall
  <1>11. ASSUME NEW p \in Callers, Close(p) PROVE NoLostWakeup'
    BY <1>11 DEF Close, BeginCall, Taken
  <1>12. ASSUME NEW p \in Callers, NEW r \in Outcomes(p), CommitLoad(p, r)
         PROVE NoLostWakeup'
    BY <1>12 DEF CommitLoad, Fills, AfterCommit
  <1>13. ASSUME NEW p \in Callers, CloneSubscribers(p) PROVE NoLostWakeup'
    BY <1>13 DEF CloneSubscribers
  <1>14. ASSUME NEW p \in Callers, NEW s \in Subs, SkipClosed(p, s)
         PROVE NoLostWakeup'
    BY <1>14 DEF SkipClosed, Skipped
  <1>15. ASSUME NEW p \in Callers, NEW s \in Subs, Drain(p, s)
         PROVE NoLostWakeup'
    BY <1>15 DEF Drain, TakeLock, Skipped
  <1>16. ASSUME NEW p \in Callers, NEW s \in Subs, Push(p, s)
         PROVE NoLostWakeup'
    BY <1>16 DEF Push
  <1>17. ASSUME NEW p \in Callers, FinishLoad(p) PROVE NoLostWakeup'
    BY <1>17 DEF FinishLoad, ClosedBy
  <1>18. ASSUME NEW p \in Callers, ReadShared(p) PROVE NoLostWakeup'
    BY <1>18 DEF ReadShared, Shared
  <1>19. ASSUME NEW p \in Callers, StopWaiting(p) PROVE NoLostWakeup'
    BY <1>19 DEF StopWaiting
  <1>20. ASSUME NEW p \in Callers, NEW s \in Subs, CloseSub(p, s)
         PROVE NoLostWakeup'
    BY <1>20 DEF CloseSub, CloseChannel
  <1>21. ASSUME NEW p \in Callers, FinishClosing(p) PROVE NoLostWakeup'
    BY <1>21 DEF FinishClosing
  <1>22. CASE UNCHANGED vars
    BY <1>22
  <1>23. QED
    BY <1>1, <1>2, <1>3, <1>4, <1>5, <1>6, <1>7, <1>8, <1>9, <1>10,
       <1>11, <1>12, <1>13, <1>14, <1>15, <1>16, <1>17, <1>18, <1>19,
       <1>20, <1>21, <1>22
       DEF Next, Environment, StartCall, Continue

(* A waiter's done channel is closed, or its leader is still under way.    *)
THEOREM Wakeup == Spec => []NoLostWakeup
  <1>1. TypeOK /\ OneLoadAtATime /\ CacheInv /\ NoLostWakeup /\ [Next]_vars
          => NoLostWakeup'
    BY StepWakeup
  <1>2. QED
    BY <1>1, InitWakeup, InitCache, StepCache, Typing, OneLoad, PTL DEF Spec

(* The shared result is at least as new as every load whose done channel   *)
(* is closed, or whose leader has committed and is about to close it.      *)
JoinInv ==
  /\ \A n \in closedDone : n <= done
  /\ last.ledger # NoLedger =>
       /\ \A n \in closedDone : n <= last.ledger.load
       /\ \A p \in Callers : Leads(p) /\ pc[p] # "load" => load[p] <= last.ledger.load
  /\ \A p \in Callers :
       pc[p] \notin {"wait", "load"} /\ load[p] # 0 /\ result[p].ledger # NoLedger
         => load[p] <= result[p].ledger.load

LEMMA InitJoin == Init => JoinInv
  BY DEF Init, JoinInv, Answer

LEMMA OutcomeLoads ==
  ASSUME NEW p \in Callers, NEW r \in Outcomes(p), r.ledger # NoLedger
  PROVE  r.ledger.load = load[p]
  BY DEF Outcomes, Answer, Loaded

LEMMA StepJoin ==
  TypeOK /\ OneLoadAtATime /\ CacheInv /\ BroadcastInv /\ JoinInv /\ [Next]_vars
    => JoinInv'
  <1> SUFFICES ASSUME TypeOK, OneLoadAtATime, CacheInv, BroadcastInv, JoinInv,
                      [Next]_vars
               PROVE  JoinInv'
    OBVIOUS
  <1> /\ pc \in [Callers -> Steps] /\ load \in [Callers -> Nat] /\ done \in Nat
      /\ result \in [Callers -> Result] /\ closedDone \subseteq Nat
    BY DEF TypeOK
  <1>led. last.ledger # NoLedger => last.ledger.load \in Nat
    BY DEF TypeOK, Result, Ledger
  <1>max. \A p \in Callers : Leads(p) => load[p] <= done
    BY DEF BroadcastInv
  <1>top. \A p \in Callers : pc[p] = "load" => load[p] = done
    BY DEF CacheInv
  <1> USE DEF JoinInv, Leads, vars, sessionVars, flightVars, subVars, localVars,
          budgetVars, historyVars
  <1>1. ASSUME NEW f \in Paths, ClearOverlay(f) PROVE JoinInv'
    BY <1>1 DEF ClearOverlay, Invalidate
  <1>2. ASSUME NEW f \in Paths, NEW c \in Contents, SetOverlay(f, c)
        PROVE JoinInv'
    BY <1>2 DEF SetOverlay, Invalidate
  <1>3. ASSUME NEW p \in Callers, CancelCtx(p) PROVE JoinInv'
    BY <1>3 DEF CancelCtx
  <1>4. ASSUME NEW s \in Subs, Subscribe(s) PROVE JoinInv'
    BY <1>4 DEF Subscribe, Registered
  <1>5. ASSUME NEW s \in Subs, Receive(s) PROVE JoinInv'
    BY <1>5 DEF Receive
  <1>6. ASSUME NEW p \in Callers, RefuseCall(p) PROVE JoinInv'
    BY <1>6 DEF RefuseCall, BeginReload, BeginCall, Answer
  <1>7. ASSUME NEW p \in Callers, NEW force \in BOOLEAN, ServeCached(p, force)
        PROVE JoinInv'
    BY <1>7 DEF ServeCached, BeginReload, BeginCall
  <1>8. ASSUME NEW p \in Callers, NEW force \in BOOLEAN, JoinLoad(p, force)
        PROVE JoinInv'
    BY <1>8 DEF JoinLoad, BeginReload, BeginCall
  <1>9. ASSUME NEW p \in Callers, NEW force \in BOOLEAN, LeadLoad(p, force)
        PROVE JoinInv'
    BY <1>9 DEF LeadLoad, StartLoad, BeginReload, BeginCall
  <1>10. ASSUME NEW p \in Callers, NEW s \in Subs, Cancel(p, s) PROVE JoinInv'
    BY <1>10 DEF Cancel, BeginCall
  <1>11. ASSUME NEW p \in Callers, Close(p) PROVE JoinInv'
    BY <1>11 DEF Close, BeginCall, Taken
  <1>12. ASSUME NEW p \in Callers, NEW r \in Outcomes(p), CommitLoad(p, r)
         PROVE JoinInv'
    BY <1>12, OutcomeLoads, <1>max, <1>top DEF CommitLoad, Fills, AfterCommit
  <1>13. ASSUME NEW p \in Callers, CloneSubscribers(p) PROVE JoinInv'
    BY <1>13 DEF CloneSubscribers
  <1>14. ASSUME NEW p \in Callers, NEW s \in Subs, SkipClosed(p, s)
         PROVE JoinInv'
    BY <1>14 DEF SkipClosed, Skipped
  <1>15. ASSUME NEW p \in Callers, NEW s \in Subs, Drain(p, s) PROVE JoinInv'
    BY <1>15 DEF Drain, TakeLock, Skipped
  <1>16. ASSUME NEW p \in Callers, NEW s \in Subs, Push(p, s) PROVE JoinInv'
    BY <1>16 DEF Push
  <1>17. ASSUME NEW p \in Callers, FinishLoad(p) PROVE JoinInv'
    BY <1>17, <1>max, <1>led DEF FinishLoad, ClosedBy
  <1>18. ASSUME NEW p \in Callers, ReadShared(p) PROVE JoinInv'
    BY <1>18, <1>led DEF ReadShared, Shared
  <1>19. ASSUME NEW p \in Callers, StopWaiting(p) PROVE JoinInv'
    BY <1>19 DEF StopWaiting, Answer
  <1>20. ASSUME NEW p \in Callers, NEW s \in Subs, CloseSub(p, s) PROVE JoinInv'
    BY <1>20 DEF CloseSub, CloseChannel
  <1>21. ASSUME NEW p \in Callers, FinishClosing(p) PROVE JoinInv'
    BY <1>21 DEF FinishClosing
  <1>22. CASE UNCHANGED vars
    BY <1>22
  <1>23. QED
    BY <1>1, <1>2, <1>3, <1>4, <1>5, <1>6, <1>7, <1>8, <1>9, <1>10,
       <1>11, <1>12, <1>13, <1>14, <1>15, <1>16, <1>17, <1>18, <1>19,
       <1>20, <1>21, <1>22
       DEF Next, Environment, StartCall, Continue

(* A caller that joined a load is not handed a ledger from before it.      *)
THEOREM JoinedLedger == Spec => []JoinedLedgerIsNotOlder
  <1>1. TypeOK /\ JoinInv => JoinedLedgerIsNotOlder
    <2> SUFFICES ASSUME TypeOK, JoinInv, NEW p \in Callers, pc[p] = "idle",
                        load[p] # 0, result[p].ledger # NoLedger
                 PROVE  result[p].ledger.load >= load[p]
      BY DEF JoinedLedgerIsNotOlder
    <2>1. load[p] \in Nat /\ result[p].ledger.load \in Nat
      BY DEF TypeOK, Result, Ledger
    <2>2. load[p] <= result[p].ledger.load
      BY DEF JoinInv
    <2>3. QED
      BY <2>1, <2>2
  <1>2. TypeOK /\ OneLoadAtATime /\ CacheInv /\ BroadcastInv /\ [Next]_vars
          => BroadcastInv'
    BY StepBroadcast
  <1>3. TypeOK /\ OneLoadAtATime /\ CacheInv /\ BroadcastInv /\ JoinInv /\ [Next]_vars
          => JoinInv'
    BY StepJoin
  <1>4. QED
    BY <1>1, <1>2, <1>3, InitJoin, InitBroadcast, InitCache, StepCache, Typing,
       OneLoad, PTL DEF Spec
=============================================================================
