------------------------------- MODULE Session -------------------------------
(***************************************************************************)
(* The ledger session of pkg/session: one cached ledger, invalidated by    *)
(* editor overlays, rebuilt by at most one load at a time on behalf of all *)
(* the goroutines that ask for it, and announced to subscribers.           *)
(*                                                                         *)
(* Goroutines are the members of Callers.  Everything the code does        *)
(* between s.mu.Lock() and s.mu.Unlock() is one step; so is a critical     *)
(* section of a subscriber's own mutex, except that send keeps that mutex  *)
(* over two steps (drain, then push), because the receiver may take the    *)
(* buffered value in between.  The loader runs outside every lock.         *)
(*                                                                         *)
(* A ledger is known by the load that built it (0 is the eager load of     *)
(* New) and the overlay that load read.  The done channel of a load is     *)
(* known by the load's number; `done` is thus the number of the latest     *)
(* load started.                                                           *)
(***************************************************************************)
EXTENDS Naturals

CONSTANTS
  Callers,    \* goroutines that call the session's methods
  Subs,       \* subscriptions that Subscribe can hand out
  Paths,      \* absolute paths that can carry an overlay
  Contents,   \* buffer contents
  NoContent,  \* the path has no overlay entry
  NoLedger,   \* a nil *ast.Ledger
  Free,       \* an unlocked subscriber mutex
  MaxCalls,   \* bound: calls of Snapshot, Reload, cancel and Close
  MaxEdits,   \* bound: overlay writes
  MaxOps      \* bound: calls and overlay writes together

ASSUME BoundsAssumption == MaxCalls \in Nat /\ MaxEdits \in Nat /\ MaxOps \in Nat
ASSUME FreeAssumption   == Free \notin Callers
ASSUME NoContentAssumption == NoContent \notin Contents
ASSUME NoLedgerAssumption ==
  NoLedger \notin [load : Nat, overlay : [Paths -> Contents \cup {NoContent}]]

VARIABLES
  overlay, cached, valid, closed, subscribers,   \* Session, under s.mu
  reloading, done, last,                         \* Session, coalescing state
  closedDone,                                    \* done channels already closed
  subState, subMu, ch,                           \* the subscribers
  pc, load, snap, result, todo,                  \* locals of each goroutine
  ctxDone,                                       \* the call's ctx is cancelled
  calls, edits,                                  \* budgets
  overlapped, born, pushed                       \* history

sessionVars == <<overlay, cached, valid, closed, subscribers>>
flightVars  == <<reloading, done, last, closedDone>>
subVars     == <<subState, subMu, ch>>
localVars   == <<pc, load, snap, result, todo, ctxDone>>
budgetVars  == <<calls, edits>>
historyVars == <<overlapped, born, pushed>>
vars == <<sessionVars, flightVars, subVars, localVars, budgetVars, historyVars>>

-----------------------------------------------------------------------------
Overlay == [Paths -> Contents \cup {NoContent}]
Ledger  == [load : Nat, overlay : Overlay]
Errors  == {"none", "canceled", "failed", "closed"}
Result  == [err : Errors, ledger : Ledger \cup {NoLedger}]
Steps   == {"idle", "wait", "load", "broadcast", "send", "push", "closing"}

EmptyCh == 0    \* load 0, the load of New, is never broadcast
NoOverlay == [f \in Paths |-> NoContent]
Loaded(n, o) == [load |-> n, overlay |-> o]
Answer(e, l) == [err |-> e, ledger |-> l]

(* The overlay has changed: s.valid = false.  A load in flight has already *)
(* copied the old overlay; the history variable remembers that it was      *)
(* overtaken.                                                              *)
Invalidate_KeepsValid ==        \* mutant: the cache is not marked stale
  /\ valid' = valid
  /\ overlapped' = IF reloading THEN overlapped \cup {done} ELSE overlapped

Invalidate ==
  /\ valid' = FALSE
  /\ overlapped' = IF reloading THEN overlapped \cup {done} ELSE overlapped

Init ==
  /\ overlay = NoOverlay
  /\ cached = Loaded(0, NoOverlay)
  /\ valid = TRUE
  /\ closed = FALSE
  /\ subscribers = {}
  /\ reloading = FALSE
  /\ done = 0
  /\ last = Answer("none", NoLedger)
  /\ closedDone = {}
  /\ subState = [s \in Subs |-> "new"]
  /\ subMu = [s \in Subs |-> Free]
  /\ ch = [s \in Subs |-> EmptyCh]
  /\ pc = [p \in Callers |-> "idle"]
  /\ load = [p \in Callers |-> 0]
  /\ snap = [p \in Callers |-> NoOverlay]
  /\ result = [p \in Callers |-> Answer("none", NoLedger)]
  /\ todo = [p \in Callers |-> {}]
  /\ ctxDone = [p \in Callers |-> FALSE]
  /\ calls = 0
  /\ edits = 0
  /\ overlapped = {}
  /\ born = [s \in Subs |-> 0]
  /\ pushed = [s \in Subs |-> {}]

-----------------------------------------------------------------------------
(* Overlay edits.  After Close both return ErrSessionClosed and change     *)
(* nothing; ClearOverlay of a path without an entry changes nothing.       *)

SetOverlay(f, c) ==
  /\ ~closed
  /\ edits < MaxEdits /\ calls + edits < MaxOps
  /\ overlay' = [overlay EXCEPT ![f] = c]
  /\ Invalidate
  /\ edits' = edits + 1
  /\ UNCHANGED <<cached, closed, subscribers, flightVars, subVars, localVars,
                 calls, born, pushed>>

ClearOverlay(f) ==
  /\ ~closed
  /\ edits < MaxEdits /\ calls + edits < MaxOps
  /\ overlay[f] # NoContent
  /\ overlay' = [overlay EXCEPT ![f] = NoContent]
  /\ Invalidate
  /\ edits' = edits + 1
  /\ UNCHANGED <<cached, closed, subscribers, flightVars, subVars, localVars,
                 calls, born, pushed>>

-----------------------------------------------------------------------------
(* reload(ctx, force): Snapshot is force = FALSE, Reload is force = TRUE.  *)

BeginCall(p) ==
  /\ pc[p] = "idle"
  /\ calls < MaxCalls /\ calls + edits < MaxOps
  /\ calls' = calls + 1

BeginReload(p) ==
  /\ BeginCall(p)
  /\ ctxDone' = [ctxDone EXCEPT ![p] = FALSE]

(* The first critical section of reload, by the way it leaves it: refused  *)
(* because the session is closed, ...                                      *)
RefuseCall(p) ==
  /\ BeginReload(p)
  /\ closed
  /\ result' = [result EXCEPT ![p] = Answer("closed", NoLedger)]
  /\ load' = [load EXCEPT ![p] = 0]
  /\ UNCHANGED <<sessionVars, flightVars, subVars, pc, snap, todo, edits,
                 historyVars>>

(* ... served from a valid cache, ...                                      *)
ServeCached(p, force) ==
  /\ BeginReload(p)
  /\ ~closed /\ ~force /\ valid
  /\ result' = [result EXCEPT ![p] = Answer("none", cached)]
  /\ load' = [load EXCEPT ![p] = 0]
  /\ UNCHANGED <<sessionVars, flightVars, subVars, pc, snap, todo, edits,
                 historyVars>>

(* ... waiting for the load in flight, ...                                 *)
JoinLoad(p, force) ==
  /\ BeginReload(p)
  /\ ~closed /\ (force \/ ~valid) /\ reloading
  /\ load' = [load EXCEPT ![p] = done]
  /\ pc' = [pc EXCEPT ![p] = "wait"]
  /\ UNCHANGED <<sessionVars, flightVars, subVars, snap, result, todo, edits,
                 historyVars>>

(* ... or leading a load of its own, with a copy of the overlay.           *)
StartLoad(p) ==
  /\ reloading' = TRUE
  /\ done' = done + 1
  /\ load' = [load EXCEPT ![p] = done + 1]
  /\ snap' = [snap EXCEPT ![p] = overlay]
  /\ pc' = [pc EXCEPT ![p] = "load"]
  /\ UNCHANGED <<sessionVars, last, closedDone, subVars, result, todo, edits,
                 historyVars>>

LeadLoad(p, force) ==
  BeginReload(p) /\ ~closed /\ (force \/ ~valid) /\ ~reloading /\ StartLoad(p)

(* What a load can return: a ledger; a partial ledger with ctx.Err(), when *)
(* the pipeline notices the cancelled ctx; or a failure, before the        *)
(* pipeline (no ledger) or in a plugin (a partial one).                    *)
Outcomes(p) ==
  LET built == Loaded(load[p], snap[p])
  IN  {Answer("none", built), Answer("failed", NoLedger), Answer("failed", built)}
        \cup {r \in {Answer("canceled", built)} : ctxDone[p]}

(* A load that succeeds fills the cache, unless the session was closed     *)
(* meanwhile; and only such a load is broadcast.                           *)
Fills_Closed(r)  == r.err = "none"      \* mutant: s.closed is not looked at
Fills(r)         == r.err = "none" /\ ~closed
AfterCommit_Returns(r) ==               \* mutant: return err without close(done)
  IF r.err = "none" THEN "broadcast" ELSE "idle"
AfterCommit(r)   == IF r.err = "none" THEN "broadcast" ELSE "send"

(* The loader returns and the second critical section records its outcome. *)
CommitLoad(p, r) ==
  /\ pc[p] = "load"
  /\ r \in Outcomes(p)
  /\ reloading' = FALSE
  /\ last' = r
  /\ result' = [result EXCEPT ![p] = r]
  /\ IF Fills(r)
       THEN cached' = r.ledger /\ valid' = TRUE
       ELSE UNCHANGED <<cached, valid>>
  /\ pc' = [pc EXCEPT ![p] = AfterCommit(r)]
  /\ UNCHANGED <<overlay, closed, subscribers, done, closedDone, subVars, load,
                 snap, todo, ctxDone, budgetVars, historyVars>>

(* broadcast clones the subscriber list under s.mu ...                     *)
CloneSubscribers(p) ==
  /\ pc[p] = "broadcast"
  /\ todo' = [todo EXCEPT ![p] = subscribers]
  /\ pc' = [pc EXCEPT ![p] = "send"]
  /\ UNCHANGED <<sessionVars, flightVars, subVars, load, snap, result, ctxDone,
                 budgetVars, historyVars>>

(* ... and visits each.  send locks sub.mu; a closed subscriber is skipped, *)
Skipped_Full(s) ==                         \* mutant: an unread value wins
  subState[s] = "closed" \/ ch[s] # EmptyCh
Skipped(s) == subState[s] = "closed"

SkipClosed(p, s) ==
  /\ pc[p] = "send" /\ s \in todo[p]
  /\ subMu[s] = Free
  /\ Skipped(s)
  /\ todo' = [todo EXCEPT ![p] = @ \ {s}]
  /\ UNCHANGED <<sessionVars, flightVars, subVars, pc, load, snap, result,
                 ctxDone, budgetVars, historyVars>>

(* an open one has a value left unread dropped, ...                        *)
TakeLock(p, s) ==
  /\ pc[p] = "send" /\ s \in todo[p]
  /\ subMu[s] = Free
  /\ ~Skipped(s)
  /\ subMu' = [subMu EXCEPT ![s] = p]
  /\ pc' = [pc EXCEPT ![p] = "push"]
  /\ UNCHANGED <<sessionVars, flightVars, subState, load, snap, result, todo,
                 ctxDone, budgetVars, historyVars>>

Drain(p, s) == TakeLock(p, s) /\ ch' = [ch EXCEPT ![s] = EmptyCh]

(* ... and then the ledger pushed, which waits while the channel is full.  *)
Push(p, s) ==
  /\ pc[p] = "push" /\ subMu[s] = p
  /\ ch[s] = EmptyCh
  /\ ch' = [ch EXCEPT ![s] = load[p]]
  /\ pushed' = [pushed EXCEPT ![s] = @ \cup {load[p]}]
  /\ subMu' = [subMu EXCEPT ![s] = Free]
  /\ todo' = [todo EXCEPT ![p] = @ \ {s}]
  /\ pc' = [pc EXCEPT ![p] = "send"]
  /\ UNCHANGED <<sessionVars, flightVars, subState, load, snap, result, ctxDone,
                 budgetVars, overlapped, born>>

(* Last, the leader wakes the callers that joined its load and returns.    *)
ClosedBy_Forgets(p) == closedDone          \* mutant: close(done) is missing
ClosedBy(p) == closedDone \cup {load[p]}

FinishLoad(p) ==
  /\ pc[p] = "send" /\ todo[p] = {}
  /\ closedDone' = ClosedBy(p)
  /\ pc' = [pc EXCEPT ![p] = "idle"]
  /\ UNCHANGED <<sessionVars, reloading, done, last, subVars, load, snap, result,
                 todo, ctxDone, budgetVars, historyVars>>

(* A waiter that sees done closed reads lastResult and lastErr.            *)
Shared_Cached == Answer("none", cached)   \* mutant: the cache is returned
Shared == last

ReadShared(p) ==
  /\ pc[p] = "wait"
  /\ load[p] \in closedDone
  /\ result' = [result EXCEPT ![p] = Shared]
  /\ pc' = [pc EXCEPT ![p] = "idle"]
  /\ UNCHANGED <<sessionVars, flightVars, subVars, load, snap, todo, ctxDone,
                 budgetVars, historyVars>>

(* A waiter whose own ctx is cancelled stops waiting.                      *)
StopWaiting(p) ==
  /\ pc[p] = "wait"
  /\ ctxDone[p]
  /\ result' = [result EXCEPT ![p] = Answer("canceled", NoLedger)]
  /\ pc' = [pc EXCEPT ![p] = "idle"]
  /\ UNCHANGED <<sessionVars, flightVars, subVars, load, snap, todo, ctxDone,
                 budgetVars, historyVars>>

(* The environment cancels the ctx of a call in progress.                  *)
CancelCtx(p) ==
  /\ pc[p] \in {"wait", "load"}
  /\ ~ctxDone[p]
  /\ ctxDone' = [ctxDone EXCEPT ![p] = TRUE]
  /\ UNCHANGED <<sessionVars, flightVars, subVars, pc, load, snap, result, todo,
                 budgetVars, historyVars>>

-----------------------------------------------------------------------------
(* Subscriptions.                                                          *)

(* Subscribe registers a fresh channel; on a closed session the channel is *)
(* returned already closed and is not registered.  The first load it is    *)
(* promised is the next one to commit.                                     *)
Registered_Always(s) == {s}               \* mutant: closed is not looked at
Registered(s) == IF closed THEN {} ELSE {s}

Subscribe(s) ==
  /\ subState[s] = "new"
  /\ subState' = [subState EXCEPT ![s] = IF closed THEN "closed" ELSE "open"]
  /\ subscribers' = subscribers \cup Registered(s)
  /\ born' = [born EXCEPT ![s] = IF reloading THEN done ELSE done + 1]
  /\ UNCHANGED <<overlay, cached, valid, closed, flightVars, subMu, ch, localVars,
                 budgetVars, overlapped, pushed>>

(* The subscriber takes the buffered ledger, which a closed channel still  *)
(* holds.                                                                  *)
Receive(s) ==
  /\ ch[s] # EmptyCh
  /\ ch' = [ch EXCEPT ![s] = EmptyCh]
  /\ UNCHANGED <<sessionVars, flightVars, subState, subMu, localVars, budgetVars,
                 historyVars>>

(* cancel removes the subscriber under s.mu, by any goroutine, any number  *)
(* of times; it closes the channel once the lock is released.              *)
Cancel(p, s) ==
  /\ BeginCall(p)
  /\ subState[s] # "new"
  /\ subscribers' = subscribers \ {s}
  /\ todo' = [todo EXCEPT ![p] = {s}]
  /\ pc' = [pc EXCEPT ![p] = "closing"]
  /\ UNCHANGED <<overlay, cached, valid, closed, flightVars, subVars, load, snap,
                 result, ctxDone, edits, historyVars>>

(* Close marks the session closed and takes the subscriber list away.      *)
Taken == subscribers

Close(p) ==
  /\ BeginCall(p)
  /\ closed' = TRUE
  /\ subscribers' = {}
  /\ todo' = [todo EXCEPT ![p] = Taken]
  /\ pc' = [pc EXCEPT ![p] = "closing"]
  /\ UNCHANGED <<overlay, cached, valid, flightVars, subVars, load, snap, result,
                 ctxDone, edits, historyVars>>

(* subscriber.close: sync.Once and sub.mu make every closer but the first  *)
(* find the channel closed.                                                *)
CloseChannel(p, s) ==
  /\ pc[p] = "closing" /\ s \in todo[p]
  /\ subState' = [subState EXCEPT ![s] = "closed"]
  /\ todo' = [todo EXCEPT ![p] = @ \ {s}]
  /\ UNCHANGED <<sessionVars, flightVars, subMu, ch, pc, load, snap, result,
                 ctxDone, budgetVars, historyVars>>

CloseSub_NoLock(p, s) == CloseChannel(p, s)   \* mutant: sub.mu is not taken

CloseSub(p, s) == subMu[s] = Free /\ CloseChannel(p, s)

FinishClosing(p) ==
  /\ pc[p] = "closing" /\ todo[p] = {}
  /\ pc' = [pc EXCEPT ![p] = "idle"]
  /\ UNCHANGED <<sessionVars, flightVars, subVars, load, snap, result, todo,
                 ctxDone, budgetVars, historyVars>>

-----------------------------------------------------------------------------
(* What the caller starts, and what runs once it is started.               *)
StartCall(p) ==
  \/ RefuseCall(p)
  \/ \E force \in BOOLEAN :
       ServeCached(p, force) \/ JoinLoad(p, force) \/ LeadLoad(p, force)
  \/ \E s \in Subs : Cancel(p, s)
  \/ Close(p)

Continue(p) ==
  \/ \E r \in Outcomes(p) : CommitLoad(p, r)
  \/ CloneSubscribers(p)
  \/ \E s \in Subs : SkipClosed(p, s) \/ Drain(p, s) \/ Push(p, s)
  \/ FinishLoad(p)
  \/ ReadShared(p)
  \/ StopWaiting(p)
  \/ \E s \in Subs : CloseSub(p, s)
  \/ FinishClosing(p)

Environment ==
  \/ \E f \in Paths : ClearOverlay(f) \/ \E c \in Contents : SetOverlay(f, c)
  \/ \E p \in Callers : CancelCtx(p)
  \/ \E s \in Subs : Subscribe(s) \/ Receive(s)

Next == Environment \/ \E p \in Callers : StartCall(p) \/ Continue(p)

Spec == Init /\ [][Next]_vars

(* The scheduler runs every goroutine that can run, and loads terminate.   *)
(* Nobody is obliged to call the session, nor to receive.                  *)
FairSpec == Spec /\ \A p \in Callers : WF_vars(Continue(p))

-----------------------------------------------------------------------------
(* The types of the variables.                                             *)
TypeOK ==
  /\ overlay \in Overlay /\ cached \in Ledger
  /\ valid \in BOOLEAN /\ closed \in BOOLEAN /\ reloading \in BOOLEAN
  /\ subscribers \subseteq Subs
  /\ done \in Nat /\ last \in Result /\ closedDone \subseteq Nat
  /\ subState \in [Subs -> {"new", "open", "closed"}]
  /\ subMu \in [Subs -> Callers \cup {Free}]
  /\ ch \in [Subs -> Nat]
  /\ pc \in [Callers -> Steps] /\ load \in [Callers -> Nat]
  /\ snap \in [Callers -> Overlay] /\ result \in [Callers -> Result]
  /\ todo \in [Callers -> SUBSET Subs] /\ ctxDone \in [Callers -> BOOLEAN]
  /\ calls \in 0..MaxCalls /\ edits \in 0..MaxEdits
  /\ overlapped \subseteq Nat
  /\ born \in [Subs -> Nat] /\ pushed \in [Subs -> SUBSET Nat]

Leads(p) == pc[p] \in {"load", "broadcast", "send", "push"}

(* At most one loader call runs at a time, although the flag that says so  *)
(* is cleared before the leader has announced its ledger and closed done.  *)
OneLoadAtATime ==
  /\ \A p, q \in Callers : pc[p] = "load" /\ pc[q] = "load" => p = q
  /\ reloading <=> \E p \in Callers : pc[p] = "load"

(* The push of send finds its channel open and empty, so it neither blocks *)
(* while holding sub.mu nor panics, whoever cancels, closes, receives or   *)
(* broadcasts at the same time.                                            *)
SendIsSafe ==
  \A p \in Callers, s \in Subs :
    pc[p] = "push" /\ subMu[s] = p => ch[s] = EmptyCh /\ subState[s] = "open"

(* A cache marked valid reflects the current overlay, unless an overlay    *)
(* edit overtook the very load that filled it.                             *)
StaleOnlyIfOvertaken ==
  valid /\ cached.load \notin overlapped => cached.overlay = overlay

(* A caller that joined a load never gets a ledger that was built by an    *)
(* earlier load than the one it joined.                                    *)
JoinedLedgerIsNotOlder ==
  \A p \in Callers :
    pc[p] = "idle" /\ load[p] # 0 /\ result[p].ledger # NoLedger
      => result[p].ledger.load >= load[p]

(* A waiter always has a done channel that is closed already, or a leader  *)
(* on its way to close it.                                                 *)
NoLostWakeup ==
  \A p \in Callers :
    pc[p] = "wait" => \/ load[p] \in closedDone
                      \/ \E q \in Callers : Leads(q) /\ load[q] = load[p]

(* A successful load that committed after Subscribe returned has been      *)
(* pushed to the subscriber by the time its leader wakes the waiters,      *)
(* unless the subscription was cancelled meanwhile.                        *)
BroadcastReachesSubscribers ==
  \A p \in Callers :
    pc[p] = "send" /\ todo[p] = {} /\ result[p].err = "none"
      => \A s \in subscribers : born[s] <= load[p] => load[p] \in pushed[s]

(* An open channel is registered or some goroutine is about to close it;   *)
(* after Close none is registered.                                         *)
NoSubscriberLeaks ==
  /\ \A s \in Subs :
       subState[s] = "open" =>
         \/ s \in subscribers
         \/ \E p \in Callers : pc[p] = "closing" /\ s \in todo[p]
  /\ closed => subscribers = {}

(* The session implements the ledger store: publication in the order of    *)
(* the loads, from the overlay each load started with, one at a time, and  *)
(* none after Close.                                                       *)
Leader == CHOOSE p \in Callers : pc[p] = "load"
Store == INSTANCE LedgerStore WITH
  Inputs <- Overlay, FirstInput <- NoOverlay, NoBuild <- NoLedger,
  input <- overlay, published <- cached, builds <- done, open <- ~closed,
  build <- IF reloading THEN Loaded(done, snap[Leader]) ELSE NoLedger
ImplementsStore == Store!StoreSpec

(* Every call returns: no waiter is stranded, no closer waits for ever.    *)
EveryCallReturns == \A p \in Callers : pc[p] # "idle" ~> pc[p] = "idle"

-----------------------------------------------------------------------------
(* What the documentation says and the code does not do.  The README says  *)
(* which of these a run refutes.                                           *)

(* SetOverlay invalidates the cache and the next Snapshot rebuilds, so a   *)
(* valid cache reflects the overlay.                                       *)
OverlayEditInvalidates == valid => cached.overlay = overlay

(* A cancelled caller leaves the other waiters unaffected: only a caller   *)
(* whose own ctx is cancelled is told so.                                  *)
OtherWaitersUnaffected ==
  \A p \in Callers :
    pc[p] = "idle" /\ result[p].err = "canceled" => ctxDone[p]

(* A cancelled caller receives a nil ledger.                               *)
CanceledCallerGetsNil ==
  \A p \in Callers :
    pc[p] = "idle" /\ result[p].err = "canceled" => result[p].ledger = NoLedger

(* The callers that coalesce into a load receive that load's ledger.       *)
CoalescedCallersAgree ==
  \A p, q \in Callers :
    /\ pc[p] = "idle" /\ pc[q] = "idle"
    /\ load[p] = load[q] /\ load[p] # 0
    /\ result[p].err = "none" /\ result[q].err = "none"
    => result[p].ledger = result[q].ledger

(* A subscriber's channel holds the latest ledger it was sent.             *)
LatestWins ==
  \A s \in Subs : ch[s] # EmptyCh => \A n \in pushed[s] : n <= ch[s]

(* A cancelled load leaves the cache invalid so that the next caller       *)
(* retries.                                                                *)
CanceledLoadInvalidates ==
  [][\A p \in Callers :
       pc[p] = "load" /\ pc'[p] # "load" /\ result'[p].err = "canceled"
         => ~valid']_vars
=============================================================================
