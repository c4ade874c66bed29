----------------------------- MODULE LspDocSync -----------------------------
(***************************************************************************)
(* Text synchronisation of cmd/beancount-lsp: how the buffers of the       *)
(* editor reach the document store and, debounced, the overlay of the      *)
(* ledger session (docsync.go, debounce.go, watch.go, handleExit).         *)
(*                                                                         *)
(* The JSON-RPC layer runs one handler at a time, in the order of the      *)
(* messages: `handler` is where the running one stands.  The callback of a *)
(* debounce timer runs in a goroutine of its own, concurrently with the    *)
(* handlers; its steps are the critical sections of debouncer.mu,          *)
(* docStore.mu and the session's mutex.                                    *)
(*                                                                         *)
(* The contents of a buffer are known by the number of the edit that made  *)
(* them.  An incremental change applied to anything but the text it was    *)
(* made for yields garbled text.  A timer is known by the edit it was      *)
(* started for.  Every document is read from a session that exists and     *)
(* debouncing is on, as it is outside the tests.                           *)
(***************************************************************************)
EXTENDS Naturals

CONSTANTS
  Files,     \* file paths
  MaxEdits   \* bound: contents that the editor makes

ASSUME EditsAssumption == MaxEdits \in Nat

VARIABLES
  editor,     \* the buffers of the client
  docs,       \* docStore.docs
  overlay,    \* the overlay map of the session
  closed,     \* the session is closed
  handler,    \* the handler that is running: [at, file]
  entry,      \* debouncer.timers
  timer,      \* every timer made so far: [file, state, latest]
  reload,     \* watch events asked for a Reload not yet run
  exiting,    \* exit has been received, and how far its handler is
  clock,      \* how many edits have been made
  delivered,  \* history: contents handed to SetOverlay, by file
  overtaken   \* history: files last dropped under a callback about to SetOverlay

docVars     == <<editor, docs>>
sessVars    == <<overlay, closed>>
timerVars   == <<entry, timer>>
historyVars == <<delivered, overtaken>>
vars == <<docVars, sessVars, handler, timerVars, reload, exiting, clock, historyVars>>

-----------------------------------------------------------------------------
None     == 0                 \* no document, no overlay, no timer
Garbled  == MaxEdits + 1      \* text that no edit has made
Edits    == 1..MaxEdits
Contents == 0..MaxEdits + 1
Timers   == Edits

ASSUME FilesAssumption == None \notin Files

(* A timer is unused, pending, stopped, or has fired; the callback of a    *)
(* fired timer is yet to delete its map entry ("fired"), to read the       *)
(* document ("reading"), to call SetOverlay ("setting"), or has ended.     *)
TimerStates == {"unused", "pending", "stopped", "fired", "reading", "setting", "ended"}
Idle == [at |-> "idle", file |-> None]

Init ==
  /\ editor = [f \in Files |-> None]
  /\ docs = [f \in Files |-> None]
  /\ overlay = [f \in Files |-> None]
  /\ closed = FALSE
  /\ handler = Idle
  /\ entry = [f \in Files |-> None]
  /\ timer = [t \in Timers |-> [file |-> None, state |-> "unused", latest |-> None]]
  /\ reload = FALSE
  /\ exiting = "no"
  /\ clock = 0
  /\ delivered = [f \in Files |-> {}]
  /\ overtaken = {}

(* SetOverlay and ClearOverlay are refused by a closed session.            *)
SetOverlay(f, c) ==
  /\ overlay' = IF closed THEN overlay ELSE [overlay EXCEPT ![f] = c]
  /\ delivered' = [delivered EXCEPT ![f] = @ \cup {c}]

ClearOverlay_Stored(f) ==       \* mutant: only for a document still stored
  overlay' = IF closed \/ docs[f] = None THEN overlay ELSE [overlay EXCEPT ![f] = None]

ClearOverlay(f) ==
  overlay' = IF closed THEN overlay ELSE [overlay EXCEPT ![f] = None]

(* The next message is dispatched once the previous handler has replied;   *)
(* a client sends nothing after exit.                                      *)
Dispatch == handler.at = "idle" /\ exiting = "no"
Enter(at, f) == handler' = [at |-> at, file |-> f]
Leave(at) == handler.at = at /\ handler' = Idle

NextEdit == clock < MaxEdits /\ clock' = clock + 1

-----------------------------------------------------------------------------
(* didOpen stores the text, then sets the overlay.                         *)
DidOpen(f) ==
  /\ Dispatch /\ editor[f] = None /\ NextEdit
  /\ editor' = [editor EXCEPT ![f] = clock']
  /\ docs' = [docs EXCEPT ![f] = clock']
  /\ Enter("open", f)
  /\ UNCHANGED <<sessVars, timerVars, reload, exiting, delivered, overtaken>>

OpenOverlay(f) ==
  /\ handler.file = f /\ Leave("open")
  /\ SetOverlay(f, docs[f])
  /\ UNCHANGED <<docVars, closed, timerVars, reload, exiting, clock, overtaken>>

(* didChange applies the change to the stored text, then schedules.        *)
DidChange(f, full) ==
  /\ Dispatch /\ editor[f] # None /\ NextEdit
  /\ editor' = [editor EXCEPT ![f] = clock']
  /\ docs' = [docs EXCEPT ![f] =
                IF full \/ docs[f] = editor[f] THEN clock' ELSE Garbled]
  /\ Enter("schedule", f)
  /\ UNCHANGED <<sessVars, timerVars, reload, exiting, delivered, overtaken>>

(* debouncer.schedule: the timer found in the map is stopped, which has no *)
(* effect on one that has fired, and the new timer takes its place.        *)
Stop(t) == IF timer[t].state = "pending" THEN "stopped" ELSE timer[t].state

Replaced(f) == {entry[f]} \ {None}

Schedule(f) ==
  /\ handler.file = f /\ Leave("schedule")
  /\ timer' = [t \in Timers |->
                 CASE t = clock -> [file |-> f, state |-> "pending", latest |-> None]
                   [] t # clock /\ t \in Replaced(f) -> [timer[t] EXCEPT !.state = Stop(t)]
                   [] OTHER -> timer[t]]
  /\ entry' = [entry EXCEPT ![f] = clock]
  /\ UNCHANGED <<docVars, sessVars, reload, exiting, clock, historyVars>>

(* didClose deletes the document, then clears the overlay.                 *)
Setting(f) == \E t \in Timers : timer[t].file = f /\ timer[t].state = "setting"
Overtaken(f) == IF Setting(f) THEN overtaken \cup {f} ELSE overtaken \ {f}

DidClose(f) ==
  /\ Dispatch /\ editor[f] # None
  /\ editor' = [editor EXCEPT ![f] = None]
  /\ docs' = [docs EXCEPT ![f] = None]
  /\ overtaken' = Overtaken(f)
  /\ Enter("close", f)
  /\ UNCHANGED <<sessVars, timerVars, reload, exiting, clock, delivered>>

CloseOverlay(f) ==
  /\ handler.file = f /\ Leave("close")
  /\ ClearOverlay(f)
  /\ UNCHANGED <<docVars, closed, timerVars, reload, exiting, clock, historyVars>>

(* didSave clears the overlay; the document stays in the store.            *)
DidSave(f) ==
  /\ Dispatch /\ editor[f] # None
  /\ ClearOverlay(f)
  /\ UNCHANGED <<docVars, closed, handler, timerVars, reload, exiting, clock,
                 delivered, overtaken>>

-----------------------------------------------------------------------------
(* didChangeWatchedFiles with one event: the file was deleted, or it was   *)
(* created or changed.  The latter is ignored for a stored document.       *)
WatchDeleted(f) ==
  /\ Dispatch
  /\ IF docs[f] # None
       THEN /\ docs' = [docs EXCEPT ![f] = None]
            /\ overtaken' = Overtaken(f)
            /\ Enter("delete", f)
            /\ reload' = reload
       ELSE reload' = TRUE /\ UNCHANGED <<docs, overtaken, handler>>
  /\ UNCHANGED <<editor, sessVars, timerVars, exiting, clock, delivered>>

DeleteOverlay(f) ==
  /\ handler.file = f /\ Leave("delete")
  /\ ClearOverlay(f)
  /\ reload' = TRUE
  /\ UNCHANGED <<docVars, closed, timerVars, exiting, clock, historyVars>>

WatchChanged(f) ==
  /\ Dispatch
  /\ reload' = (reload \/ docs[f] = None)
  /\ UNCHANGED <<docVars, sessVars, handler, timerVars, exiting, clock, historyVars>>

RunReload ==
  /\ reload
  /\ reload' = FALSE
  /\ UNCHANGED <<docVars, sessVars, handler, timerVars, exiting, clock, historyVars>>

-----------------------------------------------------------------------------
(* A timer fires and its callback runs.                                    *)
Fire(t) ==
  /\ timer[t].state = "pending"
  /\ timer' = [timer EXCEPT ![t].state = "fired"]
  /\ UNCHANGED <<docVars, sessVars, handler, entry, reload, exiting, clock, historyVars>>

(* delete(db.timers, u), whichever timer the entry names by now.           *)
Removed_Never(f) == entry       \* mutant: the entry stays
Removed(f) == [entry EXCEPT ![f] = None]

Unregister(t) ==
  /\ timer[t].state = "fired"
  /\ timer' = [timer EXCEPT ![t].state = "reading"]
  /\ entry' = Removed(timer[t].file)
  /\ UNCHANGED <<docVars, sessVars, handler, reload, exiting, clock, historyVars>>

(* docs.get: the callback of a document that is gone ends here.            *)
Found_Overlaid(f) ==            \* mutant: only while there is an overlay
  docs[f] # None /\ overlay[f] # None
Found(f) == docs[f] # None

ReadDoc(t) ==
  /\ timer[t].state = "reading"
  /\ timer' = [timer EXCEPT ![t].latest = docs[timer[t].file],
                            ![t].state = IF Found(timer[t].file) THEN "setting" ELSE "ended"]
  /\ UNCHANGED <<docVars, sessVars, handler, entry, reload, exiting, clock, historyVars>>

ApplyDoc(t) ==
  /\ timer[t].state = "setting"
  /\ SetOverlay(timer[t].file, timer[t].latest)
  /\ timer' = [timer EXCEPT ![t].state = "ended"]
  /\ UNCHANGED <<docVars, closed, handler, entry, reload, exiting, clock,
                 overtaken>>

-----------------------------------------------------------------------------
(* exit replies first, then stops the timers and closes the session.       *)
Exit ==
  /\ Dispatch
  /\ exiting' = "stopping"
  /\ UNCHANGED <<docVars, sessVars, handler, timerVars, reload, clock, historyVars>>

StopAll ==
  /\ exiting = "stopping"
  /\ exiting' = "closing"
  /\ timer' = [t \in Timers |->
                 IF \E f \in Files : entry[f] = t
                   THEN [timer[t] EXCEPT !.state = Stop(t)] ELSE timer[t]]
  /\ entry' = [f \in Files |-> None]
  /\ UNCHANGED <<docVars, sessVars, handler, reload, clock, historyVars>>

CloseSession ==
  /\ exiting = "closing"
  /\ exiting' = "done"
  /\ closed' = TRUE
  /\ UNCHANGED <<docVars, overlay, handler, timerVars, reload, clock, historyVars>>

-----------------------------------------------------------------------------
Handle(f) ==
  \/ DidOpen(f) \/ DidClose(f) \/ DidSave(f) \/ WatchDeleted(f) \/ WatchChanged(f)
  \/ \E full \in BOOLEAN : DidChange(f, full)

Finish(f) ==
  OpenOverlay(f) \/ Schedule(f) \/ CloseOverlay(f) \/ DeleteOverlay(f)

Callback(t) == Unregister(t) \/ ReadDoc(t) \/ ApplyDoc(t)

Next ==
  \/ \E f \in Files : Handle(f) \/ Finish(f)
  \/ \E t \in Timers : Fire(t) \/ Callback(t)
  \/ RunReload \/ Exit \/ StopAll \/ CloseSession

Spec == Init /\ [][Next]_vars

(* A handler that has begun runs on, a pending timer fires and a callback  *)
(* that has started runs.                                                  *)
FairSpec ==
  /\ Spec
  /\ \A f \in Files : WF_vars(Finish(f))
  /\ \A t \in Timers : WF_vars(Fire(t)) /\ WF_vars(Callback(t))

-----------------------------------------------------------------------------
(* An entry of the debouncer's map names a timer of that document whose    *)
(* callback has not removed the entry yet, so schedule and stopAll never   *)
(* stop the timer of another document or one that is past stopping.        *)
EntryIsLive ==
  \A f \in Files :
    entry[f] # None =>
      timer[entry[f]].file = f /\ timer[entry[f]].state \in {"pending", "fired"}

(* The types of the variables, the map of the debouncer included.          *)
TypeOK ==
  /\ editor \in [Files -> 0..MaxEdits] /\ docs \in [Files -> Contents]
  /\ overlay \in [Files -> Contents] /\ closed \in BOOLEAN
  /\ handler.at \in {"idle", "open", "schedule", "close", "delete"}
  /\ handler.file \in Files \cup {None}
  /\ entry \in [Files -> Timers \cup {None}]
  /\ timer \in [Timers -> [file : Files \cup {None}, state : TimerStates,
                           latest : Contents]]
  /\ reload \in BOOLEAN
  /\ exiting \in {"no", "stopping", "closing", "done"}
  /\ clock \in 0..MaxEdits
  /\ delivered \in [Files -> SUBSET Contents]
  /\ overtaken \subseteq Files
  /\ EntryIsLive

(* The last edit of a document that is open is never dropped by the        *)
(* debouncer: it has been handed to SetOverlay, or a timer of the document *)
(* is still to read it, or a callback is about to deliver it.              *)
Underway(f) ==
  \E t \in Timers :
    /\ timer[t].file = f
    /\ \/ timer[t].state \in {"pending", "fired", "reading"}
       \/ timer[t].state = "setting" /\ timer[t].latest = docs[f]

LastEditIsDelivered ==
  \A f \in Files :
    docs[f] # None /\ exiting = "no" /\ handler.file # f
      => docs[f] \in delivered[f] \/ Underway(f)

(* A document that the server has dropped has no overlay, unless it was    *)
(* dropped while a callback stood between reading it and SetOverlay.       *)
OverlayOutlivesOnlyByRace ==
  \A f \in Files :
    overlay[f] # None /\ docs[f] = None /\ handler.file # f => f \in overtaken

(* Every edit reaches the session: the text that the store holds after a   *)
(* change is eventually handed to SetOverlay, if it is not superseded.     *)
EditReachesSession ==
  \A f \in Files : \A c \in Contents \ {None} :
    docs[f] = c ~> docs[f] # c \/ c \in delivered[f] \/ exiting # "no"

-----------------------------------------------------------------------------
(* What the documentation says and the code does not do.  The README says  *)
(* which of these a run refutes.                                           *)

(* didClose clears the session overlay so disk content takes effect.       *)
ClosedFileHasNoOverlay ==
  \A f \in Files : docs[f] = None /\ handler.file # f => overlay[f] = None

(* On fire, the latest content is pushed to the session: when nothing is   *)
(* under way, an overlay holds the current text of its document.           *)
Quiet == handler = Idle
           /\ \A t \in Timers : timer[t].state \in {"unused", "stopped", "ended"}
OverlayIsLatest ==
  Quiet /\ exiting = "no" => \A f \in Files : docs[f] # None /\ overlay[f] # None => overlay[f] = docs[f]

(* A new schedule for the same URI cancels any pending call that has not   *)
(* yet fired, so a document never has two pending timers.                  *)
OnePendingTimer ==
  \A t, u \in Timers :
    /\ timer[t].state = "pending" /\ timer[u].state = "pending"
    /\ timer[t].file = timer[u].file
    => t = u

(* stopAll cancels all pending timers.                                     *)
ExitStopsTimers ==
  exiting \in {"closing", "done"} => \A t \in Timers : timer[t].state # "pending"

(* The server's copy of an open document is the text that the client has.  *)
BufferMatchesEditor ==
  \A f \in Files : docs[f] # None => docs[f] = editor[f]
=============================================================================
