-------------------------- MODULE LspDocSyncProofs --------------------------
(***************************************************************************)
(* Theorems about text synchronisation, for any set of files and any       *)
(* number of edits.                                                        *)
(***************************************************************************)
EXTENDS LspDocSync, TLAPS

TimerType == [file : Files \cup {None}, state : TimerStates, latest : Contents]

(* What the handlers and the timers rely on of each other: a timer is used *)
(* once, by the edit it is named after; a handler is about to act on a     *)
(* document that is stored, or on one that it has just dropped; exit waits *)
(* for the running handler.                                                *)
SyncInv ==
  /\ \A t \in Timers : timer[t].state = "unused" \/ timer[t].file \in Files
  /\ \A t \in Timers : t > clock => timer[t].state = "unused"
  /\ handler.at = "schedule" => clock \in Timers /\ timer[clock].state = "unused"
  /\ handler.at = "idle" => handler.file = None
  /\ handler.at # "idle" => handler.file \in Files /\ exiting = "no"
  /\ handler.at \in {"open", "schedule"} => docs[handler.file] # None
  /\ handler.at \in {"close", "delete"} => docs[handler.file] = None
  /\ closed => exiting = "done"

LEMMA Numbers ==
  /\ None \in Contents /\ Garbled \in Contents /\ Garbled # None
  /\ \A n \in 0..MaxEdits : n \in Contents
  /\ \A n \in 0..MaxEdits : n < MaxEdits => n + 1 \in Timers /\ n + 1 \in 0..MaxEdits
  /\ \A t \in Timers : t # None /\ t \in Nat
  BY EditsAssumption DEF None, Garbled, Contents, Timers, Edits

LEMMA InitSync == Init => TypeOK /\ SyncInv
  <1> SUFFICES ASSUME Init PROVE TypeOK /\ SyncInv
    OBVIOUS
  <1>1. timer \in [Timers -> TimerType]
    BY Numbers DEF Init, TimerType, TimerStates
  <1>2. 0 \in 0..MaxEdits /\ None \in 0..MaxEdits
    BY EditsAssumption DEF None
  <1>3. editor \in [Files -> 0..MaxEdits]
    BY <1>2 DEF Init
  <1>4. docs \in [Files -> Contents] /\ overlay \in [Files -> Contents]
    BY Numbers DEF Init
  <1>5. entry \in [Files -> Timers \cup {None}] /\ EntryIsLive
    BY DEF Init, EntryIsLive
  <1>6. delivered \in [Files -> SUBSET Contents]
    BY DEF Init
  <1>7. /\ closed \in BOOLEAN /\ handler.at = "idle" /\ handler.file \in Files \cup {None}
        /\ reload \in BOOLEAN /\ exiting = "no"
        /\ clock \in 0..MaxEdits /\ overtaken \subseteq Files
    BY <1>2 DEF Init, Idle
  <1>8. TypeOK
    BY <1>1, <1>3, <1>4, <1>5, <1>6, <1>7 DEF TypeOK, TimerType
  <1>9. SyncInv
    BY DEF Init, SyncInv, Idle
  <1>10. QED
    BY <1>8, <1>9

LEMMA StepSync == TypeOK /\ SyncInv /\ [Next]_vars => TypeOK' /\ SyncInv'
  <1> DEFINE Goal == TypeOK' /\ SyncInv'
  <1> SUFFICES ASSUME TypeOK, SyncInv, [Next]_vars PROVE Goal
    OBVIOUS
  <1> USE Numbers DEF TypeOK, EntryIsLive, SyncInv, TimerStates, vars, docVars, sessVars,
          timerVars, historyVars, Idle
  <1>1. ASSUME NEW f \in Files, DidOpen(f) PROVE Goal
    BY <1>1 DEF DidOpen, Dispatch, Enter, NextEdit
  <1>2. ASSUME NEW f \in Files, NEW full \in BOOLEAN, DidChange(f, full) PROVE Goal
    BY <1>2 DEF DidChange, Dispatch, Enter, NextEdit
  <1>3. ASSUME NEW f \in Files, DidClose(f) PROVE Goal
    <2>1. overtaken' \subseteq Files
      BY <1>3 DEF DidClose, Overtaken
    <2>2. docs' = [docs EXCEPT ![f] = None] /\ docs' \in [Files -> Contents]
      BY <1>3 DEF DidClose
    <2>3. editor' \in [Files -> 0..MaxEdits]
      BY <1>3, EditsAssumption DEF DidClose, None
    <2>4. /\ handler' = [at |-> "close", file |-> f] /\ handler.at = "idle"
          /\ exiting = "no"
          /\ UNCHANGED <<overlay, closed, entry, timer, reload, exiting, clock, delivered>>
      BY <1>3 DEF DidClose, Dispatch, Enter
    <2>5. TypeOK'
      BY <2>1, <2>2, <2>3, <2>4
    <2>6. SyncInv'
      BY <2>2, <2>4
    <2>7. QED
      BY <2>5, <2>6
  <1>4. ASSUME NEW f \in Files, DidSave(f) PROVE Goal
    BY <1>4 DEF DidSave, Dispatch, ClearOverlay
  <1>5. ASSUME NEW f \in Files, WatchDeleted(f) PROVE Goal
    <2>1. overtaken' \subseteq Files
      BY <1>5 DEF WatchDeleted, Overtaken
    <2>2. /\ UNCHANGED <<editor, overlay, closed, entry, timer, exiting, clock, delivered>>
          /\ handler.at = "idle" /\ exiting = "no" /\ reload' \in BOOLEAN
      BY <1>5 DEF WatchDeleted, Dispatch
    <2>3. CASE docs[f] # None
      <3>1. docs' = [docs EXCEPT ![f] = None] /\ docs' \in [Files -> Contents]
        BY <1>5, <2>3 DEF WatchDeleted
      <3>2. handler' = [at |-> "delete", file |-> f]
        BY <1>5, <2>3 DEF WatchDeleted, Enter
      <3>3. TypeOK'
        BY <2>1, <2>2, <3>1, <3>2
      <3>4. SyncInv'
        BY <2>2, <3>1, <3>2
      <3>5. QED
        BY <3>3, <3>4
    <2>4. CASE docs[f] = None
      <3>1. UNCHANGED <<docs, overtaken, handler>>
        BY <1>5, <2>4 DEF WatchDeleted
      <3>2. QED
        BY <2>2, <3>1
    <2>5. QED
      BY <2>3, <2>4
  <1>6. ASSUME NEW f \in Files, WatchChanged(f) PROVE Goal
    BY <1>6 DEF WatchChanged, Dispatch
  <1>7. ASSUME NEW f \in Files, OpenOverlay(f) PROVE Goal
    BY <1>7 DEF OpenOverlay, Leave, SetOverlay
  <1>8. ASSUME NEW f \in Files, Schedule(f) PROVE Goal
    BY <1>8 DEF Schedule, Leave, Replaced, Stop
  <1>9. ASSUME NEW f \in Files, CloseOverlay(f) PROVE Goal
    BY <1>9 DEF CloseOverlay, Leave, ClearOverlay
  <1>10. ASSUME NEW f \in Files, DeleteOverlay(f) PROVE Goal
    BY <1>10 DEF DeleteOverlay, Leave, ClearOverlay
  <1>11. ASSUME NEW t \in Timers, Fire(t) PROVE Goal
    BY <1>11 DEF Fire
  <1>12. ASSUME NEW t \in Timers, Unregister(t) PROVE Goal
    BY <1>12 DEF Unregister, Removed
  <1>13. ASSUME NEW t \in Timers, ReadDoc(t) PROVE Goal
    BY <1>13 DEF ReadDoc, Found
  <1>14. ASSUME NEW t \in Timers, ApplyDoc(t) PROVE Goal
    BY <1>14 DEF ApplyDoc, SetOverlay
  <1>15. ASSUME RunReload PROVE Goal
    BY <1>15 DEF RunReload
  <1>16. ASSUME Exit PROVE Goal
    BY <1>16 DEF Exit, Dispatch
  <1>17. ASSUME StopAll PROVE Goal
    BY <1>17 DEF StopAll, Stop
  <1>18. ASSUME CloseSession PROVE Goal
    BY <1>18 DEF CloseSession
  <1>19. CASE UNCHANGED vars
    BY <1>19
  <1>20. QED
    BY <1>1, <1>2, <1>3, <1>4, <1>5, <1>6, <1>7, <1>8, <1>9, <1>10,
       <1>11, <1>12, <1>13, <1>14, <1>15, <1>16, <1>17, <1>18, <1>19, SMTT(30)
       DEF Next, Handle, Finish, Callback

(* The variables keep their types, and an entry of the debouncer's map     *)
(* always names a timer of its document that can still be stopped or has   *)
(* just fired.                                                             *)
THEOREM Typing == Spec => []TypeOK
  BY InitSync, StepSync, PTL DEF Spec

-----------------------------------------------------------------------------
(* LastEditIsDelivered is inductive once SyncInv is known.  Schedule is    *)
(* the step that matters: it stops a timer of the same document only, and  *)
(* the timer that it starts stands for the edit that has just been made.   *)
LEMMA StepLastEdit ==
  TypeOK /\ SyncInv /\ LastEditIsDelivered /\ [Next]_vars => LastEditIsDelivered'
  <1> SUFFICES ASSUME TypeOK, SyncInv, LastEditIsDelivered, [Next]_vars
               PROVE LastEditIsDelivered'
    OBVIOUS
  <1> USE Numbers, FilesAssumption DEF TypeOK, EntryIsLive, SyncInv, LastEditIsDelivered, Underway,
          vars, docVars, sessVars, timerVars, historyVars, Idle
  <1>1. ASSUME NEW f \in Files, DidOpen(f) PROVE LastEditIsDelivered'
    BY <1>1 DEF DidOpen, Dispatch, Enter, NextEdit
  <1>2. ASSUME NEW f \in Files, NEW full \in BOOLEAN, DidChange(f, full) PROVE LastEditIsDelivered'
    BY <1>2 DEF DidChange, Dispatch, Enter, NextEdit
  <1>3. ASSUME NEW f \in Files, DidClose(f) PROVE LastEditIsDelivered'
    BY <1>3 DEF DidClose, Dispatch, Enter, Setting
  <1>4. ASSUME NEW f \in Files, DidSave(f) PROVE LastEditIsDelivered'
    BY <1>4 DEF DidSave, Dispatch, ClearOverlay
  <1>5. ASSUME NEW f \in Files, WatchDeleted(f) PROVE LastEditIsDelivered'
    BY <1>5 DEF WatchDeleted, Dispatch, Enter, Setting
  <1>6. ASSUME NEW f \in Files, WatchChanged(f) PROVE LastEditIsDelivered'
    BY <1>6 DEF WatchChanged, Dispatch
  <1>7. ASSUME NEW f \in Files, OpenOverlay(f) PROVE LastEditIsDelivered'
    BY <1>7 DEF OpenOverlay, Leave, SetOverlay
  <1>8. ASSUME NEW f \in Files, Schedule(f) PROVE LastEditIsDelivered'
    BY <1>8 DEF Schedule, Leave, Replaced, Stop
  <1>9. ASSUME NEW f \in Files, CloseOverlay(f) PROVE LastEditIsDelivered'
    BY <1>9 DEF CloseOverlay, Leave, ClearOverlay
  <1>10. ASSUME NEW f \in Files, DeleteOverlay(f) PROVE LastEditIsDelivered'
    BY <1>10 DEF DeleteOverlay, Leave, ClearOverlay
  <1>11. ASSUME NEW t \in Timers, Fire(t) PROVE LastEditIsDelivered'
    BY <1>11 DEF Fire
  <1>12. ASSUME NEW t \in Timers, Unregister(t) PROVE LastEditIsDelivered'
    BY <1>12 DEF Unregister, Removed
  <1>13. ASSUME NEW t \in Timers, ReadDoc(t) PROVE LastEditIsDelivered'
    BY <1>13 DEF ReadDoc, Found
  <1>14. ASSUME NEW t \in Timers, ApplyDoc(t) PROVE LastEditIsDelivered'
    BY <1>14 DEF ApplyDoc, SetOverlay
  <1>15. ASSUME RunReload PROVE LastEditIsDelivered'
    BY <1>15 DEF RunReload
  <1>16. ASSUME Exit PROVE LastEditIsDelivered'
    BY <1>16 DEF Exit, Dispatch
  <1>17. ASSUME StopAll PROVE LastEditIsDelivered'
    BY <1>17 DEF StopAll, Stop
  <1>18. ASSUME CloseSession PROVE LastEditIsDelivered'
    BY <1>18 DEF CloseSession
  <1>19. CASE UNCHANGED vars
    BY <1>19
  <1>20. QED
    BY <1>1, <1>2, <1>3, <1>4, <1>5, <1>6, <1>7, <1>8, <1>9, <1>10,
       <1>11, <1>12, <1>13, <1>14, <1>15, <1>16, <1>17, <1>18, <1>19
       DEF Next, Handle, Finish, Callback

(* The last edit of an open document is never dropped by the debouncer.    *)
THEOREM LastEdit == Spec => []LastEditIsDelivered
  <1>1. Init => LastEditIsDelivered
    BY DEF Init, LastEditIsDelivered
  <1>2. QED
    BY <1>1, InitSync, StepSync, StepLastEdit, PTL DEF Spec

-----------------------------------------------------------------------------
(* A callback about to call SetOverlay for a document that is gone was     *)
(* there when the document went.                                           *)
RaceInv ==
  \A t \in Timers :
    timer[t].state = "setting" /\ docs[timer[t].file] = None => timer[t].file \in overtaken

LEMMA StepRace == TypeOK /\ SyncInv /\ RaceInv /\ [Next]_vars => RaceInv'
  <1> SUFFICES ASSUME TypeOK, SyncInv, RaceInv, [Next]_vars PROVE RaceInv'
    OBVIOUS
  <1> USE Numbers, FilesAssumption DEF TypeOK, EntryIsLive, SyncInv, RaceInv,
          vars, docVars, sessVars, timerVars, historyVars, Idle
  <1>1. ASSUME NEW f \in Files, DidOpen(f) PROVE RaceInv'
    BY <1>1 DEF DidOpen, Dispatch, Enter, NextEdit
  <1>2. ASSUME NEW f \in Files, NEW full \in BOOLEAN, DidChange(f, full) PROVE RaceInv'
    BY <1>2 DEF DidChange, Dispatch, Enter, NextEdit
  <1>3. ASSUME NEW f \in Files, DidClose(f) PROVE RaceInv'
    BY <1>3 DEF DidClose, Dispatch, Enter, Setting, Overtaken, Setting
  <1>4. ASSUME NEW f \in Files, DidSave(f) PROVE RaceInv'
    BY <1>4 DEF DidSave, Dispatch, ClearOverlay
  <1>5. ASSUME NEW f \in Files, WatchDeleted(f) PROVE RaceInv'
    BY <1>5 DEF WatchDeleted, Dispatch, Enter, Setting, Overtaken, Setting
  <1>6. ASSUME NEW f \in Files, WatchChanged(f) PROVE RaceInv'
    BY <1>6 DEF WatchChanged, Dispatch
  <1>7. ASSUME NEW f \in Files, OpenOverlay(f) PROVE RaceInv'
    BY <1>7 DEF OpenOverlay, Leave, SetOverlay
  <1>8. ASSUME NEW f \in Files, Schedule(f) PROVE RaceInv'
    BY <1>8 DEF Schedule, Leave, Replaced, Stop
  <1>9. ASSUME NEW f \in Files, CloseOverlay(f) PROVE RaceInv'
    BY <1>9 DEF CloseOverlay, Leave, ClearOverlay
  <1>10. ASSUME NEW f \in Files, DeleteOverlay(f) PROVE RaceInv'
    BY <1>10 DEF DeleteOverlay, Leave, ClearOverlay
  <1>11. ASSUME NEW t \in Timers, Fire(t) PROVE RaceInv'
    BY <1>11 DEF Fire
  <1>12. ASSUME NEW t \in Timers, Unregister(t) PROVE RaceInv'
    BY <1>12 DEF Unregister, Removed
  <1>13. ASSUME NEW t \in Timers, ReadDoc(t) PROVE RaceInv'
    BY <1>13 DEF ReadDoc, Found
  <1>14. ASSUME NEW t \in Timers, ApplyDoc(t) PROVE RaceInv'
    BY <1>14 DEF ApplyDoc, SetOverlay
  <1>15. ASSUME RunReload PROVE RaceInv'
    BY <1>15 DEF RunReload
  <1>16. ASSUME Exit PROVE RaceInv'
    BY <1>16 DEF Exit, Dispatch
  <1>17. ASSUME StopAll PROVE RaceInv'
    BY <1>17 DEF StopAll, Stop
  <1>18. ASSUME CloseSession PROVE RaceInv'
    BY <1>18 DEF CloseSession
  <1>19. CASE UNCHANGED vars
    BY <1>19
  <1>20. QED
    BY <1>1, <1>2, <1>3, <1>4, <1>5, <1>6, <1>7, <1>8, <1>9, <1>10,
       <1>11, <1>12, <1>13, <1>14, <1>15, <1>16, <1>17, <1>18, <1>19
       DEF Next, Handle, Finish, Callback

LEMMA StepOutlives ==
  TypeOK /\ SyncInv /\ RaceInv /\ OverlayOutlivesOnlyByRace /\ [Next]_vars
    => OverlayOutlivesOnlyByRace'
  <1> SUFFICES ASSUME TypeOK, SyncInv, RaceInv, OverlayOutlivesOnlyByRace, [Next]_vars
               PROVE OverlayOutlivesOnlyByRace'
    OBVIOUS
  <1> USE Numbers, FilesAssumption DEF TypeOK, SyncInv, RaceInv, OverlayOutlivesOnlyByRace,
          vars, docVars, sessVars, timerVars, historyVars, Idle
  <1>1. ASSUME NEW f \in Files, DidOpen(f) PROVE OverlayOutlivesOnlyByRace'
    BY <1>1 DEF DidOpen, Dispatch, Enter, NextEdit
  <1>2. ASSUME NEW f \in Files, NEW full \in BOOLEAN, DidChange(f, full) PROVE OverlayOutlivesOnlyByRace'
    BY <1>2 DEF DidChange, Dispatch, Enter, NextEdit
  <1>3. ASSUME NEW f \in Files, DidClose(f) PROVE OverlayOutlivesOnlyByRace'
    BY <1>3 DEF DidClose, Dispatch, Enter, Setting, Overtaken
  <1>4. ASSUME NEW f \in Files, DidSave(f) PROVE OverlayOutlivesOnlyByRace'
    BY <1>4 DEF DidSave, Dispatch, ClearOverlay
  <1>5. ASSUME NEW f \in Files, WatchDeleted(f) PROVE OverlayOutlivesOnlyByRace'
    BY <1>5 DEF WatchDeleted, Dispatch, Enter, Setting, Overtaken
  <1>6. ASSUME NEW f \in Files, WatchChanged(f) PROVE OverlayOutlivesOnlyByRace'
    BY <1>6 DEF WatchChanged, Dispatch
  <1>7. ASSUME NEW f \in Files, OpenOverlay(f) PROVE OverlayOutlivesOnlyByRace'
    BY <1>7 DEF OpenOverlay, Leave, SetOverlay
  <1>8. ASSUME NEW f \in Files, Schedule(f) PROVE OverlayOutlivesOnlyByRace'
    BY <1>8 DEF Schedule, Leave, Replaced, Stop
  <1>9. ASSUME NEW f \in Files, CloseOverlay(f) PROVE OverlayOutlivesOnlyByRace'
    BY <1>9 DEF CloseOverlay, Leave, ClearOverlay
  <1>10. ASSUME NEW f \in Files, DeleteOverlay(f) PROVE OverlayOutlivesOnlyByRace'
    BY <1>10 DEF DeleteOverlay, Leave, ClearOverlay
  <1>11. ASSUME NEW t \in Timers, Fire(t) PROVE OverlayOutlivesOnlyByRace'
    BY <1>11 DEF Fire
  <1>12. ASSUME NEW t \in Timers, Unregister(t) PROVE OverlayOutlivesOnlyByRace'
    BY <1>12 DEF Unregister, Removed
  <1>13. ASSUME NEW t \in Timers, ReadDoc(t) PROVE OverlayOutlivesOnlyByRace'
    BY <1>13 DEF ReadDoc, Found
  <1>14. ASSUME NEW t \in Timers, ApplyDoc(t) PROVE OverlayOutlivesOnlyByRace'
    BY <1>14 DEF ApplyDoc, SetOverlay
  <1>15. ASSUME RunReload PROVE OverlayOutlivesOnlyByRace'
    BY <1>15 DEF RunReload
  <1>16. ASSUME Exit PROVE OverlayOutlivesOnlyByRace'
    BY <1>16 DEF Exit, Dispatch
  <1>17. ASSUME StopAll PROVE OverlayOutlivesOnlyByRace'
    BY <1>17 DEF StopAll, Stop
  <1>18. ASSUME CloseSession PROVE OverlayOutlivesOnlyByRace'
    BY <1>18 DEF CloseSession
  <1>19. CASE UNCHANGED vars
    BY <1>19
  <1>20. QED
    BY <1>1, <1>2, <1>3, <1>4, <1>5, <1>6, <1>7, <1>8, <1>9, <1>10,
       <1>11, <1>12, <1>13, <1>14, <1>15, <1>16, <1>17, <1>18, <1>19
       DEF Next, Handle, Finish, Callback

(* A document that the server has dropped keeps an overlay only if it was  *)
(* dropped while a callback stood between docs.get and SetOverlay.         *)
THEOREM OverlayOutlives == Spec => []OverlayOutlivesOnlyByRace
  <1>1. Init => RaceInv /\ OverlayOutlivesOnlyByRace
    BY DEF Init, RaceInv, OverlayOutlivesOnlyByRace
  <1>2. QED
    BY <1>1, InitSync, StepSync, StepRace, StepOutlives, PTL DEF Spec
=============================================================================
