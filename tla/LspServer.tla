------------------------------ MODULE LspServer ------------------------------
(***************************************************************************)
(* The life of cmd/beancount-lsp: initialize and the session made then or  *)
(* with the first document, the subscriber that publishes diagnostics,     *)
(* queries that load the ledger, a loader that panics, shutdown and exit   *)
(* (server.go, handlers.go, diagnostics.go, recover.go).                   *)
(*                                                                         *)
(* The JSON-RPC layer starts a handler when the one before has replied, so *)
(* handlers run one at a time; `exit` replies first and goes on.  The      *)
(* publisher, the loads started in the background and the callbacks of the *)
(* debounce timers run beside them.  Overlays and timers are those of      *)
(* LspDocSync and the session is that of Session, reduced to what          *)
(* decides when a ledger is loaded; a ledger is the set of the files that  *)
(* have errors in it.  A well-behaved client initializes first, opens a    *)
(* file once and sends nothing after exit.                                 *)
(***************************************************************************)
EXTENDS Naturals, FiniteSets

CONSTANTS
    Files,        \* paths
    Multibyte,    \* those whose URI the client encodes in its own way
    Loadable,     \* outcomes of creating a session (FALSE: it fails)
    Panics,       \* the loader (a plugin) may panic
    None,         \* no file, URI or ledger
    MaxMessages   \* bound: messages of the client after initialize

ASSUME ServerAssumption ==
    /\ Multibyte \subseteq Files /\ Loadable \subseteq BOOLEAN
    /\ Panics \in BOOLEAN /\ MaxMessages \in Nat

VARIABLES
    initialized, shutdown, exitCode,
    exiting,     \* how far the handler of exit is
    handler,     \* the handler that is running: [at, file]
    messages,    \* messages handled
    docs,        \* docStore: the open documents
    overlaid,    \* files with an overlay in the session
    armed,       \* documents whose entry in debouncer.timers is a pending timer
    orphans,     \* number of pending timers that lost their entry, by document
    fired,       \* number of callbacks that have yet to delete the entry
    running,     \* number of callbacks that have done so
    session,     \* "none", "open" or "closed"
    valid,       \* the cached ledger is up to date
    load,        \* who runs the load in progress
    calls,       \* goroutines that are about to call Snapshot
    sub,         \* the subscription: [state, ledger]
    pub,         \* the publisher: [at, todo, current]
    prev,        \* diagPublisher.prev
    shown,       \* the markers the client shows, by URI
    published,   \* history: the ledger last published
    closing,     \* history: files closed since it was
    displaced    \* history: URIs that another spelling of the path replaced

protoVars == <<initialized, shutdown, exitCode, exiting, handler, messages>>
timerVars == <<armed, orphans, fired, running>>
docVars == <<docs, overlaid, timerVars>>
sessVars == <<session, valid, load, calls>>
pubVars == <<sub, pub, prev>>
markVars == <<shown, published, closing, displaced>>
vars == <<protoVars, docVars, sessVars, pubVars, markVars>>

URI(f, who) == <<f, IF f \in Multibyte THEN who ELSE "path">>
URIs == {URI(f, who) : f \in Files, who \in {"client", "path"}}
OptURI == URIs \cup {None}
Ledger == SUBSET Files
Notice == [uri : URIs, mark : BOOLEAN, stage : 1..3]
Idle == [at |-> "idle", file |-> None]

NoTimers == [f \in Files |-> 0]

ASSUME NoneIsNoValue ==
    None \notin Files \cup URIs /\ \A errors \in Ledger : None # errors

Init ==
    /\ initialized = FALSE /\ shutdown = FALSE /\ exitCode = 1 /\ exiting = "no"
    /\ handler = Idle /\ messages = 0
    /\ docs = {} /\ overlaid = {} /\ armed = {}
    /\ orphans = NoTimers /\ fired = NoTimers /\ running = NoTimers
    /\ session = "none" /\ valid = FALSE /\ load = "none" /\ calls = 0
    /\ sub = [state |-> "none", ledger |-> None]
    /\ prev = [f \in Files |-> None]
    /\ pub = [at |-> "none", todo |-> {}, current |-> prev]
    /\ shown = [u \in URIs |-> FALSE] /\ published = {} /\ closing = {}
    /\ displaced = {}

Ready == handler = Idle /\ exiting = "no"
Message == /\ Ready /\ initialized /\ ~shutdown
           /\ messages < MaxMessages /\ messages' = messages + 1
           /\ UNCHANGED <<initialized, shutdown, exitCode, exiting>>
Enter(at, f) == handler' = [at |-> at, file |-> f]
-----------------------------------------------------------------------------
\* A new session is loaded already; startSubscriber runs once.
NewSession ==
    /\ session' = "open" /\ valid' = TRUE
    /\ IF sub.state = "none"
       THEN sub' = [sub EXCEPT !.state = "open"] /\ pub' = [pub EXCEPT !.at = "idle"]
       ELSE UNCHANGED <<sub, pub>>

\* The root is given and its session is made, or it is not given or fails.
Initialize(made) ==
    /\ Ready /\ ~initialized
    /\ initialized' = TRUE
    /\ IF made THEN NewSession ELSE UNCHANGED <<session, valid, sub, pub>>
    /\ UNCHANGED <<shutdown, exitCode, exiting, handler, messages, docVars, load,
                   calls, prev, markVars>>

\* didOpen: the document, the session if there is none yet, the overlay, and a
\* Snapshot in the background.
DidOpen(f) ==
    /\ Message /\ f \notin docs
    /\ docs' = docs \cup {f} /\ Enter("open", f)
    /\ UNCHANGED <<overlaid, timerVars, sessVars, pubVars, markVars>>

EnsureSession(made) ==
    /\ handler.at = "open"
    /\ IF session = "none" /\ made THEN NewSession
       ELSE UNCHANGED <<session, valid, sub, pub>>
    /\ handler' = IF session = "none" /\ ~made THEN Idle
                  ELSE [handler EXCEPT !.at = "overlay"]
    /\ UNCHANGED <<initialized, shutdown, exitCode, exiting, messages, docVars,
                   load, calls, prev, markVars>>

Edit(f) == overlaid' = overlaid \cup {f} /\ valid' = FALSE /\ calls' = calls + 1

OpenOverlay ==
    /\ handler.at = "overlay" /\ handler' = Idle
    /\ Edit(handler.file)
    /\ UNCHANGED <<initialized, shutdown, exitCode, exiting, messages, docs, timerVars,
                   session, load, pubVars, markVars>>

\* didChange: the timer found under the document is stopped, and a new one takes
\* its place; its callback edits the session.
DidChange(f) ==
    /\ Message /\ f \in docs /\ session # "none"
    /\ armed' = armed \cup {f}
    /\ UNCHANGED <<handler, docs, overlaid, orphans, fired, running, sessVars,
                   pubVars, markVars>>

Fire(f) ==
    /\ \/ f \in armed /\ armed' = armed \ {f} /\ orphans' = orphans
       \/ orphans[f] > 0 /\ orphans' = [orphans EXCEPT ![f] = @ - 1] /\ armed' = armed
    /\ fired' = [fired EXCEPT ![f] = @ + 1]
    /\ UNCHANGED <<protoVars, docs, overlaid, running, sessVars, pubVars, markVars>>

\* delete(db.timers, u): the entry may be that of a newer timer by now, which
\* then nobody can stop.
Unregister(f) ==
    /\ fired[f] > 0
    /\ fired' = [fired EXCEPT ![f] = @ - 1] /\ running' = [running EXCEPT ![f] = @ + 1]
    /\ armed' = armed \ {f}
    /\ orphans' = IF f \in armed THEN [orphans EXCEPT ![f] = @ + 1] ELSE orphans
    /\ UNCHANGED <<protoVars, docs, overlaid, sessVars, pubVars, markVars>>

\* A closed session refuses the edit.
Callback(f) ==
    /\ running[f] > 0 /\ running' = [running EXCEPT ![f] = @ - 1]
    /\ IF f \in docs /\ session = "open" THEN Edit(f)
       ELSE UNCHANGED <<overlaid, valid, calls>>
    /\ UNCHANGED <<protoVars, docs, armed, orphans, fired, session, load, pubVars,
                   markVars>>

\* didClose: the document, an empty list for its URI, and the overlay.
DidClose(f) ==
    /\ Message /\ f \in docs
    /\ docs' = docs \ {f} /\ Enter("close", f)
    /\ UNCHANGED <<overlaid, timerVars, sessVars, pubVars, markVars>>

ClearMarkers ==
    /\ handler.at = "close" /\ handler' = [handler EXCEPT !.at = "clear"]
    /\ shown' = [shown EXCEPT ![URI(handler.file, "client")] = FALSE]
    /\ closing' = closing \cup {handler.file}
    /\ UNCHANGED <<initialized, shutdown, exitCode, exiting, messages, docVars,
                   sessVars, pubVars, published, displaced>>

ClearOverlay ==
    /\ handler.at = "clear" /\ handler' = Idle
    /\ overlaid' = overlaid \ {handler.file}
    /\ valid' = (valid /\ handler.file \notin overlaid)
    /\ UNCHANGED <<initialized, shutdown, exitCode, exiting, messages, docs, timerVars,
                   session, load, calls, pubVars, markVars>>
-----------------------------------------------------------------------------
\* A request that needs the ledger: hover, completion, definition, ...
Query ==
    /\ Message /\ session # "none" /\ Enter("query", None)
    /\ UNCHANGED <<docVars, sessVars, pubVars, markVars>>

\* Session.reload, in the goroutine of the handler.
Snapshot ==
    /\ handler.at = "query"
    /\ handler' = IF valid THEN Idle ELSE [handler EXCEPT !.at = "loading"]
    /\ load' = IF ~valid /\ load = "none" THEN "handler" ELSE load
    /\ UNCHANGED <<initialized, shutdown, exitCode, exiting, messages, docVars,
                   session, valid, calls, pubVars, markVars>>

\* ... and in one of the background.
BackgroundSnapshot ==
    /\ calls > 0 /\ calls' = calls - 1
    /\ load' = IF session = "open" /\ ~valid /\ load = "none" THEN "background"
               ELSE load
    /\ UNCHANGED <<protoVars, docVars, session, valid, pubVars, markVars>>

\* The load ends: all its callers return, and the subscriber gets the ledger
\* instead of one it has not read.
Loading == load \in {"handler", "background"}
\* mutant: only the caller that runs the load returns
Return_Leader == handler' = IF load = "handler" THEN Idle ELSE handler

Return == handler' = IF handler.at = "loading" THEN Idle ELSE handler
EndLoad(errors) ==
    /\ Loading /\ load' = "none"
    /\ valid' = (session = "open") /\ Return
    /\ sub' = IF sub.state = "open" THEN [sub EXCEPT !.ledger = errors] ELSE sub
    /\ UNCHANGED <<initialized, shutdown, exitCode, exiting, messages, docVars,
                   session, calls, pub, prev, markVars>>

FailLoad ==
    /\ Loading /\ load' = "none" /\ Return
    /\ UNCHANGED <<initialized, shutdown, exitCode, exiting, messages, docVars,
                   session, valid, calls, pubVars, markVars>>

\* safeHandle recovers the panic of a load that a request runs, and replies;
\* reload does not clear its flag.  Nothing recovers one in the background.
PanicInHandler ==
    /\ Panics /\ load = "handler"
    /\ load' = "abandoned" /\ handler' = Idle
    /\ UNCHANGED <<initialized, shutdown, exitCode, exiting, messages, docVars,
                   session, valid, calls, pubVars, markVars>>
PanicInBackground ==
    /\ Panics /\ load = "background" /\ exiting' = "crashed"
    /\ UNCHANGED <<initialized, shutdown, exitCode, handler, messages, docVars,
                   sessVars, pubVars, markVars>>
-----------------------------------------------------------------------------
\* The publisher lists the open documents, then notifies: the files with
\* errors, the open ones without, and those of the last time that are neither.
UriFor(f) == URI(f, IF f \in docs THEN "client" ELSE "path")

Current(errors) == [f \in Files |-> IF f \in errors \cup docs THEN UriFor(f) ELSE None]

Gone_Never(errors) == {}                                \* mutant: not cleared

Gone(errors) == {f \in Files : prev[f] # None /\ f \notin errors \cup docs}

Receive ==
    /\ pub.at = "idle" /\ sub.ledger # None
    /\ LET errors == sub.ledger
       IN  pub' = [at |-> "publish", current |-> Current(errors),
                   todo |-> {[uri |-> UriFor(f), mark |-> TRUE, stage |-> 1] :
                                f \in errors}
                        \cup {[uri |-> UriFor(f), mark |-> FALSE, stage |-> 2] :
                                f \in docs \ errors}
                        \cup {[uri |-> prev[f], mark |-> FALSE, stage |-> 3] :
                                f \in Gone(errors)}]
    /\ sub' = [sub EXCEPT !.ledger = None]
    /\ closing' = {} /\ published' = sub.ledger
    /\ UNCHANGED <<protoVars, docVars, sessVars, prev, shown, displaced>>

\* Notify fails once exit has cancelled the context of the publisher.
Notify(n) ==
    /\ pub.at = "publish" /\ n \in pub.todo
    /\ \A m \in pub.todo : n.stage <= m.stage
    /\ pub' = [pub EXCEPT !.todo = @ \ {n}]
    /\ shown' = IF sub.state = "closed" THEN shown ELSE [shown EXCEPT ![n.uri] = n.mark]
    /\ UNCHANGED <<protoVars, docVars, sessVars, sub, prev, published, closing, displaced>>

EndPublish ==
    /\ pub.at = "publish" /\ pub.todo = {}
    /\ pub' = [pub EXCEPT !.at = "idle"]
    /\ prev' = pub.current
    /\ displaced' = (displaced \cup {prev[f] : f \in {g \in Files : pub.current[g] # None}})
                    \ ({None} \cup {pub.current[f] : f \in Files})
    /\ UNCHANGED <<protoVars, docVars, sessVars, sub, shown, published, closing>>

EndOfUpdates ==
    /\ pub.at = "idle" /\ sub.state = "closed" /\ sub.ledger = None
    /\ pub' = [pub EXCEPT !.at = "ended"]
    /\ UNCHANGED <<protoVars, docVars, sessVars, sub, prev, markVars>>
-----------------------------------------------------------------------------
\* After shutdown, requests are refused and notifications dropped.
Shutdown ==
    /\ Ready /\ initialized /\ ~shutdown /\ shutdown' = TRUE
    /\ UNCHANGED <<initialized, exitCode, exiting, handler, messages, docVars,
                   sessVars, pubVars, markVars>>
Refuse ==
    /\ Ready /\ shutdown /\ messages < MaxMessages /\ messages' = messages + 1
    /\ UNCHANGED <<initialized, shutdown, exitCode, exiting, handler, docVars,
                   sessVars, pubVars, markVars>>

\* exit: the timers, the subscription, the session, the publisher, the
\* connection.
Exit ==
    /\ Ready /\ exiting' = "timers"
    /\ exitCode' = IF shutdown THEN 0 ELSE 1
    /\ UNCHANGED <<initialized, shutdown, handler, messages, docVars, sessVars,
                   pubVars, markVars>>
\* stopAll: the timers that have an entry.
StopTimers ==
    /\ exiting = "timers" /\ exiting' = "subscriber"
    /\ armed' = {}
    /\ UNCHANGED <<initialized, shutdown, exitCode, handler, messages, docs, overlaid,
                   orphans, fired, running, sessVars, pubVars, markVars>>
CancelSubscriber ==
    /\ exiting = "subscriber" /\ exiting' = "session"
    /\ sub' = IF sub.state = "open" THEN [sub EXCEPT !.state = "closed"] ELSE sub
    /\ UNCHANGED <<initialized, shutdown, exitCode, handler, messages, docVars,
                   sessVars, pub, prev, markVars>>
CloseSession ==
    /\ exiting = "session" /\ exiting' = "join"
    /\ session' = IF session = "open" THEN "closed" ELSE session
    /\ UNCHANGED <<initialized, shutdown, exitCode, handler, messages, docVars, valid,
                   load, calls, pubVars, markVars>>

Joined_NotWaiting == TRUE                       \* mutant: no join
Joined == pub.at \in {"none", "ended"}
CloseConnection ==
    /\ exiting = "join" /\ Joined /\ exiting' = "closed"
    /\ UNCHANGED <<initialized, shutdown, exitCode, handler, messages, docVars,
                   sessVars, pubVars, markVars>>
-----------------------------------------------------------------------------
Client ==
    \/ \E made \in Loadable : Initialize(made)
    \/ \E f \in Files : DidOpen(f) \/ DidChange(f) \/ DidClose(f)
    \/ Query \/ Shutdown \/ Refuse \/ Exit
Handler ==
    \/ \E made \in Loadable : EnsureSession(made)
    \/ OpenOverlay \/ ClearMarkers \/ ClearOverlay \/ Snapshot
    \/ StopTimers \/ CancelSubscriber \/ CloseSession \/ CloseConnection
Loader ==
    \/ \E errors \in Ledger : EndLoad(errors)
    \/ FailLoad \/ PanicInHandler \/ PanicInBackground
Publisher ==
    Receive \/ EndPublish \/ EndOfUpdates \/ \E n \in pub.todo : Notify(n)
Timer == \E f \in Files : Fire(f) \/ Unregister(f) \/ Callback(f)

\* The process ends when the connection is closed, or crashes.
Ended == exiting \in {"closed", "crashed"}
Next ==
    /\ ~Ended
    /\ Client \/ Handler \/ Loader \/ Publisher \/ Timer \/ BackgroundSnapshot

Spec == Init /\ [][Next]_vars

\* Handlers and the publisher run on, and a load ends.  The client, the timers
\* and the background owe nothing.
FairSpec ==
    /\ Spec
    /\ WF_vars(~Ended /\ Handler) /\ WF_vars(~Ended /\ Loader)
    /\ WF_vars(~Ended /\ Publisher)
-----------------------------------------------------------------------------
TypeOK ==
    /\ initialized \in BOOLEAN /\ shutdown \in BOOLEAN /\ exitCode \in {0, 1}
    /\ exiting \in {"no", "timers", "subscriber", "session", "join", "closed", "crashed"}
    /\ handler \in [at : {"idle", "open", "overlay", "close", "clear", "query", "loading"},
                    file : Files \cup {None}]
    /\ handler.at \in {"open", "overlay", "close", "clear"} => handler.file \in Files
    /\ messages \in 0..MaxMessages
    /\ docs \subseteq Files /\ overlaid \subseteq Files
    /\ armed \subseteq Files
    /\ orphans \in [Files -> Nat] /\ fired \in [Files -> Nat] /\ running \in [Files -> Nat]
    /\ session \in {"none", "open", "closed"} /\ valid \in BOOLEAN
    /\ load \in {"none", "handler", "background", "abandoned"} /\ calls \in Nat
    /\ sub \in [state : {"none", "open", "closed"}, ledger : Ledger \cup {None}]
    /\ pub \in [at : {"none", "idle", "publish", "ended"}, todo : SUBSET Notice,
                current : [Files -> OptURI]]
    /\ prev \in [Files -> OptURI] /\ shown \in [URIs -> BOOLEAN]
    /\ published \in Ledger /\ closing \subseteq Files /\ displaced \subseteq URIs

\* Between two publications the client shows a marker on every file that has
\* errors in the ledger last published and on no other, except for a file
\* closed since (didClose clears it at once and the publisher may mark it
\* again), and for a URI that another spelling of its path displaced, which
\* nobody ever clears.
MarkersAreCurrent ==
    pub.at = "idle" /\ exiting = "no" =>
        \A f \in Files \ closing :
            /\ f \in published => \E u \in URIs : u[1] = f /\ shown[u]
            /\ f \notin published =>
                 \A u \in URIs : u[1] = f /\ shown[u] => u \in displaced

\* When the connection is closed, nobody is left to use it or the session: the
\* publisher has ended, no handler loads, and the session is closed, so that it
\* refuses the callback of a timer that stopAll missed (see ExitStopsTimers in
\* LspDocSync: exit does not stop every pending timer).
NothingAfterExit ==
    exiting = "closed" =>
        /\ pub.at \in {"none", "ended"} /\ session # "open"
        /\ handler = Idle /\ load # "handler"
        /\ exitCode = IF shutdown THEN 0 ELSE 1

\* Every message is handled and exit ends the server, unless a load panicked:
\* its flag stays set, so the next handler that needs the ledger waits for
\* ever, and every message after it, exit included.
EveryMessageIsHandled ==
    /\ handler # Idle ~> handler = Idle \/ load = "abandoned" \/ exiting = "crashed"
    /\ exiting \notin {"no", "crashed"} ~> Ended
=============================================================================
