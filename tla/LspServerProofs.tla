--------------------------- MODULE LspServerProofs ---------------------------
(***************************************************************************)
(* Theorems about LspServer: types, that nobody is left when the           *)
(* connection is closed, and that the client shows the markers of the      *)
(* ledger last published.                                                  *)
(***************************************************************************)
EXTENDS LspServer, TLAPS

LEMMA UriFacts ==
    /\ \A f \in Files, who \in {"client", "path"} :
          URI(f, who) \in URIs /\ URI(f, who)[1] = f /\ URI(f, who) # None
    /\ \A u \in URIs : u[1] \in Files /\ u # None
<1>1. \A f \in Files, who \in {"client", "path"} :
        URI(f, who) \in URIs /\ URI(f, who)[1] = f
  BY DEF URIs, URI
<1>2. ASSUME NEW u \in URIs PROVE u[1] \in Files
  <2>1. PICK f \in Files, who \in {"client", "path"} : u = URI(f, who)
    BY DEF URIs
  <2> QED BY <2>1, <1>1
<1>3. None \notin URIs
  BY NoneIsNoValue
<1> QED BY <1>1, <1>2, <1>3

LEMMA UriForFacts ==
    \A f \in Files : UriFor(f) \in URIs /\ UriFor(f)[1] = f /\ UriFor(f) # None
BY UriFacts DEF UriFor

LEMMA IdleIsTyped ==
    Idle \in [at : {"idle", "open", "overlay", "close", "clear", "query", "loading"},
              file : Files \cup {None}] /\ Idle.at = "idle"
BY DEF Idle

-----------------------------------------------------------------------------
(* Types, and what holds once exit has been received: no handler runs, and *)
(* what exit has stopped stays stopped.                                    *)

Stopped ==
    /\ exiting \in {"timers", "subscriber", "session", "join", "closed"} =>
          handler = Idle /\ exitCode = IF shutdown THEN 0 ELSE 1
    /\ exiting \in {"join", "closed"} => session # "open"
    /\ exiting = "closed" => pub.at \in {"none", "ended"}
    /\ load = "handler" => handler.at = "loading"
    /\ sub.state = "closed" => exiting # "no"

LEMMA InitTyped == Init => TypeOK /\ Stopped
<1> SUFFICES ASSUME Init PROVE TypeOK /\ Stopped
  OBVIOUS
<1> USE ServerAssumption, IdleIsTyped DEF Init
<1>1. sub \in [state : {"none", "open", "closed"}, ledger : Ledger \cup {None}]
  OBVIOUS
<1>2. prev \in [Files -> OptURI] /\ shown \in [URIs -> BOOLEAN]
  BY DEF OptURI
<1>3. pub \in [at : {"none", "idle", "publish", "ended"}, todo : SUBSET Notice,
               current : [Files -> OptURI]]
  BY <1>2
<1>4. published \in Ledger
  BY DEF Ledger
<1>5. 0 \in 0..MaxMessages /\ calls \in Nat
  OBVIOUS
<1>6. TypeOK
  <2> HIDE DEF Init
  <2>1. /\ initialized = FALSE /\ shutdown = FALSE /\ exitCode = 1 /\ exiting = "no"
        /\ handler = Idle /\ messages = 0
        /\ docs = {} /\ overlaid = {} /\ armed = {}
        /\ session = "none" /\ valid = FALSE /\ load = "none"
        /\ closing = {} /\ displaced = {}
    BY DEF Init
  <2>2. /\ orphans \in [Files -> Nat] /\ fired \in [Files -> Nat]
        /\ running \in [Files -> Nat]
    BY DEF Init, NoTimers
  <2> QED BY <1>1, <1>2, <1>3, <1>4, <1>5, <2>1, <2>2 DEF TypeOK
<1> QED BY <1>6 DEF Stopped

LEMMA ClientTyped == TypeOK /\ Stopped /\ Client => TypeOK' /\ Stopped'
<1> SUFFICES ASSUME TypeOK, Stopped, Client PROVE TypeOK' /\ Stopped'
  OBVIOUS
<1> USE ServerAssumption, IdleIsTyped
<1>1. CASE \E made \in Loadable : Initialize(made)
  <2>1. PICK made \in Loadable : Initialize(made)
    BY <1>1
  <2>2. /\ sub' \in [state : {"none", "open", "closed"}, ledger : Ledger \cup {None}]
        /\ pub' \in [at : {"none", "idle", "publish", "ended"}, todo : SUBSET Notice,
                     current : [Files -> OptURI]]
        /\ session' \in {"none", "open", "closed"} /\ valid' \in BOOLEAN
    BY <2>1 DEF Initialize, NewSession, TypeOK
  <2>3. TypeOK'
    BY <2>1, <2>2 DEF Initialize, TypeOK, docVars, timerVars, markVars
  <2>4. exiting' = "no" /\ load' = load /\ handler' = handler
    BY <2>1 DEF Initialize, Ready
  <2>5. sub'.state # "closed"
    <3>1. sub.state # "closed" /\ exiting = "no"
      BY <2>1 DEF Initialize, Ready, Stopped
    <3>2. sub' = sub \/ sub' = [sub EXCEPT !.state = "open"]
      BY <2>1 DEF Initialize, NewSession
    <3> QED BY <3>1, <3>2 DEF TypeOK
  <2>6. Stopped'
    BY <2>4, <2>5 DEF Stopped
  <2> QED BY <2>3, <2>6
<1>2. CASE \E f \in Files : DidOpen(f) \/ DidClose(f)
  <2>1. PICK f \in Files : DidOpen(f) \/ DidClose(f)
    BY <1>2
  <2>2. handler' \in [at : {"open", "close"}, file : Files] /\ docs' \subseteq Files
    BY <2>1 DEF DidOpen, DidClose, Enter, TypeOK
  <2>3. messages' \in 0..MaxMessages
    BY <2>1 DEF DidOpen, DidClose, Message, TypeOK
  <2> QED BY <2>1, <2>2, <2>3
          DEF DidOpen, DidClose, Message, Ready, TypeOK, Stopped, timerVars, sessVars,
              pubVars, markVars
<1>6. CASE \E f \in Files : DidChange(f)
  <2>1. messages' \in 0..MaxMessages
    BY <1>6 DEF DidChange, Message, TypeOK
  <2> QED BY <1>6, <2>1
          DEF DidChange, Message, Ready, TypeOK, Stopped, sessVars, pubVars, markVars
<1>3. CASE Query
  <2>1. messages' \in 0..MaxMessages
    BY <1>3 DEF Query, Message, TypeOK
  <2>2. handler' = [at |-> "query", file |-> None]
    BY <1>3 DEF Query, Enter
  <2> QED BY <1>3, <2>1, <2>2
          DEF Query, Message, Ready, TypeOK, Stopped, docVars, timerVars, sessVars,
              pubVars, markVars
<1>4. CASE Shutdown
  BY <1>4 DEF Shutdown, Ready, TypeOK, Stopped, docVars, timerVars, sessVars, pubVars, markVars
<1>7. CASE Refuse
  BY <1>7 DEF Refuse, Ready, TypeOK, Stopped, docVars, timerVars, sessVars, pubVars, markVars
<1>5. CASE Exit
  BY <1>5 DEF Exit, Ready, TypeOK, Stopped, docVars, timerVars, sessVars, pubVars, markVars
<1> QED BY <1>1, <1>2, <1>3, <1>4, <1>5, <1>6, <1>7 DEF Client

LEMMA HandlerTyped == TypeOK /\ Stopped /\ Handler => TypeOK' /\ Stopped'
<1> SUFFICES ASSUME TypeOK, Stopped, Handler PROVE TypeOK' /\ Stopped'
  OBVIOUS
<1> USE IdleIsTyped
<1>1. CASE \E made \in Loadable : EnsureSession(made)
  <2>1. handler.at = "open" /\ handler.file \in Files
    BY <1>1 DEF EnsureSession, TypeOK
  <2>2. handler' = Idle \/ handler' = [at |-> "overlay", file |-> handler.file]
    BY <1>1, <2>1 DEF EnsureSession, TypeOK
  <2>3. load # "handler" /\ exiting \notin {"timers", "subscriber", "session", "join", "closed"}
    BY <2>1 DEF Stopped
  <2>4. sub' \in [state : {"none", "open", "closed"}, ledger : Ledger \cup {None}]
        /\ (sub'.state = "closed" => sub.state = "closed")
    BY <1>1 DEF EnsureSession, NewSession, TypeOK
  <2>5. pub' \in [at : {"none", "idle", "publish", "ended"}, todo : SUBSET Notice,
                  current : [Files -> OptURI]]
    BY <1>1 DEF EnsureSession, NewSession, TypeOK
  <2>6. session' \in {"none", "open", "closed"} /\ valid' \in BOOLEAN
    BY <1>1 DEF EnsureSession, NewSession, TypeOK
  <2> QED BY <1>1, <2>1, <2>2, <2>3, <2>4, <2>5, <2>6
          DEF EnsureSession, TypeOK, Stopped, docVars, timerVars, markVars
<1>2. CASE OpenOverlay
  <2>1. handler.at = "overlay" /\ handler.file \in Files
    BY <1>2 DEF OpenOverlay, TypeOK
  <2>2. overlaid' \subseteq Files /\ valid' = FALSE /\ calls' \in Nat
    BY <1>2, <2>1 DEF OpenOverlay, Edit, TypeOK
  <2>3. load # "handler" /\ exiting \notin {"timers", "subscriber", "session", "join", "closed"}
    BY <2>1, IdleIsTyped DEF Stopped
  <2>4. valid' \in BOOLEAN
    BY <2>2
  <2>5. TypeOK'
    BY <1>2, <2>1, <2>2, <2>4 DEF OpenOverlay, TypeOK, timerVars, pubVars, markVars
  <2> QED BY <1>2, <2>3, <2>5 DEF OpenOverlay, Stopped, pubVars, markVars
<1>3. CASE ClearMarkers
  <2>1. handler.file \in Files /\ URI(handler.file, "client") \in URIs
    BY <1>3, UriFacts DEF ClearMarkers, TypeOK
  <2> QED BY <1>3, <2>1 DEF ClearMarkers, TypeOK, Stopped, docVars, timerVars, sessVars, pubVars
<1>4. CASE ClearOverlay
  BY <1>4 DEF ClearOverlay, TypeOK, Stopped, timerVars, pubVars, markVars
<1>5. CASE Snapshot
  BY <1>5 DEF Snapshot, TypeOK, Stopped, docVars, timerVars, pubVars, markVars
<1>6. CASE StopTimers \/ CancelSubscriber
  BY <1>6 DEF StopTimers, CancelSubscriber, TypeOK, Stopped, docVars, timerVars, sessVars, pubVars,
              markVars
<1>7. CASE CloseSession \/ CloseConnection
  BY <1>7 DEF CloseSession, CloseConnection, Joined, TypeOK, Stopped, docVars, timerVars, sessVars,
              pubVars, markVars
<1> QED BY <1>1, <1>2, <1>3, <1>4, <1>5, <1>6, <1>7 DEF Handler

LEMMA OthersTyped ==
    TypeOK /\ Stopped /\ ~Ended /\ (Loader \/ Publisher \/ Timer \/ BackgroundSnapshot)
    => TypeOK' /\ Stopped'
<1> SUFFICES ASSUME TypeOK, Stopped, ~Ended,
                    Loader \/ Publisher \/ Timer \/ BackgroundSnapshot
             PROVE  TypeOK' /\ Stopped'
  OBVIOUS
<1> USE IdleIsTyped
<1>1. CASE \E errors \in Ledger : EndLoad(errors)
  BY <1>1 DEF EndLoad, Loading, Return, TypeOK, Stopped, docVars, timerVars, markVars
<1>2. CASE FailLoad \/ PanicInHandler
  BY <1>2 DEF FailLoad, PanicInHandler, Loading, Return, TypeOK, Stopped, docVars, timerVars,
              pubVars, markVars
<1>3. CASE PanicInBackground
  BY <1>3 DEF PanicInBackground, TypeOK, Stopped, docVars, timerVars, sessVars, pubVars, markVars
<1>4. CASE Receive
  <2>1. pub.at = "idle" /\ sub.ledger \in Ledger
    BY <1>4 DEF Receive, TypeOK
  <2>2. pub'.at = "publish" /\ pub' = [at |-> "publish", todo |-> pub'.todo,
                                       current |-> Current(sub.ledger)]
    BY <1>4 DEF Receive
  <2>3. Current(sub.ledger) \in [Files -> OptURI]
    BY UriForFacts DEF Current, OptURI
  <2>4. pub'.todo \subseteq Notice
    <3>1. \A f \in Files : /\ [uri |-> UriFor(f), mark |-> TRUE, stage |-> 1] \in Notice
                          /\ [uri |-> UriFor(f), mark |-> FALSE, stage |-> 2] \in Notice
      BY UriForFacts DEF Notice
    <3>2. \A f \in Gone(sub.ledger) :
             [uri |-> prev[f], mark |-> FALSE, stage |-> 3] \in Notice
      BY DEF Gone, Notice, TypeOK, OptURI
    <3>3. pub'.todo = {[uri |-> UriFor(f), mark |-> TRUE, stage |-> 1] : f \in sub.ledger}
             \cup {[uri |-> UriFor(f), mark |-> FALSE, stage |-> 2] : f \in docs \ sub.ledger}
             \cup {[uri |-> prev[f], mark |-> FALSE, stage |-> 3] : f \in Gone(sub.ledger)}
      BY <1>4 DEF Receive
    <3>4. sub.ledger \subseteq Files /\ docs \subseteq Files
      BY <2>1 DEF Ledger, TypeOK
    <3> QED BY <3>1, <3>2, <3>3, <3>4
  <2>5. pub' \in [at : {"none", "idle", "publish", "ended"}, todo : SUBSET Notice,
                  current : [Files -> OptURI]]
    BY <2>2, <2>3, <2>4
  <2> QED BY <1>4, <2>1, <2>2, <2>5
          DEF Receive, TypeOK, Stopped, Ended, protoVars, docVars, timerVars, sessVars
<1>5. CASE \E n \in pub.todo : Notify(n)
  BY <1>5 DEF Notify, TypeOK, Stopped, Ended, Notice, protoVars, docVars, timerVars, sessVars
<1>6. CASE EndPublish
  <2>1. displaced' \subseteq URIs
    BY <1>6 DEF EndPublish, TypeOK, OptURI
  <2> QED BY <1>6, <2>1 DEF EndPublish, TypeOK, Stopped, Ended, protoVars, docVars, timerVars, sessVars
<1>7. CASE EndOfUpdates
  BY <1>7 DEF EndOfUpdates, TypeOK, Stopped, protoVars, docVars, timerVars, sessVars, markVars
<1>8. CASE Timer
  <2>1. CASE \E f \in Files : Fire(f)
    BY <1>8, <2>1 DEF Fire, TypeOK, Stopped, protoVars, sessVars, pubVars, markVars
  <2>3. CASE \E f \in Files : Unregister(f)
    BY <1>8, <2>3 DEF Unregister, TypeOK, Stopped, protoVars, sessVars, pubVars, markVars
  <2>2. ASSUME NEW f \in Files, Callback(f) PROVE TypeOK' /\ Stopped'
    <3>0. valid \in BOOLEAN /\ calls \in Nat /\ overlaid \subseteq Files
      BY DEF TypeOK
    <3>a. Edit(f) \/ UNCHANGED <<overlaid, valid, calls>>
      BY <2>2 DEF Callback
    <3>1. overlaid' \subseteq Files /\ valid' \in BOOLEAN /\ calls' \in Nat
      <4>1. Edit(f) => overlaid' \subseteq Files /\ valid' = FALSE /\ calls' \in Nat
        BY <3>0 DEF Edit
      <4> QED BY <3>0, <3>a, <4>1
    <3> QED BY <2>2, <3>1 DEF Callback, TypeOK, Stopped, protoVars, pubVars, markVars
  <2> QED BY <1>8, <2>1, <2>2, <2>3 DEF Timer
<1>9. CASE BackgroundSnapshot
  BY <1>9 DEF BackgroundSnapshot, TypeOK, Stopped, protoVars, docVars, timerVars, pubVars, markVars
<1> QED BY <1>1, <1>2, <1>3, <1>4, <1>5, <1>6, <1>7, <1>8, <1>9 DEF Loader, Publisher

LEMMA NextTyped == TypeOK /\ Stopped /\ [Next]_vars => TypeOK' /\ Stopped'
<1>1. TypeOK /\ Stopped /\ UNCHANGED vars => TypeOK' /\ Stopped'
  BY DEF vars, protoVars, docVars, timerVars, sessVars, pubVars, markVars, TypeOK, Stopped
<1> QED BY <1>1, ClientTyped, HandlerTyped, OthersTyped DEF Next

\* Every message, document, notice and marker is well formed in every step.
THEOREM Typing == Spec => []TypeOK
BY InitTyped, NextTyped, PTL DEF Spec

\* For any files and any number of messages: when exit closes the connection,
\* the publisher has ended, no handler loads and the session is closed, so
\* nothing is sent or edited afterwards, though a timer may be pending still.
THEOREM ExitStopsAll == Spec => []NothingAfterExit
<1>1. TypeOK /\ Stopped => NothingAfterExit
  BY IdleIsTyped DEF TypeOK, Stopped, NothingAfterExit
<1> QED BY <1>1, InitTyped, NextTyped, PTL DEF Spec

-----------------------------------------------------------------------------
(* The markers.  A publication owes one notice to each file it lists or no *)
(* longer lists; until the notice is sent the marker may be that of the    *)
(* publication before.  A URI with a marker is the one listed for its path *)
(* now or the time before, or was displaced by another spelling.           *)

Owed(f) ==
    IF f \in published THEN [uri |-> pub.current[f], mark |-> TRUE, stage |-> 1]
    ELSE IF pub.current[f] # None
         THEN [uri |-> pub.current[f], mark |-> FALSE, stage |-> 2]
         ELSE [uri |-> prev[f], mark |-> FALSE, stage |-> 3]
OwnURI(list) == \A f \in Files : list[f] # None => list[f] \in URIs /\ list[f][1] = f

Quiet ==
    /\ \A u \in URIs : shown[u] => u = prev[u[1]] \/ u \in displaced
    /\ \A f \in published \ closing : prev[f] # None /\ shown[prev[f]]
    /\ \A f \in Files \ published : prev[f] # None => ~shown[prev[f]]
Publishing ==
    /\ OwnURI(pub.current) /\ \A f \in published : pub.current[f] # None
    /\ pub.todo \subseteq {Owed(f) : f \in Files}
    /\ \A u \in URIs :
          shown[u] => u = prev[u[1]] \/ u = pub.current[u[1]] \/ u \in displaced
    /\ \A f \in published \ closing : Owed(f) \in pub.todo \/ shown[pub.current[f]]
    /\ \A f \in Files \ published :
          /\ pub.current[f] # None => Owed(f) \in pub.todo \/ ~shown[pub.current[f]]
          /\ pub.current[f] = None /\ prev[f] # None =>
                Owed(f) \in pub.todo \/ ~shown[prev[f]]
Marked ==
    exiting = "no" =>
      /\ OwnURI(prev)
      /\ sub.state = "none" => pub.at = "none"
      /\ pub.at \in {"none", "idle"} => Quiet
      /\ pub.at = "publish" => Publishing

LEMMA InitMarked == Init => Marked
<1> SUFFICES ASSUME Init PROVE Marked
  OBVIOUS
<1>1. /\ pub.at = "none" /\ published = {} /\ \A f \in Files : prev[f] = None
      /\ \A u \in URIs : shown[u] = FALSE
  BY DEF Init
<1> QED BY <1>1 DEF Marked, OwnURI, Quiet

\* A step that leaves the publisher and the markers alone.
LEMMA SameMarkers ==
    ASSUME TypeOK, Marked, UNCHANGED <<pub, prev, markVars>>,
           exiting' = "no" => exiting = "no",
           sub'.state = "none" => sub.state = "none"
    PROVE  Marked'
<1> USE DEF markVars
<1>1. OwnURI(prev) => OwnURI(prev)'
  BY DEF OwnURI
<1>2. Quiet => Quiet'
  BY DEF Quiet
<1>3. Publishing => Publishing'
  BY DEF Publishing, OwnURI, Owed
<1> QED BY <1>1, <1>2, <1>3 DEF Marked

\* A session is made: the publisher starts if there was none.
LEMMA SessionMarked ==
    ASSUME TypeOK, Marked, NewSession \/ UNCHANGED <<sub, pub>>,
           UNCHANGED <<prev, markVars>>, exiting' = exiting
    PROVE  Marked'
<1>1. CASE UNCHANGED <<sub, pub>>
  BY <1>1, SameMarkers
<1>2. CASE NewSession /\ ~UNCHANGED <<sub, pub>>
  <2>1. sub.state = "none" /\ sub'.state = "open" /\ pub'.at = "idle"
    BY <1>2 DEF NewSession, TypeOK
  <2>2. Quiet => Quiet'
    BY DEF Quiet, markVars
  <2>3. OwnURI(prev) => OwnURI(prev)'
    BY DEF OwnURI
  <2> QED BY <2>1, <2>2, <2>3 DEF Marked
<1> QED BY <1>1, <1>2

\* didClose clears the marker of a file and notes that it did.
LEMMA CloseMarked == TypeOK /\ Marked /\ ClearMarkers => Marked'
<1> SUFFICES ASSUME TypeOK, Marked, ClearMarkers, exiting = "no" PROVE Marked'
  BY DEF ClearMarkers, Marked
<1> DEFINE c == URI(handler.file, "client")
<1>1. /\ handler.file \in Files /\ c \in URIs /\ c[1] = handler.file
      /\ shown \in [URIs -> BOOLEAN]
  BY UriFacts DEF ClearMarkers, TypeOK
<1>2. /\ shown' = [shown EXCEPT ![c] = FALSE] /\ closing' = closing \cup {c[1]}
      /\ UNCHANGED <<pub, prev, published, displaced, sub>>
  BY <1>1 DEF ClearMarkers, pubVars
<1>3. \A u \in URIs : (shown'[u] => shown[u]) /\ (u[1] # c[1] => shown'[u] = shown[u])
  BY <1>1, <1>2
<1>4. prev \in [Files -> OptURI] /\ pub.current \in [Files -> OptURI]
  BY DEF TypeOK
<1>5. published \subseteq Files
  BY DEF TypeOK, Ledger
<1>6. OwnURI(prev)
  BY DEF Marked
<1>7. Quiet => Quiet'
  BY <1>2, <1>3, <1>5, <1>6 DEF Quiet, OwnURI
<1>8. Publishing => Publishing'
  <2> SUFFICES ASSUME Publishing PROVE Publishing'
    OBVIOUS
  <2>1. \A f : Owed(f)' = Owed(f)
    BY <1>2 DEF Owed
  <2>2. OwnURI(pub.current)' /\ \A f \in published' : pub'.current[f] # None
    BY <1>2 DEF Publishing, OwnURI
  <2>3. pub'.todo \subseteq {Owed(f)' : f \in Files}
    BY <1>2, <2>1 DEF Publishing
  <2>4. \A u \in URIs :
          shown'[u] => u = prev'[u[1]] \/ u = pub'.current[u[1]] \/ u \in displaced'
    BY <1>2, <1>3 DEF Publishing
  <2>5. \A f \in published' \ closing' : Owed(f)' \in pub'.todo \/ shown'[pub'.current[f]]
    BY <1>2, <1>3, <1>5, <2>1 DEF Publishing, OwnURI
  <2>6. \A f \in Files \ published' :
          /\ pub'.current[f] # None => Owed(f)' \in pub'.todo \/ ~shown'[pub'.current[f]]
          /\ pub'.current[f] = None /\ prev'[f] # None =>
                Owed(f)' \in pub'.todo \/ ~shown'[prev'[f]]
    BY <1>2, <1>3, <1>6, <2>1 DEF Publishing, OwnURI
  <2> QED BY <2>2, <2>3, <2>4, <2>5, <2>6 DEF Publishing
<1>9. OwnURI(prev)'
  BY <1>2, <1>6 DEF OwnURI
<1> QED BY <1>2, <1>7, <1>8, <1>9 DEF Marked

\* A publication begins: every file it lists, or no longer lists, is owed its
\* notice.
LEMMA ReceiveMarked == TypeOK /\ Marked /\ Receive => Marked'
<1> SUFFICES ASSUME TypeOK, Marked, Receive, exiting = "no" PROVE Marked'
  BY DEF Receive, Marked, protoVars
<1> DEFINE errors == sub.ledger
<1>1. /\ pub.at = "idle" /\ pub'.at = "publish" /\ pub'.current = Current(errors)
      /\ pub'.todo = {[uri |-> UriFor(f), mark |-> TRUE, stage |-> 1] : f \in errors}
             \cup {[uri |-> UriFor(f), mark |-> FALSE, stage |-> 2] : f \in docs \ errors}
             \cup {[uri |-> prev[f], mark |-> FALSE, stage |-> 3] : f \in Gone(errors)}
      /\ published' = errors /\ closing' = {}
      /\ UNCHANGED <<prev, shown, displaced>> /\ sub'.state = sub.state
  BY DEF Receive, TypeOK
<1>2. errors \subseteq Files /\ docs \subseteq Files /\ published \subseteq Files
  BY DEF Receive, TypeOK, Ledger
<1>3. Quiet /\ OwnURI(prev) /\ sub.state # "none"
  BY <1>1 DEF Marked
<1>4. \A f \in Files : /\ f \in errors \cup docs => pub'.current[f] = UriFor(f)
                       /\ f \notin errors \cup docs => pub'.current[f] = None
  BY <1>1 DEF Current
<1>5. OwnURI(pub'.current)
  BY <1>4, UriForFacts DEF OwnURI
<1>6. \A f \in errors : pub'.current[f] # None
  BY <1>2, <1>4, UriForFacts
<1>7. \A f \in errors :
         Owed(f)' = [uri |-> UriFor(f), mark |-> TRUE, stage |-> 1]
  BY <1>1, <1>2, <1>4 DEF Owed
<1>8. \A f \in docs \ errors :
         Owed(f)' = [uri |-> UriFor(f), mark |-> FALSE, stage |-> 2]
  <2> SUFFICES ASSUME NEW f \in docs \ errors
               PROVE  Owed(f)' = [uri |-> UriFor(f), mark |-> FALSE, stage |-> 2]
    OBVIOUS
  <2>1. pub'.current[f] = UriFor(f) /\ UriFor(f) # None /\ f \notin published'
    BY <1>1, <1>2, <1>4, UriForFacts
  <2> QED BY <2>1 DEF Owed
<1>9. \A f \in Files \ (docs \cup errors) :
         Owed(f)' = [uri |-> prev[f], mark |-> FALSE, stage |-> 3]
  BY <1>1, <1>4 DEF Owed
<1>10. Gone(errors) = {f \in Files : prev[f] # None /\ f \notin errors \cup docs}
  BY DEF Gone
<1>11. pub'.todo \subseteq {Owed(f)' : f \in Files}
  <2> SUFFICES ASSUME NEW n \in pub'.todo PROVE \E f \in Files : n = Owed(f)'
    OBVIOUS
  <2>1. CASE n \in {[uri |-> UriFor(f), mark |-> TRUE, stage |-> 1] : f \in errors}
    BY <1>2, <1>7, <2>1
  <2>2. CASE n \in {[uri |-> UriFor(f), mark |-> FALSE, stage |-> 2] :
                       f \in docs \ errors}
    BY <1>2, <1>8, <2>2
  <2>3. CASE n \in {[uri |-> prev[f], mark |-> FALSE, stage |-> 3] :
                       f \in Gone(errors)}
    BY <1>9, <1>10, <2>3
  <2> QED BY <1>1, <2>1, <2>2, <2>3
<1>12. \A f \in errors \cup docs : Owed(f)' \in pub'.todo
  BY <1>1, <1>7, <1>8
<1>13. \A f \in Gone(errors) : Owed(f)' \in pub'.todo
  BY <1>1, <1>9, <1>10
<1>14. \A f \in Files \ errors :
         /\ pub'.current[f] # None => Owed(f)' \in pub'.todo
         /\ pub'.current[f] = None /\ prev[f] # None => Owed(f)' \in pub'.todo
  BY <1>4, <1>10, <1>12, <1>13, UriForFacts
<1>15. \A u \in URIs : shown'[u] =>
         u = prev'[u[1]] \/ u = pub'.current[u[1]] \/ u \in displaced'
  BY <1>1, <1>3 DEF Quiet
<1>16. Publishing'
  <2>1. OwnURI(pub.current)'
    BY <1>5 DEF OwnURI
  <2> QED BY <1>1, <1>6, <1>11, <1>12, <1>14, <1>15, <2>1 DEF Publishing
<1>17. OwnURI(prev)'
  BY <1>1, <1>3 DEF OwnURI
<1> QED BY <1>1, <1>3, <1>16, <1>17 DEF Marked

\* A notice is sent: it sets the marker of one URI of its file, and the file
\* is owed no other.
LEMMA NotifyMarked ==
    TypeOK /\ Stopped /\ Marked /\ (\E n \in pub.todo : Notify(n)) => Marked'
<1> SUFFICES ASSUME TypeOK, Stopped, Marked, exiting = "no",
                    NEW n \in pub.todo, Notify(n)
             PROVE  Marked'
  BY DEF Notify, Marked, protoVars
<1>1. /\ pub.at = "publish" /\ Publishing /\ OwnURI(prev) /\ sub.state # "none"
      /\ sub.state # "closed"
  BY DEF Notify, Marked, Stopped
<1>2. /\ pub' = [pub EXCEPT !.todo = @ \ {n}]
      /\ shown' = [shown EXCEPT ![n.uri] = n.mark]
      /\ UNCHANGED <<sub, prev, published, closing, displaced>>
  BY <1>1 DEF Notify
<1>3. /\ pub'.at = "publish" /\ pub'.current = pub.current
      /\ pub'.todo = pub.todo \ {n}
  BY <1>1, <1>2 DEF TypeOK
<1>4. PICK f \in Files : n = Owed(f)
  BY <1>1 DEF Publishing
<1>5. n.uri \in URIs /\ n.mark \in BOOLEAN /\ n.uri # None
  BY NoneIsNoValue DEF TypeOK, Notice
<1>6. /\ f \in published => n.uri = pub.current[f] /\ n.mark = TRUE
      /\ f \notin published /\ pub.current[f] # None =>
            n.uri = pub.current[f] /\ n.mark = FALSE
      /\ f \notin published /\ pub.current[f] = None =>
            n.uri = prev[f] /\ n.mark = FALSE
  BY <1>4 DEF Owed
<1>7. n.uri[1] = f
  BY <1>1, <1>5, <1>6 DEF OwnURI, Publishing
<1>8. \A u \in URIs : shown'[u] = IF u = n.uri THEN n.mark ELSE shown[u]
  BY <1>2, <1>5 DEF TypeOK
<1>9. \A g : Owed(g)' = Owed(g)
  BY <1>2, <1>3 DEF Owed
<1>10. \A g \in Files : g # f /\ Owed(g) \in pub.todo => Owed(g) \in pub'.todo
  <2>1. ASSUME NEW g \in Files, g # f, Owed(g) \in pub.todo PROVE Owed(g) # n
    <3>1. Owed(g).uri \in URIs
      BY <2>1 DEF TypeOK, Notice
    <3>2. Owed(g).uri = pub.current[g] \/ Owed(g).uri = prev[g]
      BY DEF Owed
    <3>3. Owed(g).uri[1] = g
      BY <1>1, <3>1, <3>2, UriFacts DEF OwnURI, Publishing
    <3> QED BY <1>7, <2>1, <3>3
  <2> QED BY <1>3, <2>1
<1>11. OwnURI(pub.current)' /\ \A g \in published' : pub'.current[g] # None
  BY <1>1, <1>2, <1>3 DEF Publishing, OwnURI
<1>12. pub'.todo \subseteq {Owed(g)' : g \in Files}
  BY <1>1, <1>3, <1>9 DEF Publishing
<1>13. \A u \in URIs : shown'[u] =>
         u = prev'[u[1]] \/ u = pub'.current[u[1]] \/ u \in displaced'
  <2> SUFFICES ASSUME NEW u \in URIs, shown'[u]
               PROVE  u = prev[u[1]] \/ u = pub.current[u[1]] \/ u \in displaced
    BY <1>2, <1>3
  <2>1. CASE u = n.uri
    <3>1. n.mark = TRUE
      BY <1>5, <1>8, <2>1
    <3>2. f \in published
      BY <1>6, <3>1
    <3> QED BY <1>6, <1>7, <2>1, <3>2
  <2>2. CASE u # n.uri
    BY <1>1, <1>8, <2>2 DEF Publishing
  <2> QED BY <2>1, <2>2
<1>14. ASSUME NEW g \in published' \ closing'
       PROVE  Owed(g)' \in pub'.todo \/ shown'[pub'.current[g]]
  <2>1. g \in Files /\ g \in published \ closing
    BY <1>2 DEF TypeOK, Ledger
  <2>2. pub.current[g] \in URIs /\ pub.current[g][1] = g
    BY <1>1, <2>1 DEF Publishing, OwnURI
  <2>3. CASE g = f
    <3>1. n.uri = pub.current[g] /\ n.mark = TRUE
      BY <1>6, <2>1, <2>3
    <3>2. shown'[pub.current[g]] = TRUE
      BY <1>8, <2>2, <3>1
    <3> QED BY <1>3, <3>2
  <2>4. CASE g # f
    <3>1. shown'[pub.current[g]] = shown[pub.current[g]]
      BY <1>7, <1>8, <2>2, <2>4
    <3> QED BY <1>1, <1>3, <1>9, <1>10, <2>1, <2>4, <3>1 DEF Publishing
  <2> QED BY <2>3, <2>4
<1>15. ASSUME NEW g \in Files \ published'
       PROVE  /\ pub'.current[g] # None => Owed(g)' \in pub'.todo \/ ~shown'[pub'.current[g]]
              /\ pub'.current[g] = None /\ prev'[g] # None =>
                    Owed(g)' \in pub'.todo \/ ~shown'[prev'[g]]
  <2>1. g \in Files \ published
    BY <1>2
  <2>2. /\ pub.current[g] # None => pub.current[g] \in URIs /\ pub.current[g][1] = g
        /\ prev[g] # None => prev[g] \in URIs /\ prev[g][1] = g
    BY <1>1, <2>1 DEF Publishing, OwnURI
  <2>3. CASE g = f
    <3>1. pub.current[g] # None => shown'[pub.current[g]] = FALSE
      BY <1>6, <1>8, <2>1, <2>2, <2>3
    <3>2. pub.current[g] = None /\ prev[g] # None => shown'[prev[g]] = FALSE
      BY <1>6, <1>8, <2>1, <2>2, <2>3
    <3> QED BY <1>2, <1>3, <3>1, <3>2
  <2>4. CASE g # f
    <3>1. pub.current[g] # None => shown'[pub.current[g]] = shown[pub.current[g]]
      BY <1>7, <1>8, <2>2, <2>4
    <3>2. prev[g] # None => shown'[prev[g]] = shown[prev[g]]
      BY <1>7, <1>8, <2>2, <2>4
    <3> QED BY <1>1, <1>2, <1>3, <1>9, <1>10, <2>1, <2>4, <3>1, <3>2 DEF Publishing
  <2> QED BY <2>3, <2>4
<1>16. Publishing'
  BY <1>11, <1>12, <1>13, <1>14, <1>15 DEF Publishing
<1>17. OwnURI(prev)'
  BY <1>1, <1>2 DEF OwnURI
<1> QED BY <1>1, <1>2, <1>3, <1>16, <1>17 DEF Marked

\* A publication ends: what it listed is now the list of the time before.
LEMMA EndMarked == TypeOK /\ Marked /\ EndPublish => Marked'
<1> SUFFICES ASSUME TypeOK, Marked, EndPublish, exiting = "no" PROVE Marked'
  BY DEF EndPublish, Marked, protoVars
<1>1. Publishing /\ OwnURI(prev) /\ sub.state # "none" /\ pub.todo = {}
  BY DEF EndPublish, Marked
<1>2. /\ pub'.at = "idle" /\ prev' = pub.current
      /\ UNCHANGED <<sub, shown, published, closing>>
  BY DEF EndPublish, TypeOK
<1>3. displaced' = (displaced \cup {prev[f] : f \in {g \in Files : pub.current[g] # None}})
                   \ ({None} \cup {pub.current[f] : f \in Files})
  BY DEF EndPublish
<1>4. published \subseteq Files /\ pub.current \in [Files -> OptURI]
  BY DEF TypeOK, Ledger
<1>5. ASSUME NEW u \in URIs, shown'[u] PROVE u = prev'[u[1]] \/ u \in displaced'
  <2> DEFINE f == u[1]
  <2>1. f \in Files /\ u # None
    BY UriFacts
  <2>2. u = prev[f] \/ u = pub.current[f] \/ u \in displaced
    BY <1>1, <1>2, <1>5 DEF Publishing
  <2>3. ASSUME NEW g \in Files, u = pub.current[g] PROVE u = prev'[f]
    BY <1>1, <1>2, <2>1, <2>3 DEF Publishing, OwnURI
  <2>4. CASE u = pub.current[f]
    BY <1>2, <2>4
  <2>5. CASE u \in displaced
    BY <1>3, <2>1, <2>3, <2>5
  <2>6. CASE u = prev[f] /\ pub.current[f] # None
    BY <1>3, <2>1, <2>3, <2>6
  <2>7. CASE u = prev[f] /\ pub.current[f] = None
    <3>1. f \notin published
      BY <1>1, <2>7 DEF Publishing
    <3>2. ~shown[prev[f]]
      BY <1>1, <2>1, <2>7, <3>1 DEF Publishing
    <3> QED BY <1>2, <1>5, <2>7, <3>2
  <2> QED BY <2>2, <2>4, <2>5, <2>6, <2>7
<1>6. \A f \in published' \ closing' : prev'[f] # None /\ shown'[prev'[f]]
  BY <1>1, <1>2 DEF Publishing
<1>7. \A f \in Files \ published' : prev'[f] # None => ~shown'[prev'[f]]
  BY <1>1, <1>2 DEF Publishing
<1>8. Quiet'
  BY <1>5, <1>6, <1>7 DEF Quiet
<1>9. OwnURI(prev)'
  BY <1>1, <1>2 DEF Publishing, OwnURI
<1> QED BY <1>1, <1>2, <1>8, <1>9 DEF Marked

\* The client's messages and the handlers: only a new session and didClose
\* touch the publisher or the markers.
LEMMA FrontMarked ==
    TypeOK /\ Marked /\ (Client \/ Handler \/ Loader \/ Timer \/ BackgroundSnapshot)
        => Marked'
<1> SUFFICES ASSUME TypeOK, Marked PROVE
        Client \/ Handler \/ Loader \/ Timer \/ BackgroundSnapshot => Marked'
  OBVIOUS
<1> DEFINE Same == /\ UNCHANGED <<pub, prev, markVars>>
                   /\ exiting' = "no" => exiting = "no"
                   /\ sub'.state = "none" => sub.state = "none"
<1>1. Same => Marked'
  BY SameMarkers
<1>2. ASSUME NEW made \in Loadable, Initialize(made) PROVE Marked'
  BY <1>2, SessionMarked DEF Initialize
<1>3. ASSUME NEW made \in Loadable, EnsureSession(made) PROVE Marked'
  BY <1>3, SessionMarked DEF EnsureSession
<1>4. ASSUME NEW f \in Files, DidOpen(f) \/ DidChange(f) \/ DidClose(f) PROVE Same
  BY <1>4 DEF DidOpen, DidChange, DidClose, Message, pubVars
<1>5. ASSUME Query \/ Shutdown \/ Refuse \/ Exit PROVE Same
  BY <1>5 DEF Query, Shutdown, Refuse, Exit, Message, pubVars
<1>6. ASSUME OpenOverlay \/ ClearOverlay \/ Snapshot PROVE Same
  BY <1>6 DEF OpenOverlay, ClearOverlay, Snapshot, pubVars
<1>7. ASSUME StopTimers \/ CloseSession \/ CloseConnection PROVE Same
  BY <1>7 DEF StopTimers, CloseSession, CloseConnection, pubVars
<1>8. ASSUME CancelSubscriber PROVE Same
  BY <1>8 DEF CancelSubscriber, TypeOK
<1>9. ASSUME NEW errors \in Ledger, EndLoad(errors) PROVE Same
  BY <1>9 DEF EndLoad, TypeOK
<1>10. ASSUME FailLoad \/ PanicInHandler \/ PanicInBackground PROVE Same
  BY <1>10 DEF FailLoad, PanicInHandler, PanicInBackground, pubVars
<1>11. ASSUME NEW f \in Files, Fire(f) \/ Unregister(f) \/ Callback(f) PROVE Same
  BY <1>11 DEF Fire, Unregister, Callback, pubVars, protoVars
<1>12. ASSUME BackgroundSnapshot PROVE Same
  BY <1>12 DEF BackgroundSnapshot, pubVars, protoVars
<1>13. Client => Marked'
  BY <1>1, <1>2, <1>4, <1>5 DEF Client
<1>14. Handler => Marked'
  BY <1>1, <1>3, <1>6, <1>7, <1>8, CloseMarked DEF Handler
<1>15. Loader \/ Timer \/ BackgroundSnapshot => Marked'
  BY <1>1, <1>9, <1>10, <1>11, <1>12 DEF Loader, Timer
<1> QED BY <1>13, <1>14, <1>15

LEMMA NextMarked == TypeOK /\ Stopped /\ Marked /\ [Next]_vars => Marked'
<1> SUFFICES ASSUME TypeOK, Stopped, Marked, [Next]_vars PROVE Marked'
  OBVIOUS
<1>1. CASE UNCHANGED vars
  BY <1>1, SameMarkers DEF vars, protoVars, pubVars
<1>2. CASE EndOfUpdates
  BY <1>2 DEF EndOfUpdates, Stopped, Marked, protoVars
<1>3. CASE Publisher
  BY <1>2, <1>3, ReceiveMarked, NotifyMarked, EndMarked DEF Publisher
<1> QED BY <1>1, <1>3, FrontMarked DEF Next

\* For any files and any number of messages: whenever the publisher is at rest,
\* the client shows a marker on exactly the files with errors in the ledger
\* last published, but for those closed since and URIs displaced by another
\* spelling of their path.
THEOREM Markers == Spec => []MarkersAreCurrent
<1>1. TypeOK /\ Marked => MarkersAreCurrent
  <2> SUFFICES ASSUME TypeOK, Marked, pub.at = "idle", exiting = "no",
                      NEW f \in Files \ closing
               PROVE  /\ f \in published => \E u \in URIs : u[1] = f /\ shown[u]
                      /\ f \notin published =>
                           \A u \in URIs : u[1] = f /\ shown[u] => u \in displaced
    BY DEF MarkersAreCurrent
  <2>1. Quiet /\ OwnURI(prev)
    BY DEF Marked
  <2>2. ASSUME f \in published PROVE \E u \in URIs : u[1] = f /\ shown[u]
    BY <2>1, <2>2 DEF Quiet, OwnURI
  <2>3. ASSUME f \notin published, NEW u \in URIs, u[1] = f, shown[u]
        PROVE  u \in displaced
    <3>1. u # None
      BY UriFacts
    <3> QED BY <2>1, <2>3, <3>1 DEF Quiet
  <2> QED BY <2>2, <2>3
<1> QED BY <1>1, InitTyped, NextTyped, InitMarked, NextMarked, PTL DEF Spec
=============================================================================
