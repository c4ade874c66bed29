------------------------------- MODULE Loader -------------------------------
(***************************************************************************)
(* Loading a ledger and checking it: ast.Load of pkg/ast reads the root    *)
(* file and what it includes, and the pipeline of pkg/loader runs over the *)
(* directives, kept in canonical order: documents, booking, the plugins    *)
(* the ledger names, pad, balance and the validations.  Each returns       *)
(* findings and perhaps a new list of directives, which is sorted anew; an *)
(* error or a cancelled context stops the pipeline where it stands.        *)
(*                                                                         *)
(* One action per item of a file, per plugin and per directive the pad,    *)
(* balance and validation passes visit.  Text is abstract: a file is a     *)
(* sequence of items, a path a file.  The transactions are booked already  *)
(* (module Booking): the booking step only commits or halts.               *)
(***************************************************************************)
EXTENDS Plugins

CONSTANTS Root,       \* the file to load
          Items,      \* what files contain: directives, includes and globs
          Disks,      \* the inputs: the items of each file that can be read
          Registered, \* plugins of the host's own
          Additions   \* directives such a plugin may add

\* The paths an item asks for; a glob lists its matches in order.
Asks(i) == IF i.kind \in {"include", "match"} THEN {i.path}
           ELSE IF i.kind = "glob" THEN Range(i.paths) ELSE {}
ASSUME RootIsAFile == Root \in Files
ASSUME ItemsAskForFiles ==
    \A i \in Items : /\ i.kind = "glob" => i.paths \in Seq(Files)
                     /\ Asks(i) \subseteq Files
\* A directive as it is read: nothing is known yet of what it lacks.
AsRead == {d \in Directive : /\ d.kind = "balance" => d.diff = None
                             /\ d.kind = "plugin" => Configured(d)}
ASSUME ItemsAreDirectives ==
    \A i \in Items : i.kind \in DOMAIN Rank => i \in AsRead
ASSUME AdditionsAreDirectives == Additions \subseteq AsRead
ASSUME DisksHoldItems ==
    \A d \in Disks : /\ DOMAIN d \subseteq Files
                     /\ \A f \in DOMAIN d : d[f] \in Seq(Items)
ASSUME StandardNamesAreTaken == Registered \cap Standard = {}

VARIABLES
    disk,       \* input: the items of each file that can be read
    raw,        \* input: option plugin_processing_mode is "raw"
    live,       \* the context is not cancelled
    stage,      \* loading, or the pass that runs
    todo,       \* items and includes still to visit, depth first
    visited,    \* names met so far
    files,      \* files loaded, in order
    directives, \* directives read, in order
    entries,    \* the ledger: directives with their number, in canonical order
    next,       \* the next number
    findings,   \* Diagnostics of the ledger, in order
    queue,      \* plugin directives still to run
    at,         \* directive the pass visits next; 0 when it has not begun
    sums,       \* running balance by account and currency
    costs,      \* the part of it held at cost
    pending,    \* the pad in force for each account
    padding,    \* transactions to insert behind each directive
    out,        \* directives the balance pass has passed on
    seen        \* first amount asserted, by account, date and currency

inputs == <<disk, raw>>
loadVars == <<todo, visited, files, directives>>
ledgerVars == <<entries, next>>
padVars == <<costs, pending, padding>>
balanceVars == <<out, seen>>
vars == <<inputs, live, stage, loadVars, ledgerVars, findings, queue, at, sums,
          padVars, balanceVars>>

Stages == {"load", "document", "booking", "plugins", "pad", "balance",
           "validations", "done", "failed"}
-----------------------------------------------------------------------------
\* The entries in canonical order.
Sorted(es) ==
    LET keys == [i \in DOMAIN es |-> Key(es[i])]
        ahead == [i \in DOMAIN es |->
                    Cardinality({j \in DOMAIN es : Earlier(keys[j], keys[i])})]
    IN  [k \in DOMAIN es |-> es[CHOOSE i \in DOMAIN es : ahead[i] = k - 1]]

\* mutant: the new directives are appended as they come
InsertAll_Unsorted(old, ds) ==
    /\ entries' = old \o [k \in DOMAIN ds |-> [dir |-> ds[k], seq |-> next + k - 1]]
    /\ next' = next + Len(ds)

\* Ledger.InsertAll: number the new directives and sort.
InsertAll(old, ds) ==
    /\ entries' = Sorted(old \o [k \in DOMAIN ds |-> [dir |-> ds[k], seq |-> next + k - 1]])
    /\ next' = next + Len(ds)
\* Ledger.ReplaceAll.
ReplaceEntries(ds) == InsertAll(<<>>, ds)

All == [k \in DOMAIN entries |-> entries[k].dir]

Report(fs) == findings' = findings \o fs
-----------------------------------------------------------------------------
\* Lower: every item of a file has its place.
Lowered(f) == [k \in DOMAIN disk[f] |-> [item |-> disk[f][k], file |-> f, off |-> k]]
Include(f) == [item |-> [kind |-> "include", path |-> f], file |-> NoFile, off |-> 0]
Match(f, g) == [item |-> [kind |-> "match", path |-> f], file |-> g.file, off |-> g.off]

Init ==
    /\ disk \in Disks /\ raw \in BOOLEAN /\ live = TRUE /\ stage = "load"
    /\ todo = <<Include(Root)>>
    /\ visited = {} /\ files = <<>> /\ directives = <<>>
    /\ entries = <<>> /\ next = 0 /\ findings = <<>> /\ queue = <<>> /\ at = 0
    /\ sums = [a \in Accounts |-> [c \in Currencies |-> 0]] /\ costs = sums
    /\ pending = [a \in Accounts |-> None] /\ padding = <<>>
    /\ out = <<>> /\ seen = {}

Item == Head(todo).item
Visiting(kinds) == stage = "load" /\ todo # <<>> /\ Item.kind \in kinds
LoadFrame == UNCHANGED <<inputs, live, stage, ledgerVars, queue, at, sums,
                         padVars, balanceVars>>

\* loadCST: a directive other than an include.
ReadDirective ==
    /\ Visiting(DOMAIN Rank)
    /\ directives' = Append(directives, [Item EXCEPT !.file = Head(todo).file,
                                                     !.off = Head(todo).off])
    /\ todo' = Tail(todo)
    /\ UNCHANGED <<visited, files, findings>> /\ LoadFrame

\* loadFile: a file that has not been met is read and visited.
LoadFile(f) ==
    /\ visited' = visited \cup {f}
    /\ IF f \in DOMAIN disk
       THEN /\ files' = Append(files, f) /\ todo' = Lowered(f) \o Tail(todo)
            /\ UNCHANGED findings
       ELSE /\ Report(<<Finding("unreadable", NoSpan, f)>>)
            /\ todo' = Tail(todo) /\ UNCHANGED files
Skip(finding) ==
    todo' = Tail(todo) /\ Report(<<finding>>) /\ UNCHANGED <<visited, files>>

\* handleInclude of a plain path: a file met before is taken for a cycle.
IncludeFile ==
    /\ Visiting({"include"})
    /\ IF Item.path \in visited THEN Skip(Finding("circular", NoSpan, Item.path))
       ELSE LoadFile(Item.path)
    /\ UNCHANGED directives /\ LoadFrame

\* handleInclude of a glob: its matches follow, each looked at in its turn.
ExpandGlob ==
    /\ Visiting({"glob"})
    /\ todo' = [k \in DOMAIN Item.paths |-> Match(Item.paths[k], Head(todo))] \o Tail(todo)
    /\ Report(IF Item.paths # <<>> THEN <<>>
              ELSE <<Finding("no-match", Head(todo), None)>>)
    /\ UNCHANGED <<visited, files, directives>> /\ LoadFrame

\* mutant: the first match already loaded ends the glob
IncludeMatch_Break ==
    /\ Visiting({"match"})
    /\ IF Item.path \notin visited THEN LoadFile(Item.path)
       ELSE /\ UNCHANGED <<visited, files, findings>>
            /\ todo' = Those(todo, {k \in DOMAIN todo : \/ todo[k].file # Head(todo).file
                                                        \/ todo[k].off # Head(todo).off})
    /\ UNCHANGED directives /\ LoadFrame

IncludeMatch ==
    /\ Visiting({"match"})
    /\ IF Item.path \in visited THEN Skip(Finding("matched-again", Head(todo), Item.path))
       ELSE LoadFile(Item.path)
    /\ UNCHANGED directives /\ LoadFrame

\* finish, and the choice of the pipeline.
Named(es) == LET ds == [k \in DOMAIN es |-> es[k].dir]
             IN  Those(ds, Kinds(ds, "plugin"))
FinishLoading ==
    /\ stage = "load" /\ todo = <<>>
    /\ InsertAll(entries, directives)
    /\ stage' = IF raw THEN "plugins" ELSE "document"
    /\ queue' = IF raw THEN Named(entries') ELSE queue
    /\ UNCHANGED <<inputs, live, loadVars, findings, at, sums, padVars, balanceVars>>
-----------------------------------------------------------------------------
\* The context: it may be cancelled at any time, and is looked at before each
\* pass and each plugin.
Cancel ==
    /\ live /\ stage \notin {"done", "failed"} /\ live' = FALSE
    /\ UNCHANGED <<inputs, stage, loadVars, ledgerVars, findings, queue, at,
                   sums, padVars, balanceVars>>
CheckPoint ==
    \/ stage \in {"document", "booking"}
    \/ stage \in {"pad", "balance", "validations"} /\ at = 0
    \/ stage = "plugins" /\ queue # <<>>
Fail ==
    /\ stage' = "failed"
    /\ UNCHANGED <<inputs, live, loadVars, ledgerVars, findings, queue, at, sums,
                   padVars, balanceVars>>
Canceled == CheckPoint /\ ~live /\ Fail

PassFrame == UNCHANGED <<inputs, live, loadVars, sums, padVars, balanceVars>>

\* document.Apply: report the documents that are not on disk.
VerifyDocuments ==
    /\ stage = "document" /\ live
    /\ LET missing == Those(All, {k \in Kinds(All, "document") : ~All[k].exists})
       IN  Report([k \in DOMAIN missing |->
                     Finding("document-missing", missing[k], None)])
    /\ stage' = "booking"
    /\ UNCHANGED <<ledgerVars, queue, at>> /\ PassFrame

\* booking.Apply, then collectPluginDirectives of postproc.Apply.
ToPlugins == stage' = "plugins" /\ queue' = Named(entries')
Book ==
    /\ stage = "booking" /\ live
    /\ ReplaceEntries(All) /\ ToPlugins
    /\ UNCHANGED <<findings, at>> /\ PassFrame
\* assembleResult: a booking pass that halts empties the ledger.
BookingHalts ==
    /\ stage = "booking" /\ live
    /\ ReplaceEntries(<<>>) /\ ToPlugins
    /\ Report(<<Finding("booking-halted", NoSpan, None)>>)
    /\ UNCHANGED at /\ PassFrame

\* postproc.Apply: the plugins run in the order of their directives.
NextPlugin == queue' = Tail(queue) /\ UNCHANGED <<stage, at>> /\ PassFrame
AtPlugin == stage = "plugins" /\ queue # <<>> /\ live
Host == AtPlugin /\ Head(queue).name \in Registered
UnknownPlugin ==
    /\ AtPlugin /\ Head(queue).name \notin Registered \cup Standard
    /\ Report(<<Finding("plugin-not-registered", Head(queue), None)>>)
    /\ NextPlugin /\ UNCHANGED ledgerVars
\* A standard plugin; one that sees the context cancelled fails.
RunPlugin ==
    /\ AtPlugin /\ Head(queue).name \in Standard
    /\ LET result == Apply(Head(queue), All)
       IN  /\ Report(result.findings)
           /\ IF result.dirs = None THEN UNCHANGED ledgerVars
              ELSE ReplaceEntries(result.dirs)
    /\ NextPlugin
PluginCanceled ==
    /\ AtPlugin /\ Head(queue).name \in Standard
    /\ live' = FALSE /\ stage' = "failed"
    /\ UNCHANGED <<inputs, loadVars, ledgerVars, findings, queue, at, sums,
                   padVars, balanceVars>>
\* A plugin of the host's own may do anything.
PluginChangesNothing == Host /\ NextPlugin /\ UNCHANGED <<ledgerVars, findings>>
PluginAdds(d) ==
    /\ Host /\ ReplaceEntries(Append(All, d))
    /\ NextPlugin /\ UNCHANGED findings
PluginRemoves(k) ==
    /\ Host /\ ReplaceEntries(RemoveAt(All, k))
    /\ NextPlugin /\ UNCHANGED findings
PluginFails == Host /\ Fail
EndPlugins ==
    /\ stage = "plugins" /\ queue = <<>>
    /\ stage' = IF raw THEN "done" ELSE "pad"
    /\ UNCHANGED <<ledgerVars, findings, queue, at>> /\ PassFrame
-----------------------------------------------------------------------------
\* A pass over the directives: it begins, visits them and commits.
Begins(pass) == stage = pass /\ at = 0 /\ live /\ at' = 1
Visits(pass, kinds) ==
    /\ stage = pass /\ at \in DOMAIN entries /\ entries[at].dir.kind \in kinds
    /\ at' = at + 1
Ends(pass, after) == stage = pass /\ at = Len(entries) + 1 /\ at' = 0 /\ stage' = after
D == entries[at].dir
WalkFrame == UNCHANGED <<inputs, live, loadVars, queue>>

\* What postings ps put into accounts S in currency c.
Put(ps, S, c) ==
    MapThenSumSet(LAMBDA k : ps[k].num,
                  {k \in DOMAIN ps : ps[k].acct \in S /\ ps[k].cur = c /\ HasAmount(ps[k])})
Added(held, ps) ==
    [a \in Accounts |-> [c \in Currencies |-> held[a][c] + Put(ps, {a}, c)]]
AtCost(ps) == Those(ps, {k \in DOMAIN ps : ps[k].cost # None})
Unresolved(d) ==
    LET autos == Those(d.posts, {k \in DOMAIN d.posts : ~HasAmount(d.posts[k])})
    IN  [k \in DOMAIN autos |-> Finding("auto-unresolved", d, autos[k].acct)]
Zero == [a \in Accounts |-> [c \in Currencies |-> 0]]

BeginPad ==
    /\ Begins("pad") /\ sums' = Zero /\ costs' = Zero
    /\ pending' = [a \in Accounts |-> None]
    /\ padding' = [k \in DOMAIN entries |-> <<>>]
    /\ UNCHANGED <<stage, ledgerVars, findings, balanceVars>> /\ WalkFrame

PadFrame == UNCHANGED <<stage, ledgerVars, balanceVars>> /\ WalkFrame
\* applyTransaction of pad.
PadTransaction ==
    /\ Visits("pad", {"txn"})
    /\ sums' = Added(sums, D.posts) /\ costs' = Added(costs, AtCost(D.posts))
    /\ Report(Unresolved(D)) /\ UNCHANGED <<pending, padding>> /\ PadFrame

\* recordPad: a pad replaces the one in force, which is reported if no
\* assertion met it.
RecordPad ==
    /\ Visits("pad", {"pad"})
    /\ LET pp == pending[D.acct]
       IN  Report(IF pp = None THEN <<>>
                  ELSE IF pp.used THEN <<>>
                  ELSE <<Finding("pad-unresolved", entries[pp.at].dir, None)>>)
    /\ pending' = [pending EXCEPT ![D.acct] =
                     [at |-> at, padded |-> {}, used |-> FALSE]]
    /\ UNCHANGED <<sums, costs, padding>> /\ PadFrame

\* resolveBalance: what the pad in force is to supply.  The account itself
\* counts, not its subaccounts.
Delta == D.num - sums[D.acct][D.cur]
Asserts == Visits("pad", {"balance"}) /\ PadFrame
\* mutant: the currency is not recorded as padded
Answer_NotMarked == pending' = [pending EXCEPT ![D.acct].used = TRUE]

Answer == pending' = [pending EXCEPT ![D.acct].used = TRUE,
                                     ![D.acct].padded = @ \cup {D.cur}]
NoPad ==
    /\ Asserts /\ pending[D.acct] = None
    /\ UNCHANGED <<findings, sums, padVars>>
InForce == Asserts /\ pending[D.acct] # None
Padded == D.cur \in pending[D.acct].padded
AlreadyPadded == InForce /\ Padded /\ UNCHANGED <<findings, sums, padVars>>
NothingMissing ==
    /\ InForce /\ ~Padded /\ Delta = 0 /\ Answer
    /\ UNCHANGED <<findings, sums, costs, padding>>
HeldAtCost ==
    /\ InForce /\ ~Padded /\ Delta # 0 /\ costs[D.acct][D.cur] # 0 /\ Answer
    /\ Report(<<Finding("pad-target-has-cost", entries[pending[D.acct].at].dir, None)>>)
    /\ UNCHANGED <<sums, costs, padding>>
Leg(a, n) == [acct |-> a, cur |-> D.cur, num |-> n, cost |-> None, price |-> None,
              closing |-> FALSE]
InsertPadding ==
    /\ InForce /\ ~Padded /\ Delta # 0 /\ costs[D.acct][D.cur] = 0 /\ Answer
    /\ LET k == pending[D.acct].at
           p == entries[k].dir
           legs == <<Leg(p.acct, Delta), Leg(p.from, -Delta)>>
       IN  /\ sums' = Added(sums, legs)
           /\ padding' = [padding EXCEPT ![k] =
                Append(@, [kind |-> "txn", date |-> p.date, file |-> p.file,
                           off |-> p.off, padding |-> TRUE, tags |-> {},
                           posts |-> legs])]
    /\ UNCHANGED <<findings, costs>>
PadPasses ==
    /\ Visits("pad", DOMAIN Rank \ {"txn", "pad", "balance"})
    /\ UNCHANGED <<findings, sums, padVars>> /\ PadFrame

\* The pads left, and the commit.
EndPad ==
    /\ Ends("pad", "balance")
    /\ LET idle == {a \in Accounts : pending[a] # None /\ ~pending[a].used}
           order == SetToSeq(idle)
       IN  Report([k \in DOMAIN order |->
              Finding("pad-unresolved", entries[pending[order[k]].at].dir, None)])
    /\ IF \E k \in DOMAIN padding : padding[k] # <<>>
       THEN ReplaceEntries(FlattenSeq([k \in DOMAIN entries |->
                                     <<entries[k].dir>> \o padding[k]]))
       ELSE UNCHANGED ledgerVars
    /\ UNCHANGED <<sums, padVars, balanceVars>> /\ WalkFrame
-----------------------------------------------------------------------------
BeginBalance ==
    /\ Begins("balance") /\ sums' = Zero /\ out' = <<>> /\ seen' = {}
    /\ UNCHANGED <<stage, ledgerVars, findings, padVars>> /\ WalkFrame
BalanceFrame == UNCHANGED <<stage, ledgerVars, padVars>> /\ WalkFrame

\* applyTransaction of balance.
BalanceTransaction ==
    /\ Visits("balance", {"txn"})
    /\ sums' = Added(sums, D.posts) /\ Report(Unresolved(D))
    /\ out' = Append(out, D) /\ UNCHANGED seen /\ BalanceFrame

\* mutant: the account without its subaccounts
Actual_Exact == sums[D.acct][D.cur]

\* checkBalance: an assertion counts the account and its subaccounts.
Actual == MapThenSumSet(LAMBDA a : sums[a][D.cur], Below[D.acct])
Within(diff, tol) == -tol <= diff /\ diff <= tol
Slot == [acct |-> D.acct, date |-> D.date, cur |-> D.cur]
CheckBalance ==
    /\ Visits("balance", {"balance"})
    /\ LET ok == Within(D.num - Actual, D.tol)
           first == {s \in seen : s.slot = Slot}
       IN  /\ Report((IF ok THEN <<>> ELSE <<Finding("balance-mismatch", D, None)>>)
                     \o (IF \A s \in first : s.num = D.num THEN <<>>
                         ELSE <<Finding("duplicate-balance", D, None)>>))
           /\ out' = Append(out, IF ok THEN D ELSE [D EXCEPT !.diff = Actual - D.num])
           /\ seen' = IF first # {} THEN seen
                      ELSE seen \cup {[slot |-> Slot, num |-> D.num]}
    /\ UNCHANGED sums /\ BalanceFrame
BalancePasses ==
    /\ Visits("balance", DOMAIN Rank \ {"txn", "balance"})
    /\ out' = Append(out, D) /\ UNCHANGED <<findings, sums, seen>> /\ BalanceFrame
EndBalance ==
    /\ Ends("balance", "validations")
    /\ IF out # All THEN ReplaceEntries(out) ELSE UNCHANGED ledgerVars
    /\ UNCHANGED <<findings, sums, padVars, balanceVars>> /\ WalkFrame
-----------------------------------------------------------------------------
\* accountstate.Build: the first open counts, and the first close behind it.
Of(kind, a) == {k \in DOMAIN entries : entries[k].dir.kind = kind
                                       /\ entries[k].dir.acct = a}
Opening(a) == {k \in Of("open", a) : \A j \in Of("open", a) : k <= j}
Behind(a) == {k \in Of("close", a) : \A o \in Opening(a) : o < k}
Closing(a) == {k \in Behind(a) : \A j \in Behind(a) : k <= j}

\* checkOpened and checkActive.
OpenedFinding(a, d) ==
    IF Opening(a) = {} THEN <<Finding("account-not-open", d, a)>>
    ELSE IF \E o \in Opening(a) : d.date < entries[o].dir.date
         THEN <<Finding("account-not-yet-open", d, a)>> ELSE <<>>
\* mutant: the day of the closing counts as closed
ActiveFinding_CloseDay(a, d) ==
    IF OpenedFinding(a, d) # <<>> THEN OpenedFinding(a, d)
    ELSE IF \E c \in Closing(a) : entries[c].dir.date <= d.date
         THEN <<Finding("account-closed", d, a)>> ELSE <<>>

ActiveFinding(a, d) ==
    IF OpenedFinding(a, d) # <<>> THEN OpenedFinding(a, d)
    ELSE IF \E c \in Closing(a) : entries[c].dir.date < d.date
         THEN <<Finding("account-closed", d, a)>> ELSE <<>>

\* currencyConstraints.ProcessEntry, for one posting.
CurrencyFinding(p, d) ==
    IF p.num = None THEN <<Finding("auto-unresolved", d, p.acct)>>
    ELSE IF \E o \in Opening(p.acct) : /\ entries[o].dir.curs # {}
                                       /\ p.cur \notin entries[o].dir.curs
         THEN <<Finding("currency-not-allowed", d, p.acct)>> ELSE <<>>

\* transactionBalances.ProcessEntry.  Amounts are integers, for which no
\* tolerance is inferred.
Residual(ps, c) ==
    FoldLeft(LAMBDA n, p : IF ~HasAmount(p) THEN n
                           ELSE IF Weight(p).cur = c THEN n + Weight(p).num ELSE n, 0, ps)
BalanceFinding(d) ==
    Unresolved(d) \o (IF \A c \in Currencies : Residual(d.posts, c) = 0 THEN <<>>
                      ELSE <<Finding("unbalanced", d, None)>>)

EntryFindings(d) ==
    CASE d.kind = "txn" ->
           FlattenSeq([k \in DOMAIN d.posts |-> ActiveFinding(d.posts[k].acct, d)])
           \o FlattenSeq([k \in DOMAIN d.posts |-> CurrencyFinding(d.posts[k], d)])
           \o BalanceFinding(d)
      [] d.kind = "pad" -> ActiveFinding(d.acct, d) \o ActiveFinding(d.from, d)
      [] d.kind \in {"balance", "document"} -> OpenedFinding(d.acct, d)
      [] OTHER -> <<>>

BeginValidations ==
    /\ Begins("validations")
    /\ UNCHANGED <<stage, ledgerVars, findings, queue>> /\ PassFrame
ValidateEntry ==
    /\ Visits("validations", DOMAIN Rank) /\ Report(EntryFindings(D))
    /\ UNCHANGED <<stage, ledgerVars, queue>> /\ PassFrame
\* Finish of openClose: the opens of an account that is open already.
EndValidations ==
    /\ Ends("validations", "done")
    /\ LET again == Those(All, {k \in Kinds(All, "open") : k \notin Opening(All[k].acct)})
       IN  Report([k \in DOMAIN again |-> Finding("duplicate-open", again[k], None)])
    /\ UNCHANGED <<ledgerVars, queue>> /\ PassFrame
Ended == stage \in {"done", "failed"} /\ UNCHANGED vars
-----------------------------------------------------------------------------
Loading == ReadDirective \/ IncludeFile \/ ExpandGlob \/ IncludeMatch
RunPlugins ==
    \/ UnknownPlugin \/ RunPlugin \/ PluginCanceled
    \/ PluginChangesNothing \/ PluginFails \/ EndPlugins
    \/ \E d \in Additions : PluginAdds(d)
    \/ \E k \in DOMAIN entries : PluginRemoves(k)
Pad ==
    \/ BeginPad \/ PadTransaction \/ RecordPad \/ NoPad \/ AlreadyPadded
    \/ NothingMissing \/ HeldAtCost \/ InsertPadding \/ PadPasses \/ EndPad
Balance ==
    \/ BeginBalance \/ BalanceTransaction \/ CheckBalance \/ BalancePasses
    \/ EndBalance
Validations == BeginValidations \/ ValidateEntry \/ EndValidations
Next ==
    \/ Loading \/ FinishLoading \/ Cancel \/ Canceled
    \/ VerifyDocuments \/ Book \/ BookingHalts
    \/ RunPlugins \/ Pad \/ Balance \/ Validations \/ Ended

Spec == Init /\ [][Next]_vars
-----------------------------------------------------------------------------
PendingPad == [at : Nat, padded : SUBSET Currencies, used : BOOLEAN]
ASSUME NoneIsNoPad == None \notin PendingPad

\* Types.  The ledger is in canonical order at every step, and its numbers are
\* distinct, so the order is total.
TypeOK ==
    /\ stage \in Stages /\ raw \in BOOLEAN /\ live \in BOOLEAN
    /\ visited \subseteq Files /\ files \in Seq(Files)
    /\ directives \in Seq(Directive) /\ entries \in Seq([dir : Directive, seq : Nat])
    /\ queue \in Seq(PluginType) /\ next \in Nat /\ at \in 0..(Len(entries) + 1)
    /\ \A k \in 2..Len(entries) : Before(entries[k - 1], entries[k])
    /\ \A k \in DOMAIN entries : entries[k].seq < next
    /\ sums \in [Accounts -> [Currencies -> Int]]
    /\ costs \in [Accounts -> [Currencies -> Int]]
    /\ pending \in [Accounts -> PendingPad \cup {None}]
    /\ padding \in Seq(Seq(TransactionType)) /\ out \in Seq(Directive)

\* The files reached from the root, through the files that can be read.
Included(f) == IF f \in DOMAIN disk THEN UNION {Asks(i) : i \in Range(disk[f])} ELSE {}
Closed(S) == Root \in S /\ \A f \in S : Included(f) \subseteq S
Reachable == {f \in Files : \A S \in SUBSET Files : Closed(S) => f \in S}

\* Includes, however they are arranged (cycles, diamonds, globs that match
\* files loaded already, files that cannot be read), end with each readable
\* file that the root reaches loaded once, and no other (loadFile,
\* handleInclude).
EveryIncludeIsLoaded ==
    stage # "load" => /\ IsInjective(files)
                      /\ ToSet(files) = Reachable \cap DOMAIN disk

\* What the ledger moves on accounts S in currency c before entry k.
TxnsBefore(k) == {j \in 1..(k - 1) : entries[j].dir.kind = "txn"}
HeldBefore(k, S, c) == MapThenSumSet(LAMBDA j : Put(entries[j].dir.posts, S, c), TxnsBefore(k))
AtCostBefore(k, a, c) ==
    MapThenSumSet(LAMBDA j : Put(AtCost(entries[j].dir.posts), {a}, c), TxnsBefore(k))
Checked == ~raw /\ stage \in {"validations", "done"}

\* The difference the balance pass records on an assertion is what the ledger
\* it leaves, padding included, holds before it beyond the amount asserted,
\* and there is none within the tolerance (checkBalance).
AssertionsAreExact ==
    Checked => \A k \in DOMAIN entries :
        LET b == entries[k].dir
            off == HeldBefore(k, Below[b.acct], b.cur) - b.num
        IN  b.kind = "balance" =>
              b.diff = IF Within(off, b.tol) THEN None ELSE off

\* The pad in force at assertion k: the last one before it, if any.
Pads(a) == {j \in DOMAIN entries : entries[j].dir.kind = "pad" /\ entries[j].dir.acct = a}
InForceAt(k, a) == {j \in Pads(a) : j < k /\ \A i \in Pads(a) : i < k => i <= j}
Assertions(a, c) ==
    {j \in DOMAIN entries : entries[j].dir.kind = "balance"
                            /\ entries[j].dir.acct = a /\ entries[j].dir.cur = c}
\* Assertion k is the one its pad supplies in its currency.
FirstUnder(p, k) == LET b == entries[k].dir
                    IN  ~\E j \in Assertions(b.acct, b.cur) : p < j /\ j < k
\* Padding asked for by an assertion behind k that moves the account of k.
PaddedLater(k) ==
    LET b == entries[k].dir
    IN  \E j \in 1..(k - 1), a \in Accounts :
          /\ entries[j].dir.kind = "txn" /\ entries[j].dir.padding
          /\ entries[j].dir.posts[1].acct = a
          /\ Put(entries[j].dir.posts, {b.acct}, b.cur) # 0
          /\ \A i \in Assertions(a, b.cur) : i > k \/ i < j

\* A pad makes the first assertion in each currency hold (resolveBalance),
\* unless the currency is held at cost, a subaccount holds some, the pad takes
\* from the account it pads, or a later assertion pads out of the account at
\* an earlier date.
PaddedBalancesHold ==
    Checked => \A k \in DOMAIN entries : entries[k].dir.kind = "balance" =>
        LET b == entries[k].dir
            below == Below[b.acct] \ {b.acct}
        IN  \A p \in InForceAt(k, b.acct) :
              \/ b.diff = None
              \/ ~FirstUnder(p, k)
              \/ entries[p].dir.from = b.acct
              \/ HeldBefore(k, below, b.cur) # 0
              \/ PaddedLater(k)
              \/ AtCostBefore(k, b.acct, b.cur) # 0

\* An account may be used from its first open to its first close behind that,
\* both days included.
OpenedBy(a, date) == \E o \in Of("open", a) : entries[o].dir.date <= date
ClosedBefore(a, date) ==
    \E c \in Of("close", a) : /\ entries[c].dir.date < date
                              /\ OpenedBy(a, entries[c].dir.date)
Refused(a, d) ==
    \E f \in ToSet(findings) :
        /\ f.code \in {"account-not-open", "account-not-yet-open", "account-closed"}
        /\ f.span = Span(d) /\ f.about = a

\* The accounts that directive d may not use at its date; a close matters only
\* to postings and pads (Build, activeAccounts).
NotOpen(d) ==
    LET used == IF d.kind \in {"txn", "pad", "balance", "document"} THEN References(d) ELSE {}
    IN  {a \in used : \/ ~OpenedBy(a, d.date)
                      \/ d.kind \in {"txn", "pad"} /\ ClosedBefore(a, d.date)}

\* When the validations end, an account is reported at a place exactly if a
\* directive of that place (a plugin may add some to it) uses it while it is
\* not open (checkOpened, checkActive).
LifetimesAreRespected ==
    ~raw /\ stage = "done" => \A k \in DOMAIN entries :
        LET d == entries[k].dir
        IN  \A a \in References(d) :
              Refused(a, d) <=> \E e \in ToSet(All) : Span(e) = Span(d) /\ a \in NotOpen(e)

\* The plugins named, in the order they run, when the host has none of its own.
Names == [k \in DOMAIN Named(entries) |-> Named(entries)[k].name]
OnlyStandard == \A d \in ToSet(directives) : d.kind = "plugin" => d.name \notin Registered
\* The last plugin m runs, and none of these behind it.
LastOf(m, others) ==
    \E k \in DOMAIN Names : /\ Names[k] = m
                            /\ \A j \in (k + 1)..Len(Names) : Names[j] \notin others
Closes(k) == entries[k].dir.kind = "close"

\* Once check_drained has seen every close: an account of the balance sheet
\* that is closed holds at the end of that day nothing it has moved itself, or
\* the balance pass records the rest on an assertion of the next day; unless
\* the ledger asserts the currency on the day of the closing.
DrainedOrReported ==
    LastOf("check_drained", {"close_tree"}) =>
        \A k \in DOMAIN entries : Closes(k) /\ entries[k].dir.acct \in BalanceSheet =>
            LET d == entries[k].dir
                end == Cardinality({j \in DOMAIN entries : entries[j].dir.date <= d.date})
                moved == Those(All, {j \in Kinds(All, "txn") : ~All[j].padding})
            IN  \A c \in {p.cur : p \in {q \in Amounts(moved) : q.acct = d.acct}} :
                  LET rest == HeldBefore(end + 1, Below[d.acct], c)
                  IN  \/ rest = 0
                      \/ Asserted(All, d.acct, c, d.date)
                      \/ \E b \in Assertions(d.acct, c) :
                            /\ entries[b].dir.date = d.date + 1
                            /\ entries[b].dir.diff = rest

\* Once close_tree has seen every open: behind the closing of an account, what
\* is posted or padded below it is refused, where the account below was open
\* by then and no close stands before its open.
TreesAreClosed ==
    LastOf("close_tree", {"auto_accounts"}) =>
        \A k, j \in DOMAIN entries :
            LET c == entries[k].dir
                d == entries[j].dir
            IN  Closes(k) /\ d.kind \in {"txn", "pad"} /\ c.date < d.date =>
                  \A a \in References(d) \cap (Below[c.acct] \ {c.acct}) :
                     \/ Refused(a, d)
                     \/ ~OpenBefore(All, k, a)
                     \/ \E i \in Of("close", a), o \in Opening(a) : i < o

\* A closing is final: plugins, sorting, balance and validations together leave
\* no account closed with something in it, and no account moved under a closed
\* one, without a word (closetree, checkdrained).
ClosedIsFinal ==
    ~raw /\ stage = "done" /\ OnlyStandard => DrainedOrReported /\ TreesAreClosed

\* When unique_prices has run behind implicit_prices, no two transactions imply
\* different prices of one pair on one day without a finding at a price of that
\* day (buildPrice, and what it leaves out as given already).
ImpliedPricesAreCompared ==
    stage = "done" /\ OnlyStandard
    /\ (\E k \in DOMAIN Names : Names[k] = "implicit_prices"
                                /\ \E j \in (k + 1)..Len(Names) : Names[j] = "unique_prices") =>
        LET implied == UNION {ToSet(Implied(All[k])) : k \in Kinds(All, "txn")}
        IN  \A d, e \in implied :
              <<d.date, d.com, d.cur>> = <<e.date, e.com, e.cur>> /\ d.num # e.num =>
                \E f \in ToSet(findings), k \in Kinds(All, "price") :
                   /\ f.code = "duplicate-price" /\ f.span = Span(All[k])
                   /\ <<All[k].date, All[k].com, All[k].cur>> = <<d.date, d.com, d.cur>>
=============================================================================
