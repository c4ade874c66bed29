------------------------------- MODULE Filing -------------------------------
(* cmd/beanfile: directives are read from the input sources, compared with    *)
(* an index of what the ledger's files hold, and written into their           *)
(* destination files, commented out where they duplicate something.           *)
(*                                                                           *)
(* One run goes through the phases of execute: build the index, route and     *)
(* decide every directive of every source (nothing is written yet), then      *)
(* merge file after file in the order of their names. A file is replaced by   *)
(* renaming a finished temporary file over it; merging a file may fail, and   *)
(* the process may be killed anywhere. A file is the sequence of its entries; *)
(* destinations are numbered in the order of their names.                     *)
EXTENDS DirectiveMatch, FiniteSetsExt

CONSTANTS
    Directives,   \* names of the directives that occur
    Facts,        \* [Directives -> record], see DirectiveMatch
    Accounts,     \* accounts of their postings
    Files,        \* destination files
    Order,        \* [Files -> {"ascending", "descending", "append"}]
    Window,       \* [Files -> Nat], date_window_days of the file's account
    Spaced,       \* [Files -> BOOLEAN], blank lines are put between insertions
    Inputs,       \* what beanfile may be run on: sequences of sources
    Flags,        \* command lines: subset of [dryRun, passThrough : BOOLEAN]
    InitialDisk,  \* the ledger before the first run
    MaxRuns       \* bound: runs of beanfile

RateType == [number : Int, currency : Currencies] \cup {None}
PostingType == [account : Accounts, amount : Int, currency : Currencies,
                cost : RateType, price : RateType]

ASSUME FilesAssumption == Files \subseteq Nat /\ IsFiniteSet(Files)
ASSUME ParametersAssumption ==
    /\ Order \in [Files -> {"ascending", "descending", "append"}]
    /\ Window \in [Files -> Nat]
    /\ Spaced \in [Files -> BOOLEAN]
    /\ Flags \subseteq [dryRun : BOOLEAN, passThrough : BOOLEAN]
    /\ MaxRuns \in Nat
ASSUME DirectivesAssumption ==
    \A d \in Directives :
        /\ Facts[d].dest \in Files
        /\ Facts[d].day \in Int /\ Facts[d].rank \in Int
        /\ Facts[d].keyed \in Seq(PostingType)
        /\ Facts[d].elided \in Accounts \cup {None}

SourceType == [ok : BOOLEAN, directives : Seq(Directives)]
ASSUME InputsAssumption == \A in \in Inputs : in \in Seq(SourceType)

(* An entry of a file: a directive, written out or commented out.             *)
EntryType == [d : Directives, commented : BOOLEAN]
ASSUME DiskAssumption == InitialDisk \in [Files -> Seq(EntryType)]

VARIABLES
    disk,       \* [Files -> Seq(entry)]
    pc,         \* "idle", "route", "merge" or "write"
    flags,      \* command line of the run
    input,      \* input of the run
    todo,       \* sources that are not consumed yet
    index,      \* dedup.memoryIndex, by path
    plan,       \* planByPath
    left,       \* paths still to merge
    draft,      \* contents of the temporary file
    failed,     \* mergeFailed
    runs,       \* runs started so far
    begun,      \* inputs that a run was started on
    completed   \* inputs that a run exited with status 0 on

process == <<flags, input, todo, index, plan, left, draft, failed>>
vars == <<disk, pc, process, runs, begun, completed>>

Dest(d) == Facts[d].dest
Day(d)  == Facts[d].day
Routed(d) == Facts[d].kind # "unroutable"

(* How the incoming directive d matches the indexed directive x.              *)
Match == [x \in Directives |->
             [d \in Directives |-> MatchKind(Facts[x], Facts[d], Window[Dest(d)])]]
Matches(x, d) == Match[x][d] # "none"

Nothing == [p \in Files |-> <<>>]

Entry(d, commented) == [d |-> d, commented |-> commented]

(* The items of s at the places K, in order.                                  *)
Those(s, K) == FlattenSeq([i \in DOMAIN s |-> IF i \in K THEN <<s[i]>> ELSE <<>>])
ActivePlaces(file) == {i \in DOMAIN file : ~file[i].commented}

-----------------------------------------------------------------------------
(* What BuildIndex reads back from a file: its directives, then the first     *)
(* directive of each run of commented-out lines. Runs are separated by        *)
(* something else: an active directive, or a blank line where there is one.   *)
InRun(p, file, i, j) ==
    /\ i <= j
    /\ \A k \in i .. j : file[k].commented
    /\ Spaced[p] => i = j

RunStart(p, file, i) ==
    /\ file[i].commented
    /\ i > 1 => ~InRun(p, file, i - 1, i)

(* tryParse keeps ledger.At(0): the directive of the run that comes first in  *)
(* the canonical order, which is by date, kind and place.                     *)
NotAfter(d, x) ==
    \/ Day(d) < Day(x)
    \/ Day(d) = Day(x) /\ Facts[d].rank <= Facts[x].rank

FirstOfRun(p, file, i) ==
    LET run   == {j \in DOMAIN file : InRun(p, file, i, j)}
        first == {j \in run : \A k \in run : NotAfter(file[j].d, file[k].d)}
    IN  file[Min(first)]

Extract(p, file) ==
    FlattenSeq([i \in DOMAIN file |->
                   IF RunStart(p, file, i) THEN <<FirstOfRun(p, file, i)>> ELSE <<>>])

ReadBack(p, file) == Those(file, ActivePlaces(file)) \o Extract(p, file)

BuildIndex == [p \in Files |-> ReadBack(p, disk[p])]

(* InDestination: the kind of the first entry of the path that matches.       *)
InDestination(idx, d) ==
    LET entries == idx[Dest(d)]
        hits == {i \in DOMAIN entries : Matches(entries[i].d, d)}
    IN  IF hits = {} THEN "none" ELSE Match[entries[Min(hits)].d][d]

InOtherActive_Marked(idx, d) ==  \* mutant: markers count as the record
    \E p \in Files \ {Dest(d)} : \E e \in ToSet(idx[p]) : Matches(e.d, d)
InOtherActive(idx, d) ==
    \E p \in Files \ {Dest(d)} : \E e \in ToSet(idx[p]) :
        ~e.commented /\ Matches(e.d, d)

Skipped(idx, d) == SkipCapable(InDestination(idx, d))

ToComment_Elsewhere(idx, d) == InOtherActive(idx, d)  \* mutant: review match written
ToComment(idx, d) == InDestination(idx, d) # "none" \/ InOtherActive(idx, d)

-----------------------------------------------------------------------------
(* Merge: the insertions are sorted stably by the file's order, and each is    *)
(* put behind the last active directive that is not after it, or before the   *)
(* first; commented-out blocks are not looked at. (The code finds that place   *)
(* by binary search, so this is for files whose active directives are in the  *)
(* file's order; insertions keep them so.)                                    *)
Rank(p, e) == CASE Order[p] = "ascending"  -> Day(e.d)
                [] Order[p] = "descending" -> -Day(e.d)
                [] Order[p] = "append"     -> 0

Sorted(p, entries) ==
    LET ranks == {Rank(p, e) : e \in ToSet(entries)}
        at(r) == {i \in DOMAIN entries : Rank(p, entries[i]) = Min(ranks) + r - 1}
    IN  IF entries = <<>> THEN <<>>
        ELSE FlattenSeq([r \in 1 .. Max(ranks) - Min(ranks) + 1 |-> Those(entries, at(r))])

TargetOffset(p, file, e) ==
    LET active == ActivePlaces(file)
        before == {i \in active : Rank(p, file[i]) <= Rank(p, e)}
    IN  IF Order[p] = "append" \/ active = {} THEN Len(file)
        ELSE IF before = {} THEN Min(active) - 1 ELSE Max(before)

Merged(p, file, inserts) ==
    LET new == Sorted(p, inserts)
        behind(i) == {j \in DOMAIN new : TargetOffset(p, file, new[j]) = i}
    IN  Those(new, behind(0))
          \o FlattenSeq([i \in DOMAIN file |-> <<file[i]>> \o Those(new, behind(i))])

-----------------------------------------------------------------------------
Init ==
    /\ disk = InitialDisk
    /\ pc = "idle"
    /\ flags \in Flags
    /\ input = <<>> /\ todo = <<>>
    /\ index = Nothing /\ plan = Nothing /\ left = {} /\ draft = <<>>
    /\ failed = FALSE
    /\ runs = 0 /\ begun = {} /\ completed = {}

(* The end of the process: nothing of it is left but the disk.               *)
Exit ==
    /\ pc' = "idle"
    /\ input' = <<>> /\ todo' = <<>>
    /\ index' = Nothing /\ plan' = Nothing /\ left' = {} /\ draft' = <<>>
    /\ failed' = FALSE
    /\ UNCHANGED <<flags, disk, runs, begun>>

Begin(in, fl) ==
    /\ pc = "idle" /\ runs < MaxRuns
    /\ pc' = "route"
    /\ input' = in /\ todo' = in /\ flags' = fl
    /\ index' = BuildIndex
    /\ runs' = runs + 1
    /\ begun' = begun \union {in}
    /\ UNCHANGED <<disk, plan, left, draft, failed, completed>>

AtDirective == pc = "route" /\ todo # <<>> /\ Head(todo).ok /\ Head(todo).directives # <<>>
NextDirective == Head(Head(todo).directives)
Consume == todo' = [todo EXCEPT ![1].directives = Tail(@)]

(* loadSource fails, or the source has error diagnostics.                     *)
RefuseSource ==
    /\ pc = "route" /\ todo # <<>> /\ ~Head(todo).ok
    /\ Exit /\ UNCHANGED completed

NextSource ==
    /\ pc = "route" /\ todo # <<>> /\ Head(todo).ok /\ Head(todo).directives = <<>>
    /\ todo' = Tail(todo)
    /\ UNCHANGED <<disk, pc, flags, input, index, plan, left, draft, failed, runs, begun, completed>>

PassThrough ==
    /\ AtDirective /\ ~Routed(NextDirective) /\ flags.passThrough
    /\ Consume
    /\ UNCHANGED <<disk, pc, flags, input, index, plan, left, draft, failed, runs, begun, completed>>

RefuseDirective ==
    /\ AtDirective /\ ~Routed(NextDirective) /\ ~flags.passThrough
    /\ Exit /\ UNCHANGED completed

Skip ==
    /\ AtDirective /\ Routed(NextDirective) /\ Skipped(index, NextDirective)
    /\ Consume
    /\ UNCHANGED <<disk, pc, flags, input, index, plan, left, draft, failed, runs, begun, completed>>

Indexed_Stale(d, e) == index  \* mutant: index.Add forgotten
Indexed(d, e) == [index EXCEPT ![Dest(d)] = Append(@, e)]

Accept ==
    /\ AtDirective /\ Routed(NextDirective) /\ ~Skipped(index, NextDirective)
    /\ LET d == NextDirective
           e == Entry(d, ToComment(index, d))
       IN  /\ plan'  = [plan EXCEPT ![Dest(d)] = Append(@, e)]
           /\ index' = Indexed(d, e)
    /\ Consume
    /\ UNCHANGED <<disk, pc, flags, input, left, draft, failed, runs, begun, completed>>

ToMerge_Every == Files  \* mutant: files without insertions are merged too
ToMerge == {p \in Files : plan[p] # <<>>}

BeginMerge ==
    /\ pc = "route" /\ todo = <<>>
    /\ pc' = "merge"
    /\ left' = ToMerge
    /\ UNCHANGED <<disk, flags, input, todo, index, plan, draft, failed, runs, begun, completed>>

Preview ==
    /\ pc = "merge" /\ left # {} /\ flags.dryRun
    /\ left' = left \ {Min(left)}
    /\ UNCHANGED <<disk, pc, flags, input, todo, index, plan, draft, failed, runs, begun, completed>>

(* atomicfile.Write up to the rename: the file itself is not touched.         *)
WriteTemp ==
    /\ pc = "merge" /\ left # {} /\ ~flags.dryRun
    /\ pc' = "write"
    /\ LET p == Min(left) IN draft' = Merged(p, disk[p], plan[p])
    /\ UNCHANGED <<disk, flags, input, todo, index, plan, left, failed, runs, begun, completed>>

Rename ==
    /\ pc = "write"
    /\ pc' = "merge"
    /\ disk' = [disk EXCEPT ![Min(left)] = draft]
    /\ left' = left \ {Min(left)}
    /\ draft' = <<>>
    /\ UNCHANGED <<flags, input, todo, index, plan, failed, runs, begun, completed>>

(* One file cannot be merged; the others are merged all the same.             *)
FailMerge ==
    /\ pc \in {"merge", "write"} /\ left # {}
    /\ pc' = "merge"
    /\ left' = left \ {Min(left)}
    /\ draft' = <<>>
    /\ failed' = TRUE
    /\ UNCHANGED <<disk, flags, input, todo, index, plan, runs, begun, completed>>

Finish ==
    /\ pc = "merge" /\ left = {}
    /\ completed' = IF failed \/ flags.dryRun THEN completed ELSE completed \union {input}
    /\ Exit

(* The process is killed. The temporary file stays behind under a name that   *)
(* nothing looks for.                                                         *)
Crash ==
    /\ pc # "idle"
    /\ Exit /\ UNCHANGED completed

Next ==
    \/ \E in \in Inputs, fl \in Flags : Begin(in, fl)
    \/ RefuseSource \/ NextSource
    \/ PassThrough \/ RefuseDirective \/ Skip \/ Accept
    \/ BeginMerge \/ Preview \/ WriteTemp \/ Rename \/ FailMerge
    \/ Finish \/ Crash

Spec == Init /\ [][Next]_vars
-----------------------------------------------------------------------------
(* Types; a plan holds only directives routed to its file, and whatever is    *)
(* merged has something to insert, so a run never creates an empty file.      *)
TypeOK ==
    /\ pc \in {"idle", "route", "merge", "write"}
    /\ flags \in Flags
    /\ input \in Seq(SourceType) /\ todo \in Seq(SourceType)
    /\ disk \in [Files -> Seq(EntryType)]
    /\ index \in [Files -> Seq(EntryType)]
    /\ plan \in [Files -> Seq(EntryType)] /\ draft \in Seq(EntryType)
    /\ left \subseteq Files
    /\ \A p \in Files : \A e \in ToSet(plan[p]) : Dest(e.d) = p
    /\ \A p \in left : plan[p] # <<>>
    /\ failed \in BOOLEAN
    /\ runs \in 0 .. MaxRuns
    /\ begun \subseteq Inputs /\ completed \subseteq begun
    /\ pc # "idle" => input \in begun

DirectivesOf(in) == {d \in UNION {ToSet(s.directives) : s \in ToSet(in)} : Routed(d)}

(* No event is lost: every directive of an input that a run was completed on  *)
(* has an entry in its file, active or commented out, that records the same   *)
(* event, or is presumed to (see MatchIsPresumed): the skip of Skip was       *)
(* justified, in every later run too.                                         *)
NoEventLost ==
    \A in \in completed : \A d \in DirectivesOf(in) :
        \E e \in ToSet(disk[Dest(d)]) : Records(Facts[e.d], Facts[d])

(* pkg/distribute/dedup/equality.go:335: "the leftover super posting is the   *)
(* stated counterpart of sub's elided leg, and its amount is guaranteed       *)
(* correct by the balance constraint". It is not: see the README.             *)
EveryEventIsRecorded ==
    \A in \in completed : \A d \in DirectivesOf(in) :
        \E e \in ToSet(disk[Dest(d)]) : SameEvent(Facts[e.d], Facts[d])

(* No event counts twice: whatever runs fail or are killed between two        *)
(* renames, no two active entries of the ledger match by id or exactly.       *)
ActiveOnce ==
    \A p, q \in Files : \A i \in DOMAIN disk[p], j \in DOMAIN disk[q] :
        (<<p, i>> # <<q, j>> /\ ~disk[p][i].commented /\ ~disk[q][j].commented)
            => ~SkipCapable(Match[disk[p][i].d][disk[q][j].d])

(* What stands for the event of d is clear: the directives that match d match *)
(* each other, in both directions, and no others; their markers are all read  *)
(* back; and the ledger did not begin with markers alone.                     *)
Like(d) == {x \in Directives : Matches(x, d)}
Clear(d) ==
    /\ \A x \in Like(d), y \in Directives :
           (Matches(x, y) <=> y \in Like(d)) /\ (Matches(y, x) <=> y \in Like(d))
    /\ \A x \in Like(d) : Spaced[Dest(x)]
    /\ \A p \in Files : \A e \in ToSet(InitialDisk[p]) : e.d \in Like(d) =>
           \E q \in Files : \E r \in ToSet(InitialDisk[q]) : ~r.commented /\ r.d \in Like(d)

(* Every clear event stays in the books: once each input that was started has *)
(* been completed, each of its directives matches an active entry, even if a  *)
(* crash left the marker of a duplicate on disk and not the active entry it   *)
(* was a duplicate of.                                                        *)
EventsStayActive ==
    begun \subseteq completed =>
        \A in \in completed : \A d \in DirectivesOf(in) :
            Clear(d) => \E p \in Files : \E e \in ToSet(disk[p]) :
                            ~e.commented /\ Matches(e.d, d)

(* Filing an input again that was filed completely plans nothing active for a *)
(* file whose insertions are spaced, whatever was filed in between. (In other *)
(* files a marker that is all the disk has of an event may be hidden by its   *)
(* neighbour.)                                                                *)
ReRunsActivateNothing ==
    (pc = "merge" /\ input \in completed) =>
        \A p \in Files : Spaced[p] => \A e \in ToSet(plan[p]) : e.commented

(* cmd/beanfile/main.go:4: "a three-way write/comment/skip decision so        *)
(* re-runs are idempotent". They are not: see the README.                     *)
ReRunsAreIdempotent ==
    (pc = "merge" /\ input \in completed) => plan = Nothing
=============================================================================
