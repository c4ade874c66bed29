# Models and proofs for go-beancount

TLA+ models of the stateful parts of this repository, the TLC runs that check
them on small instances, and TLAPS proofs of what holds for every instance.
Paths below are relative to the repository.

## 1. The system

go-beancount is a Beancount implementation as a set of Go packages: a parser
and a loader that turn ledger files into a checked `ast.Ledger`, a language
server that keeps such a ledger up to date while files are edited, a price
fetcher, and importers whose output is filed into the ledger's files. Most of
it is a function from text to text. What keeps state, runs concurrently or may
fail half way is a small part, and that part is what these models are about.

### 1.1 Components

| Component | State | Operations | What makes it hard | What makes it correct |
|---|---|---|---|---|
| Ledger session (`pkg/session`) | overlay, cached ledger, valid flag, load in flight, subscribers with one-slot channels | Snapshot, Reload, SetOverlay, ClearOverlay, Subscribe, Cancel, Close | loads coalesce; the lock is released during a load, a wait and a broadcast; contexts are cancelled | one load at a time, no stale cache without a reason, nobody waits for ever, no send to a closed channel |
| LSP document sync (`cmd/beancount-lsp`: docsync, debounce, watch) | document store, timers by URI, the session's overlay | didOpen, didChange, didSave, didClose, watched files, exit | timer callbacks run beside the handlers | the last edit reaches the session; no overlay without a document |
| LSP lifecycle (`server.go`, `handlers.go`, `diagnostics.go`, `recover.go`) | lazy session, subscription, publisher, what it published last, shutdown flag | initialize, first document, publish, query, shutdown, exit | the publisher and background loads run beside the handlers; a load panics | markers follow the ledger; exit leaves nothing behind; every message is handled |
| LSP queries (completion, hover, definition, ...) | none | read a snapshot and a document | - | pure functions |
| Quote scheduler (`pkg/quote/scheduler.go`) | level, requests with depth/got/done, semaphore, results | Fetch in three modes | batched calls shared by requests, cancellation, failures of single sources | fallback chains asked in order, nothing untried, no slot lost |
| Quote source decorators (`pkg/quote/sourceutil`) | token bucket, slots, batches of a call, cache with a cap | split, group, take a token, attempt, retry, Put/Get | batches of a call share tokens, slots and cache; attempts fail, ctx is cancelled | no query lost in a split, every slot comes back, the cap holds |
| Quote sources (`pkg/quote/std`) | ECB: cached rates, latest date | QuoteAt/Range/Latest | two pieces of state under separate locks, feeds of different age | a rate carries its own date |
| Prices (`pkg/quote/meta`, `pkg/quote/pricedb`) | none | parse, deduplicate | - | pure functions |
| Include resolution (`pkg/ast/load.go`) | visited set, files and directives read so far | walk includes depth first | cycles, diamonds, globs, unreadable files | every readable file the root reaches is loaded once |
| Syntax, lowering, formatting (`pkg/syntax`, `pkg/ast`, `pkg/format`) | none | text to tree and back | characters | round trips |
| Loader (`pkg/loader`), plugin application (`pkg/ext/postproc`) | one ledger, kept in canonical order | documents, booking, plugins, pad, balance, validations | a pass or plugin fails in the middle; new directives share places with old ones | the order every pass relies on holds whenever it reads |
| Standard plugins (`pkg/ext/postproc/std`) | none | each makes findings, and perhaps a new list of directives, of the ledger the ones before it left | what one adds another must see | used together in the documented order they leave no gap |
| Other plugins (`pkg/ext/postproc/sprout`), plugin loading (`pkg/ext/goplug`) | none / the Go runtime's | transform directives | - | pure functions |
| Booking (`pkg/inventory`) | inventory by account, postings and currency groups of one transaction, trace of touched accounts | two passes: book what is known, infer what is not | a group that fails is undone after others were booked on top | inventories are what the surviving postings add up to, and the visitor is told the truth |
| Validations (`pkg/validation`) | running balances, pads in force, account lifetimes | one pass each over the sorted directives | a pad is inserted behind assertions computed without it | padded assertions hold, differences are those of the final ledger, lifetimes are respected |
| Filing (`cmd/beanfile`, `pkg/distribute/dedup`, `comment`, `merge`, `internal/atomicfile`) | destination files; index, plan | a run: index, decide, merge | failure and crash between two files; marked duplicates are read back | no event lost, none twice |
| Routing (`pkg/distribute/route`) | none | choose a file | precedence of rules | pure function |
| Importers (`pkg/importer`), query (`pkg/query`), compatibility tests, command lines | none beyond one pass | - | - | unit tests reach them |

### 1.2 How they interact

The language server owns one session. Handlers and timer callbacks call
`SetOverlay`, `ClearOverlay` and `Reload`; the publisher subscribes to it. The
session calls the loader, which walks the includes (reading an overlay in place
of a file where there is one) and hands the directives to the pipeline: the
booking pass first, then the plugins the ledger names, then pad, balance and
the validators. `beanprice` calls the scheduler, which calls sources wrapped in
decorators. `beanfile` loads the ledger, decides with `route` and `dedup`, and
writes with `merge`, which writes through `atomicfile`.

Three models meet at the session: `Session` is its inside, `LspDocSync` sees
its overlay, and `LspServer` sees when it loads and whom it tells. Two meet in
the pipeline: `Loader` runs it, and `Booking` is one of its passes.

### 1.3 Hazards

`PROJECT.json` lists them with their lines and the properties that cover them.
One has no property: the objects that the booking pass shares with its caller
(`reducer.go:124`, see 5), since directives are values in the models.

## 2. The modules

| Module | Models | Used by |
|---|---|---|
| `LedgerStore` | the abstract store a session is for: edits, loads that see the overlay of one moment, a current ledger | refined by `Session` |
| `Session` | `pkg/session/session.go` | `MCSession`, `SessionProofs` |
| `LspDocSync` | document synchronisation of `cmd/beancount-lsp` | `MCLspDocSync`, `LspDocSyncProofs` |
| `LspServer` | lifecycle, diagnostics and recovery of `cmd/beancount-lsp` | `MCLspServer`, `LspServerProofs` |
| `FallbackChain` | what a fetch promises each price request | refined by `QuoteFetch` |
| `QuoteFetch` | `pkg/quote/scheduler.go` | `MCQuoteFetch`, `QuoteProofs` |
| `QuoteCache` | `pkg/quote/sourceutil/quotecache.go` | `QuoteSource` |
| `QuoteSource` | the decorators of `pkg/quote/sourceutil` around the source of `pkg/quote/std/ecb` | `MCQuoteSource`, `QuoteProofs` |
| `Directives` | kinds, order, spans and references of directives (`pkg/ast`), weights of postings, pure | `Plugins` |
| `Plugins` | the fourteen plugins of `pkg/ext/postproc/std`, pure | `Loader` |
| `Loader` | `pkg/ast/load.go`, the pipeline of `pkg/loader`, plugin application, pad, balance and the validators | `MCLoader`, `LoaderProofs`, `PaddingProofs` |
| `Lots` | amounts, costs, lots and inventories of `pkg/inventory`, pure | `Booking` |
| `Booking` | `Reducer.Walk` of `pkg/inventory` | `MCBooking`, `BookingProofs` |
| `DirectiveMatch` | `pkg/distribute/dedup/equality.go`, pure | `Filing` |
| `Filing` | a sequence of runs of `cmd/beanfile` | `MCFiling`, `FilingProofs` |

`MC*` modules only give constants their values. An operator named `X_Word`
beside an operator `X` is a plausible bug in `X`; nothing uses it. It is there
so that one can put it in the place of `X` and watch a property fail.

### 2.1 Session

One action is one stretch of code between two points where another goroutine
can act: an unlock, a channel operation, the call of the loader. `pc[p]` says
where the goroutine `p` stands, and the other functions of `p` are its locals.
A load is known by its number, its `done` channel by the same number, and a
ledger by the load that built it and the overlay that load copied.

- `reload` begins in one critical section and leaves it in one of the ways
  `RefuseCall`, `ServeCached`, `JoinLoad`, `LeadLoad`. The load ends with
  a ledger, an error, or the error of the leader's context, under the lock.
- The broadcast snapshots the subscriber map, then sends to each: under
  `sub.mu` the channel is drained and pushed, which is two steps here because
  the receiver may act between them.
- `Close` marks the session and takes the map, then closes each subscriber.
  `Cancel` runs once per subscriber (`once.Do` is merged with its body).

Abstracted: paths are absolute already; the contents of a ledger; the order in
which a broadcast visits subscribers (any order, as Go's maps have it).

### 2.2 LspDocSync

The JSON-RPC layer runs one handler at a time, and `handler` says where it
stands between the calls it makes that other goroutines can see. Each timer
has a life of its own: pending, stopped, or fired, and then its callback
deletes the map entry, reads the document and sets the overlay in three
steps. The session is reduced to its overlay and its closed flag. A text is
known by the number of the edit that made it; a change applied to any other text gives `Garbled`.

Left out: the debounce of zero that only tests use, the lazily created
session (it is in `LspServer`), watch notifications of several events at once, and messages after
shutdown.

### 2.3 LspServer

The JSON-RPC layer starts a handler when the one before has replied, so
handlers run one at a time and `ensureSession` never races with itself; `exit`
replies first and goes on, which is why its steps (`exiting`) interleave with
the rest. The publisher, a background load and the timers are the other
goroutines. A timer is pending with its entry in the debouncer's map (`armed`)
or without one (`orphans`), has fired (`fired`), or its callback has deleted
the entry of its document, whosever that is by then, and is on its way to the
session (`running`): `Fire`, `Unregister` and `Callback` are these steps, and
`StopTimers` stops only what has an entry. The session is reduced to what decides when a ledger is loaded and
who is told: `session.New` loads eagerly without a broadcast, so the first
ledger is published only by a later load. `pub.todo` is what the publisher has
still to send; `prev` and `shown` are what it remembers and what the client
shows, which differ once a path has been published under two URIs. A ledger is
the set of the files with errors in it.

A load that panics in a handler is recovered by the handler's wrapper and
leaves the session's flag set (`load = "abandoned"`); in the background it
takes the process down (`exiting = "crashed"`).

Left out: a panic inside `session.New` during initialize, and workspace
commands.

### 2.4 QuoteFetch

`runFetch` groups the requests (`StartLevel`), every source of the level has
a goroutine (`Skip`, `BeginCall`, `GiveUpCall`, `FailCall`, `EndCall`), and `EndLevel` is
what follows `wg.Wait`. A source returns prices for any set of pairs,
requested or not. A price is known by its pair and by the call it came with.
Returning from the source, attributing the prices and appending them is one
step, because nothing else reads them before `wg.Wait`. The observer's events
and the validation of options are left out.

### 2.5 QuoteCache and QuoteSource

The stack is the one the decorators' documentation recommends: `SplitRange` or
`DateRangeIter` at the top, then `GroupByQuoteCurrency`, `SplitBatch`,
`RateLimit`, `RetryOnError`, `Concurrency`, and the ECB source. Every bucket of
days begins a set of batches (`Begin`), one for each chunk of the queries of each
quote currency, known by the currency and the number of the chunk, and each a
goroutine whose place is `batch[i].pc`; `NextBucket` and `Return` are what follows `wg.Wait`. The two
nested barriers, of partitions and of chunks, are one, since nothing is read
between them.

The source reads the latest date, looks keys up one `Get` at a time, downloads
a feed when something is missing, stores its rates one `Put` at a time, and
records the newest day last. These steps interleave with those of the other
batches, as the cache's mutex and the source's cover each alone. A feed is
what the bank has published up to today or, when it is late, up to yesterday.
Time is in days and a rate is known by its currency and day.

Abstracted: choosing a feed and reading it is one step; results and
diagnostics are sets; with a cancelled ctx any wait and any look at ctx may
end the batch; the order of a feed's rates is fixed, dated entries before
latest ones; dates are UTC midnights. Left out: other orders of the
decorators, `WrapSingleCell`, a rate of zero, backoff times, which errors count
as transient (an attempt fails either way), symbols, and the diagnostics of
malformed rates.

### 2.6 Directives, Plugins and Loader

The input is the disk: what each readable file contains. `todo` is the
depth-first work list of `loadFile` and `handleInclude`. When it is empty the
pipeline runs over `entries`, which every commit sorts into canonical order
with new numbers: documents, booking, plugins, pad, balance, validations, one
action per plugin and per directive visited. The raw mode runs the
plugins alone, `Cancel` may come at any time, and booking either
commits or halts (`BookingHalts`), which loses the ledger as the code does.

A standard plugin is an operator of `Plugins`: from the directives in order and
its own directive to its findings and, unless it changes nothing, the new list.
`RunPlugin` reports the former and commits the latter. Plugins that
look at one directive after the other with a table of what came before
(`close_tree`, `implicit_prices`, `unique_prices`) are stated by what the table
holds at each directive. A plugin of the host's own may add, remove, fail.

Transactions come booked, and the pass itself is module `Booking`. Amounts are
integers. Left out: the tolerance inferred from digits, what a glob matches
(an input), overlays (they are what a file contains), notes (checked as
documents are), booking-method options, and the span of a posting, for which
its transaction's stands. Of the plugins: the text of a configuration (a filter
is the set it matches), the price a total implies, which is an integer quotient,
custom directives, and costs that the raw mode leaves unbooked.

### 2.7 Lots and Booking

`Lots` has the arithmetic of costs, weights, lot matching and inventories as
operators. An inventory keeps its positions with a place, since FIFO and LIFO
and the equality of two inventories depend on their order. `Booking` visits
the directives of a ledger; of a transaction it visits the postings in order
(`pass1`), consumes candidate lots one by one (`take`), writes a posting per
step (`record`), then resolves each unknown from its currency's residual
(`bidders`, `free`, `settle`), undoes the entries of dropped groups one by one
(`undo`), and reports the accounts whose inventory changed.

`start` and `strayed` are history: what was there when the transaction began,
and where the code is known to leave the inventory (an overdraft of cash, a
lot reduced in its own direction).

Left out: realized gains, decimal rounding and the errors of the decimal
library, the inspector, and which objects input and output share.

### 2.8 DirectiveMatch and Filing

`DirectiveMatch` has the match rules of the index as operators: a posting has
an account, an amount, a currency, and perhaps a cost and a price. `SameEvent`
is a definition of what the rules are for that does not mention them: an elided
posting is given the amounts, one in each currency, that balance the weights
of the others, and the results are compared. Where one side alone elides a
posting, the code presumes more than it compares: `MatchIsPresumed` says that
the other side does not balance, or holds something at a cost or a price in the
elided account. `Records` is what a match does assure: the same event, or an
exact match on that presumption.

`Filing` runs `execute` any number of times over the
same disk. A file is a sequence of entries, active or commented out. A run
builds the index from the disk, takes the directives of each source in turn
(`PassThrough`, `RefuseDirective`, `Skip`, `Accept`), then merges the files in
the order of their names: `WriteTemp` prepares the temporary file and `Rename`
publishes it. `FailMerge` is a file that cannot be merged, which does not stop
the others, and `Crash` may come anywhere.

Reading commented entries back is modelled by what it does: adjacent marked
entries without a blank line between them are one block of comment lines, and
only the block's first directive, by date, kind and place, is indexed. An entry
is inserted behind active entries only, as `merge` computes its offsets from
parsed directives: behind the last one that is not after it, which the code
finds by binary search. In a file whose active entries are not in its order
the search may stop elsewhere; where an entry stands matters for nothing but
which markers are adjacent.

Abstracted: text, flags of postings among it; a cost is a number per unit and a currency; routing, of which a directive carries the result; the
ledger loads without errors and includes every destination file; the metadata
key stripped on writing is not one of the id keys; nobody else edits the
files during a run; the temporary file of a killed run is ignored, as nothing
reads it.

## 3. The runs

| Run | Instance | Shows |
|---|---|---|
| `session_safety` | 2 goroutines, 1 subscriber, up to 3 calls and 2 edits, 4 in all, fair | six invariants on staleness, subscribers and waiters, that the session implements `LedgerStore`, and that every call returns |
| `session_lost_edit` | 3 goroutines | refutes that an edit invalidates the cache, see 5 |
| `lsp_sync` | 2 files, 3 edits, fair | last edit delivered, and it reaches the session; overlays outlive documents only by one race |
| `server_life` | 2 files, one spelled in two ways, 3 messages, panics, fair | markers are current, nothing is left after exit, every message is handled |
| `quote_fetch` | 3 requests, 2 pairs, 4 sources, 6 chains, 1 slot, fair | chains in order, nothing untried, fetch returns |
| `quote_stack` | 2 calls of 4 kinds, 2 currencies, 2 days, batches of 2, 1 token, 2 slots, 2 attempts, cache without a cap and with one of 2, fair | rates are true to their dates, no query is lost, the cap holds, every call returns |
| `loader_check` | 3 files in every arrangement; ledgers of up to 4 of 17 directives behind an include; up to 3 of 16 directives under 11 suites of plugins | order, includes, exact differences, padded assertions, lifetimes; a closing is final and implied prices are compared |
| `booking_walk` | up to 3 of 15 transactions, 5 booking methods | inventories, reports, rollback and inference |
| `booking_halts` | the same | refutes that no input halts the walk, see 5 |
| `filing_retry` | 3 files of different order and window, two of them spaced, 8 inputs, 3 runs | nothing lost but on the presumption of a match, nothing twice, clear events stay active, re-runs activate nothing in spaced files |
| `filing_again` | 3 files, default settings, 1 input, 2 runs | refutes that re-runs are idempotent |
| `filing_presumed` | 3 files, default settings, 1 input, 1 run | refutes that what a match leaves open is the same |

Why the bounds are enough:

- *Session.* Three calls are a load, a second load under the first one's
  broadcast, and a call joining either, with an edit before, under or behind any of them; two
  edits set an overlay and clear it around two calls. Two goroutines suffice for the properties that hold, and the third
  is there for the refutation. The proofs have no bound.
- *Document sync.* With three edits a document is opened, changed and changed
  again, so that a timer is replaced while the callback of another one runs;
  two files keep timers of different documents apart. No bound in the proofs.
- *Server.* Three messages open a file, change or close it, and query or open
  another, while the publisher of one ledger is under way when the next comes;
  two changes and an `exit` replace a timer whose callback then deletes the
  entry of the other, which is pending when the connection closes.
  No bound in the proofs.
- *Fetch.* Two requests for one pair, one for another; chains in opposite
  priority, with a source named twice, one not registered, one that does not
  serve the mode, and an empty chain. One slot is the case in which calls wait
  for each other most.
- *Quote source.* Two batches of two currencies share one token, two slots and
  the cache; three queries in batches of two leave a rest; a cache of two
  entries must evict within one call, and a time to live of a day expires
  entries between two; one rate is malformed; the window of one day sends a
  call to each of the three feeds. The second call of a run meets what the
  first has cached.
- *Loader.* Three files give self-inclusion, cycles, diamonds and globs that
  meet what was loaded. Two accounts, one below the other, and an outer one
  give every relation that pads and assertions look at; four directives are a
  pad with two assertions and what moves between them, or two pads and two
  assertions. The suites put each standard plugin in some order with those it
  depends on, both orders of `close_tree` with `check_drained` and with
  `auto_accounts` among them; three directives are a close, an open behind it
  and what is posted, or two sales of a day at different prices and a quote.
- *Booking.* Three transactions buy twice and sell across both lots; the list
  has every kind of posting that is treated on its own: each shape of cost,
  auto postings alone, in pairs and on lots, prices per unit and in total, a
  commodity held at a cost in itself, and groups that fail after another has
  been booked.
- *Filing.* An input meets itself, another input that records the same events,
  a source that cannot be read, directives of equal text with different
  ids, splits that are equal in one way of reading and different in
  another, a purchase of stock next to a transfer of its price, and one event
  in the views of both banks that nothing else is like. Some directives have
  events that are clear (see `EventsStayActive`) and others not, and the third
  file has no blank lines. Three runs are a run that fails, one that repairs, and one more.

Deadlock is checked in `loader_check`, `booking_walk` and `booking_halts`, where
a finished program stutters. The other instances are bounded
programs that do stop when their calls, messages or edits are used up. Only
`session_lost_edit` uses symmetry, of callers and subscribers.

### 3.1 Fairness

- *Session*: every goroutine inside a call goes on (the Go scheduler runs it, and
  mutexes are handed over), and the loader returns. A caller need not be
  called, and no ctx need be cancelled.
- *Document sync*: a handler that has begun, a pending timer and a callback go on. No
  message need arrive.
- *Server*: a handler that has begun, `exit`, the publisher and a load go on.
  The client and the timers owe nothing.
- *Fetch*: `runFetch` and the goroutine of each source go on; a source that
  was called returns. `ctx` need not be cancelled. Weak fairness of a goroutine waiting for the
  semaphore is enough in a fetch: each call runs once per level, so a slot it
  waits for is not taken by others for ever.
- *Quote source*: the caller and the goroutine of each batch go on, a download
  ends, and tokens come with time. A batch has finitely many attempts, so
  weak fairness is enough for slots and tokens here too.

Filing, booking and loading have no liveness property: they are sequential
programs over finite inputs.

## 4. What is proved

Some results are proved but stated by no run, where a more telling property
is checked in their place: the types of `Session`, `LspDocSync`, `QuoteFetch`,
`LspServer` and `Booking`,
`OneLoad` of `SessionProofs`, and `SlotsCounted`, `Lockstep` and `FirstAnswer` of
`QuoteProofs`; and of `FilingProofs`, what is about the match rules and merging alone, and `Idempotent`.
Every other theorem below states a property that a run checks as well.

`SessionProofs` (any callers, subscribers, paths, contents, numbers of calls and edits):

| Theorem | Argument |
|---|---|
| `Typing` | `TypeOK` is inductive |
| `OneLoad` | `OneLoadAtATime` as stated is inductive given the types: it ties the leaders to the load flag, which is cleared before the leader has ended |
| `Staleness` | by `CacheInv`, which says in addition what an unfinished load has copied: without it nothing is known of the ledger a load is about to install |
| `SendSafety` | by `SendInv`: whoever is about to push holds `sub.mu`, has drained the channel and has seen it open |
| `Implementation` | `StepImplements`: each step is a step of `LedgerStore` or leaves its variables alone, using `OneLoad` for the uniqueness of the leader |
| `NoLeaks`, `BroadcastReaches`, `Wakeup`, `JoinedLedger` | an inductive strengthening each, where the property is not inductive itself |

`LspDocSyncProofs` (any files, any number of edits):

| Theorem | Argument |
|---|---|
| `Typing` | by `SyncInv`, which relates a timer's state to the map entry it may have |
| `LastEdit` | inductive given `SyncInv`: `Schedule` stops timers of the same document only and starts one for the newest edit, and a callback leaves with the text it delivers |
| `OverlayOutlives` | by `RaceInv`: a callback that is about to set an overlay either has a document or is in `overtaken` |

`LspServerProofs` (any files and spellings, any number of messages):

| Theorem | Argument |
|---|---|
| `Typing`, `ExitStopsAll` | `TypeOK` and `Stopped` are inductive as one: what each step of `exit` has stopped stays stopped, as nothing starts a handler, a session or a publisher behind it. Timers are no part of it: `stopAll` misses those without an entry, and a callback that comes later meets a closed session |
| `Markers` | by `Marked`, which follows the publisher: `Quiet` between publications, `Publishing` with part of its notices sent, where every marker still to change is among those to come. `closing` and `displaced` name what the code loses track of |

`BookingProofs` (any ledgers, accounts, currencies and labels):

| Theorem | Argument |
|---|---|
| `Typing` | by `Placed`, which says what a reduction in progress consumes is still in the inventory it was found in: `AddTo` keeps one position per lot, and without it an emptied position could be met again |
| `Reported` | by `Traced`: an account whose inventory is not what it was when the transaction began has been touched, and was copied at the first touch, before any change; undoing entries changes touched accounts only |
| `Resolved` | by `Settling`, which says where an unknown of a posting may still be: the posting has its turn to come in this pass or the next, or is the one of the reduction in progress, or the transaction has failed. What a reduction leaves in a cost without a currency has no number either: only cash has no currency of cost |
| `AddUp` | by `Adding`: in the middle of a transaction an account holds what its kept postings add up to, plus the entries that stand, plus what the reduction in progress has taken and not yet recorded. Every entry has the units of its one posting (`EntriesInv`) and gives back what it took (`GivesBack`), and an unknown that stays has an entry, so at the end the entries that stand are the postings kept, one to one (`SumMatched`) |
| `GroupsBalance` | by `Inferring`: a weight is the sum of what pass 1 booked in its currency (`Weighing`), no two entries are inferred from one currency (`OnePerGroup`), and each takes that weight or is one of the exceptions (`AllBalance`). That there are not two needs `Turns`: an unknown whose turn is still to come has its currency to itself, and so has a currency nobody bids for |

`LoaderProofs` (any disk, whatever the files include and the plugins do):

| Theorem | Argument |
|---|---|
| `IncludesLoaded` | by `LoadInv`: what a loaded file asks for is visited or ahead in the work list, what is visited and readable is loaded or about to be, and everything met is in every set that contains the root and is closed under inclusion |
| `Typing` | by `Typed`, which says in addition what the passes rely on: up to the balance pass every directive is as it could have been read (`Unchecked`), and a pad that is pending is the pad of its account. The ledger is in canonical order since `Sorted` arranges whatever it is given (`SortingArranges`, from `ArrangedByPlace`: counting what is ahead of an item gives it a place of its own), and every plugin returns directives (`ApplyServes`, a lemma for each plugin) |
| `Lifetimes` | by `FindingsInv`: while the validations run, an account is refused at a place exactly if a directive visited so far uses it while it is not open, and nobody else reports that (`Tells`). The canonical order makes the first open the earliest one (`OpenedIsOpened`) and the first close behind it the earliest that counts (`ActiveIsActive`) |
| `BalancesAreExact` | by `ExactInv`: while the balance pass runs, its sums are what the entries behind it hold, account by account (`HoldsNext`), and what accounts hold together is what each holds (`HoldsEach`). When the directives are replaced, the order is the one they had (`ReplacedInPlace`): the difference is no part of the sort key, and recording it moves nothing |
| `PricesAreCompared`, `ClosingsAreFinal` | by `LedgerIsSound`. What the plugins leave is followed on the set of directives (`Dirs`): a pass or plugin `Follows` what it is given when it drops nothing but transactions, what remains of a transaction moves and implies no more than before, and it adds directives of the kinds it says only. So what one plugin establishes (`Drained`, `Trees`, `Priced`, `Compared`) survives everything behind it, `close_tree` undoing `Drained` alone (`Effects`, `LateInv`). Plugins run in the order of their directives since no two of those share a place in a file (`PlacedInv`, `Lined`). What `Drained` adds, an assertion of zero, is what the balance pass judges by `ExactInv` |

The first part of the module is about the operators: what `Those`, `Sorted`,
`FlattenSeq` and `MapThenSumSet` return.

`PaddingProofs` (as `LoaderProofs`, which it extends):

| Theorem | Argument |
|---|---|
| `PaddingsHold` | by two invariants. `PadRunInv`, while the pad pass walks: its sums are what the entries behind it hold and what the paddings put in so far supply, account by account (`SumsRun`, and `CostsRun` for what is held at cost), every padding was asked for by an assertion passed (`Suppliers`), the pending pad of an account is the last one passed with the currencies asserted since (`PendingRun`), and every assertion that is the first in its currency behind a pad is met by the entries before it and the paddings asked for up to it, unless the currency is held at cost (`MetRun`). `SuppliedInv`, behind the pass: such an assertion is met by the ledger itself, or one of two exceptions applies (`Supplied`). Between them lies the sort: the merged ledger has every entry and every padding once, the entries in the order they had (`MergedSpreads`), and a padding, dated as its pad, comes before the assertions of later days (`DaysDecide`), so that what an assertion holds is what its entries hold and what the paddings of earlier days supply (`SumMerged`). The sums of the pass differ from that by paddings asked for later only (`AskedOrLater`). With nothing in the subaccounts the difference `ExactInv` gives is zero, which is within any tolerance |

`QuoteProofs` (any requests, chains, sources and concurrency; any limits, feeds and
times). One module has the theorems of both halves of `pkg/quote`, so the
specification of `QuoteFetch` is called `FetchSpec`, next to `Spec` of `QuoteSource`:

| Theorem | Argument |
|---|---|
| `FetchTyping`, `SlotsCounted`, `Lockstep` | together: `FetchTypeOK`, `SlotsMatchCalls` and `LevelInv` are inductive as one. A release needs a running call so that the semaphore stays non-negative; `LevelInv` says that goroutines exist only inside a level and only for the sources of open requests |
| `FirstAnswer` | by `PriceInv`: prices of the current level come from calls that have ended, and an open request without a price has none from the source it is at |
| `Untried` | by `MissInv`: what an open request missed at a source whose call has ended is reported, and only a request whose chain is used up is done without a price |
| `Implementation` | starting a level is `Ask` of the open requests, a call that ends is `Answer` of the requests it was made for, and everything else is a stutter |
| `Typing` | `CacheInv` and `BatchInv` are inductive. Among finitely many entries one is the oldest (`Oldest`, by well-foundedness of the numbers), so keeping those with fewer than cap - 1 younger ones leaves room (`EvictionMakesRoom`), and a cache with room keeps its cap through a `Put` |
| `Prices` | by `Truth`: a dated entry holds the rate of the day in its key, a latest entry that of a newest day read before, and whatever a batch has found or is about to store is true in the same sense. The pair of a rate and a foreign date needs two newest days |
| `Complete` | by `Completing`: while a batch looks, each currency it wants is missing, or each of its lookups is answered or still to be made; with a feed in hand only what is missing is open, and the feed reaches every day owed (`FeedsReach`, whichever feed was chosen and if today's is late); at its end it has failed or paid. Every query is in some batch (`BatchesCover`, by the arithmetic of `ChunkRanges`), and the buckets that follow one another pay for the whole range (`PaidJoins`) |

`FilingProofs` (any ledger, directives, files, orders, inputs and number of runs):

| Theorem | Argument |
|---|---|
| `MergedPicks` | a merged file is the old one and the insertions, item for item: `Picks` relates a sequence to the places its items were taken from, through the filters (`ThosePicks`), concatenations (`FlattenPicks`) and the sorting (`SortedPicks`) it is built by |
| `Typing` | `TypeOK` is inductive; what a file and its comment blocks read back as are entries of it (`ReadBackHolds`) |
| `SkipIsSymmetric`, `SkipIsSameEvent` | of the match rules alone. A posting left over by a one-to-one assignment is the only one (a counting argument). If the side that has it balances by weight and states plain units there (`~MatchIsPresumed`), its amount is minus the residual of the others, and zero in every other currency, whatever order they are listed in (`TotalOfLeftOver`). Without that hypothesis the claim is false, see `filing_presumed` in 5 |
| `Complete` | by `EventInv`: the *books* of a file are its entries and those still planned for it, and while a run can still succeed, everything it has read is recorded in them, with an entry that it was skipped for or would be (`SkipReflexive`), which records the same event or is presumed to (`SkipIsRecord`). The disk alone says nothing in the middle of a run |
| `Once` | by `OnceInv`: no two active entries of the books match, and while directives are routed the index has every active entry of the books, those planned in this run included. From then on a rename, a failure or a kill only drops entries from the books. Assumes a ledger without doubles to begin with |
| `Quiet`, `Idempotent` | by `AgainInv`: a spaced file is read back whole (`SpacedReadsAll`), so while directives are routed the index has every entry it has on disk, and what an input recorded there the first time is among them: each of its directives has a match in its file, and is skipped or commented out. `Quiet` is about the spaced files of any configuration. Where all files are spaced and no account has a window, every match is one that skips (`NoWindowNoReview`), so that nothing is planned (`Idempotent`) |
| `StaysActive` | by `ActiveInv`: what matches a clear directive and has been met has an active match on disk, or one about to be written, or one owed, that is, in an input begun and not completed whose directive has no match in its own file. A failure or a kill turns what was about to be written into what is owed; routing the input again finds no match in the file, so either the index has an active match elsewhere or the directive is planned active. That a directive is clear is used wherever one match stands for another (`ClearMatches`) |
| `PlainEventsAreClear` | where files are spaced, no windows, no elided postings, and directives that carry the same keys of identifiers: then every match is by id or exact, each is transitive (`SameLegsTransitive`), and every directive is clear |

The theorems assume the named ASSUMEs of the modules: bounds are natural
numbers, the special values `NoContent`, `NoLedger`, `Free` and `None` are none
of the ordinary ones, limits and concurrency are at least one, chains are
sequences of sources, files and items refer to one another, items and what a
host's plugin adds are directives as they are read (`ItemsAreDirectives`,
`AdditionsAreDirectives`: no assertion has a difference yet), a list of
directives is not `None`, which is what a plugin returns that changes nothing
(`NoneIsNoLedger`), nor is `None` a number or a pending pad (`NoneIsNoNumber`,
`NoneIsNoPad`), the tolerance of an assertion is not negative (`BalanceType`;
`plugin.go:243` of the balance pass takes the magnitude), accounts form a
tree, an `At` call asks for one day, and requests, sources, days,
accounts and currencies are finitely many. One is about
data: `AmountsAreNamed` of `Booking`,
that an amount and a cost with a number have a currency, as `lower.go` refuses
others (`lowerAmount`).

Only model-checked:

- liveness (`EveryCallReturns`, `EditReachesSession`, `EveryMessageIsHandled`,
  `FetchReturns`, `EveryQuoteReturns`), which needs fairness and is out of
  this prover's reach.

The properties of `Filing` say what they are restricted to, because without the
restriction they are false of the code:

- `ReRunsActivateNothing` speaks of spaced files. Elsewhere a run that is killed
  between two renames may leave only the marker of an event; the input of
  that event is skipped for it and completes; a marker with an earlier date is then
  put next to it and hides it; and filing the input again plans the event as
  active.
- `EventsStayActive` speaks of clear events, because matching is not transitive in
  general: dates lie within a window of one another, an id is on one of three
  directives, a posting is elided. Let file 1 have a window of one day and file 2
  one of two, and let transfers of one amount be `y` (file 1, day 2), `x` (file 2,
  day 4) and `z` (file 1, day 1). Run `<y, x>` while file 1 cannot be merged:
  `x` is written as a marker, `y` is lost for now. Run `<z>`, which is written
  active. Run `<y, x>` again: `y` is commented out for `z`, and `x` is skipped for its own
  marker. All inputs have been completed, and no active entry is within two days of
  `x`: its event is in the ledger as a comment only. (TLC shows these runs
  as a counterexample when `Clear` is left out.)

The library's induction theorems take an operator as a parameter, which no
backend can instantiate. `FilingProofs`, `BookingProofs`, `LoaderProofs` and `PaddingProofs` do
their inductions with a set instead
(`SetInduction`, from the well-foundedness of the numbers): the set of the
numbers for which the claim holds contains 0 and every successor.

## 5. Where the code and its documentation differ

With a run:

| Property | Documentation | Code |
|---|---|---|
| `OverlayEditInvalidates` | `session.go:139` "SetOverlay invalidates the cache; the next Snapshot or Reload will rebuild" | `session.go:316`: a load sets `valid` although an edit came after it had copied the overlay. `StaleOnlyIfOvertaken` is what holds |
| `InputNeverHalts` | `reducer.go:93` reserves the error of `Walk` for bugs of the pass | `reducer.go:762`: an auto posting whose residual takes from two lots is such an error, and the loader then returns an empty ledger, without even the directives that name plugins |
| `ReRunsAreIdempotent` | `cmd/beanfile/main.go:5` "re-runs are idempotent" | `comment.go:152`: of two adjacent markers only one is read back, and the default spacing makes them adjacent. With spacing and no window re-runs are idempotent (`Idempotent`), with spacing alone they activate nothing (`Quiet`) |
| `EveryEventIsRecorded` | `equality.go:335` the left-over posting "is the stated counterpart of sub's elided leg, and its amount is guaranteed correct by the balance constraint" | `equality.go:365` looks at its account alone, and nothing between the importer and the index books or balances: `{A 10 STK {5 EUR}; B -50 EUR}` is filed and `{A; B -50 EUR}` skipped as an exact match, although it moves 50 EUR and no stock. `NoEventLost` is what holds |

Stated in the modules, without a run:

- `Session`: `OtherWaitersUnaffected` (`doc.go:29`; `session.go:290` gives
  waiters the leader's context error), `LatestWins` (`doc.go:37`; broadcasts of
  two loads overlap at `session.go:320`, so the older ledger may be pushed
  last), `CanceledCallerGetsNil` (a leader whose ctx is cancelled when its
  load has ended gets the error with a ledger), `CoalescedCallersAgree` (a
  waiter reads the last result, which may be a later load's),
  `CanceledLoadInvalidates` (a cancelled load leaves the flag as it was).
- `LspDocSync`: `ClosedFileHasNoOverlay` (`docsync.go:212`; a callback that had
  read the document sets the overlay again at line 153), `OverlayIsLatest` (a
  callback that read the older text may set it last), `OnePendingTimer` (needs
  four edits: a fired timer's callback deletes its successor's entry,
  `debounce.go:31`), `ExitStopsTimers` (`debounce.go:38` "cancels all pending
  timers"; one without an entry stays pending and fires after the connection is
  closed), `BufferMatchesEditor`. `LspServer` has these timers too, and
  `NothingAfterExit` says what protects the server from them: by then its session
  is closed.

Met while modelling; the models do what the code does:

- *Server.* `recover.go:13` says that a panic is an error of its request or is
  swallowed; one in the loader leaves the session's load flag set, so later queries and `exit`
  hang, and one in a background load ends the process. A URI that another
  spelling of its path displaced is never cleared (`diagnostics.go:124`).
- *Includes.* A diamond is reported as "circular include detected"
  (`load.go:134`), and a file that could not be read counts as visited.
- *Pad.* `pad/plugin.go:3` says padding "will make each assertion succeed". It
  does not when a subaccount holds some of the currency, when an account is
  padded from itself, when a later assertion's padding, dated before, moves the
  account, or when the currency is held at cost. The padding is sorted among
  the transactions of its day rather than "immediately after" its pad.
- *Plugins.* `checkdrained/doc.go:25` says that an assertion of the day after
  the close stands in for the synthesized one; `checkdrained/plugin.go:148` looks
  at the day of the close alone, so both are checked, and an assertion
  of the closing day, which need not be zero and is made before that day's
  transactions, keeps the account from being checked at all. `close_tree`
  closes only what is opened by an earlier directive, so a subaccount opened by
  an `auto_accounts` that runs after it is not closed.
- *Booking.* `inventory/doc.go:56` lets cash positions go negative; `Reduce`
  empties the position and drops the rest. Undoing a reduction adds a positive
  magnitude, which is wrong for a short lot. "Reduce never mixes cost-bearing
  and cash steps" does not hold. An auto posting that reduces a lot is booked
  in the residual's group although it weighs in the lot's currency
  (`MovesWeight`). A transaction that needs no clone is overwritten in place
  (`reducer.go:124`), where `booking/plugin.go:39` "treats the input as
  immutable".
- *Quotes.* The token of `RateLimit` is taken once per outer call, so retries
  are not rate-limited as its documentation says, and waiters need not proceed
  in the order of their arrival. A `Put` that overwrites a key at the cap evicts
  another entry without need (`quotecache.go:231`). A latest price may carry
  the rate of one feed and the date of another (`ecb.go:133`; `PricesAreTrue`
  says when). A failed download discards the rates found in the cache; a
  range is served from the cache only if each of its calendar days is there,
  weekends included. Errors of the ECB source carry no HTTP status, so the
  classification by status never applies to them.

Met while reading, in a plugin that is not modelled: `pricecompletion/doc.go:18`
promises one most-recent price for each unordered pair, but the graph keeps the
history of each ordered pair, so a pair quoted both ways has two parallel edges
each way, appended in map order (`plugin.go:296`, `:307`, `:317`); the shortest
path may relax one of them and `findEdge` price it by the other
(`plugin.go:492`), stale or not, and differently from run to run.

Met while reading, without a formula: `dedup.go:18` promises the strongest
match and `InDestination` returns the first, which is a second reason why
re-runs are not idempotent when `date_window_days` is positive; exact equality
is not transitive once postings are elided; and after a run that failed in the middle, another
input's directive may be skipped for a marker whose active counterpart was
never written, which is why `EventsStayActive` speaks of moments when every
input that was begun has been completed.

## 6. What is not modelled, and the plan

Not modelled because there is no state a model checker would help with: LSP
queries, syntax, lowering and formatting, plugin loading, price
arguments, routing, importers, the query engine, compatibility tests, command
lines. They are most of the repository's lines, and their correctness is about
characters, single directives or single expressions.

To be modelled, in this order:

1. **Importers**: the CSV driver and the hook chain, where a hook that fails
   must leave the output of those before it.
2. **Query engine**: grouping, ordering and limits against a reference
   definition over small tables.
3. **Price database**: the rate on a date against the list it was built from.
4. **Sprout plugins**, as `Plugins` has the standard ones.
5. What the modelled components leave out (see the notes in `PROJECT.json`),
   first of all realized gains and the tolerance inferred from amounts.
