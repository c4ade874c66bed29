---------------------------- MODULE QuoteSource ----------------------------
(***************************************************************************)
(* A quote source under the decorators of pkg/quote/sourceutil, stacked as *)
(* their documentation has it: SplitRange or DateRangeIter, then           *)
(* GroupByQuoteCurrency, SplitBatch, RateLimit, RetryOnError, Concurrency  *)
(* and the source, which is that of pkg/quote/std/ecb.                     *)
(*                                                                         *)
(* A call puts its queries into batches, each with a goroutine of its own  *)
(* that takes a token, then attempts the source in a slot until it answers *)
(* or fails for good.  The source looks the rates up in its cache and      *)
(* downloads a feed for those it misses; the feed fills the cache.  Calls  *)
(* of one caller follow each other, as the scheduler makes them; what      *)
(* interleaves are their batches, the bank that publishes and the clock.   *)
(*                                                                         *)
(* Time is in days.  A rate is known by its currency and its day, so the   *)
(* value cached is the day.                                                *)
(***************************************************************************)
EXTENDS QuoteCache, SequencesExt

CONSTANTS
    Currencies,
    Rates,        \* what the bank publishes: "good" or "bad", by day and currency
    Window,       \* days the short feed covers (90 in the code)
    Options,      \* options of the cache; the ECB source passes no limit
    Requests,     \* calls that may be made
    PerCall,      \* SplitRange: days per call
    BatchSize,    \* SplitBatch
    Burst,        \* RateLimit: tokens the bucket holds
    MaxAttempts,  \* RetryOnError
    Slots,        \* Concurrency
    None,
    MaxCalls      \* bound: calls made

Days == DOMAIN Rates
Query == [eur : BOOLEAN, cur : Currencies]
Request == [method : {"latest", "at", "range", "iter"}, from : Nat, to : Nat,
            queries : Seq(Query)]

ASSUME RatesAssumption ==
    /\ Days \subseteq Nat \ {0} /\ IsFiniteSet(Days) /\ IsFiniteSet(Currencies)
    /\ \A d \in Days : Rates[d] \in [Currencies -> {"good", "bad", "none"}]
ASSUME LimitsAssumption ==
    /\ \A n \in {Window, PerCall, BatchSize, Burst, MaxAttempts, Slots} : n \in Nat \ {0}
    /\ MaxCalls \in Nat
    /\ Options \subseteq [ttl : Int, max : Int] /\ Requests \subseteq Request
    /\ \A r \in Requests : /\ r.method \in {"range", "iter"} => r.from < r.to
                           /\ r.method = "at" => r.to = r.from + 1
    /\ None \notin Request \cup {"canceled", "transient", "permanent"}

VARIABLES
    today,        \* the clock
    opts,         \* QuoteCacheOptions
    cache, seq,   \* QuoteCache
    latestDate,   \* Source.latestDate, 0 for the zero time
    calls,        \* calls made
    request,      \* the call in progress
    lo,           \* where SplitRange or DateRangeIter is
    live,         \* ctx is not cancelled
    batch,        \* the batches of the call
    tokens, slots,
    prices,       \* what the call has collected, and what it returned
    errors,       \* queries whose batch reported an error
    newest,       \* history: newest days of the feeds read
    asked         \* history: the last call, and the day it began

cacheVars == <<opts, cache, seq, latestDate, newest>>
callVars == <<calls, request, lo, live, prices, errors, asked>>
vars == <<today, cacheVars, callVars, batch, tokens, slots>>
-----------------------------------------------------------------------------
\* A feed holds the days up to today, or up to yesterday when it is not
\* published yet.
NewestIn(S) == {d \in S : \A e \in S : e <= d}
Content(f, last) ==
    LET all == {d \in Days : d <= last}
    IN  IF f = "hist" THEN all
        ELSE IF f = "daily" THEN NewestIn(all)
        ELSE {d \in all : d + Window > last}
Good(d, c) == Rates[d][c] = "good"

Init ==
    /\ today = 1
    /\ opts \in Options /\ cache = [k \in {} |-> None] /\ seq = 0
    /\ latestDate = 0 /\ newest = {}
    /\ calls = 0 /\ request = None /\ lo = 0 /\ live = TRUE
    /\ batch = <<>> /\ tokens = Burst /\ slots = 0
    /\ prices = {} /\ errors = {} /\ asked = [request |-> None, day |-> 0]

Tick == /\ \E d \in Days : d > today
        /\ today' = today + 1
        /\ UNCHANGED <<cacheVars, callVars, batch, tokens, slots>>
-----------------------------------------------------------------------------
\* GroupByQuoteCurrency, then SplitBatch: the queries of one quote currency in
\* the order they have, cut into chunks.  A batch is known by its quote currency
\* and the number of its chunk.
Partition(qs, c) == {k \in DOMAIN qs : qs[k].cur = c}
Place(S, k) == Cardinality({j \in S : j < k})
ChunkRanges_Whole(length) ==                    \* mutant: the rest is forgotten
    [i \in 0..(length \div BatchSize) - 1 |-> i * BatchSize..(i + 1) * BatchSize - 1]
ChunkRanges(length) ==
    [i \in 0..((length + BatchSize - 1) \div BatchSize) - 1 |->
        i * BatchSize..(IF (i + 1) * BatchSize > length THEN length
                        ELSE (i + 1) * BatchSize) - 1]
Batches(qs) ==
    UNION {{c} \X DOMAIN ChunkRanges(Cardinality(Partition(qs, c))) : c \in Currencies}
Chunk(qs, x) ==
    LET S == Partition(qs, x[1])
    IN  {qs[k] : k \in {j \in S : Place(S, j) \in ChunkRanges(Cardinality(S))[x[2]]}}
Fresh(qs) == [pc |-> "token", queries |-> qs, tries |-> 0, seen |-> 0, todo |-> {},
              missing |-> {}, days |-> {}, got |-> {}, error |-> None]

\* A round of SplitRange or DateRangeIter asks for one bucket of days.
Begin(r, from) == /\ lo' = from
                  /\ batch' = [x \in Batches(r.queries) |-> Fresh(Chunk(r.queries, x))]
BucketEnd(r) == CASE r.method = "range" -> IF lo + PerCall > r.to THEN r.to ELSE lo + PerCall
             [] r.method = "iter" -> lo + 1
             [] OTHER -> r.to
Call(r) ==
    /\ request = None /\ calls < MaxCalls
    /\ calls' = calls + 1 /\ request' = r /\ live' = TRUE
    /\ prices' = {} /\ errors' = {} /\ asked' = [request |-> r, day |-> today]
    /\ Begin(r, r.from)
    /\ UNCHANGED <<today, cacheVars, tokens, slots>>

CancelCtx ==
    /\ request # None /\ live /\ live' = FALSE
    /\ UNCHANGED <<today, cacheVars, calls, request, lo, prices, errors, asked,
                   batch, tokens, slots>>

\* wg.Wait has returned: the results are merged, and a failed batch is a
\* diagnostic.  The next bucket follows unless ctx is cancelled.
Over == \A i \in DOMAIN batch : batch[i].pc = "end"
Merge ==
    /\ prices' = prices \cup UNION {batch[i].got : i \in DOMAIN batch}
    /\ errors' = errors \cup UNION {batch[i].queries :
                                       i \in {j \in DOMAIN batch : batch[j].error # None}}
More == request.method \in {"range", "iter"} /\ BucketEnd(request) < request.to
NextBucket ==
    /\ request # None /\ Over /\ More /\ live
    /\ Merge /\ Begin(request, BucketEnd(request))
    /\ UNCHANGED <<today, cacheVars, calls, request, live, asked, tokens, slots>>
Return ==
    /\ request # None /\ Over /\ (More => ~live)
    /\ Merge /\ request' = None /\ batch' = <<>>
    /\ UNCHANGED <<today, cacheVars, calls, lo, live, asked, tokens, slots>>
-----------------------------------------------------------------------------
Goes(i, pc) == batch' = [batch EXCEPT ![i].pc = pc]
At(i, pc) == i \in DOMAIN batch /\ batch[i].pc = pc
BatchFrame == UNCHANGED <<today, callVars>>

\* RateLimit: tokens come with time.
Refill == /\ tokens < Burst /\ tokens' = tokens + 1
          /\ UNCHANGED <<today, cacheVars, callVars, batch, slots>>
TakeToken(i) == /\ At(i, "token") /\ tokens > 0 /\ tokens' = tokens - 1
                /\ Goes(i, "try")
                /\ UNCHANGED <<cacheVars, slots>> /\ BatchFrame

\* RetryOnError: ctx is looked at before each attempt.
Attempt(i) == /\ At(i, "try") /\ live
              /\ batch' = [batch EXCEPT ![i].pc = "slot", ![i].tries = @ + 1]
              /\ UNCHANGED <<cacheVars, tokens, slots>> /\ BatchFrame

\* The wait for a token, a slot or the end of the backoff, and the look at ctx
\* before an attempt, end with the error of ctx.
GiveUp(i) == /\ ~live /\ \E pc \in {"token", "try", "slot", "backoff"} : At(i, pc)
             /\ batch' = [batch EXCEPT ![i].pc = "end", ![i].error = "canceled"]
             /\ UNCHANGED <<cacheVars, tokens, slots>> /\ BatchFrame

\* classify: only pairs of the euro are served.
Wanted(b) == {q.cur : q \in {p \in b.queries : p.eur}}

\* Concurrency: a slot, then the source.
TakeSlot(i) ==
    /\ At(i, "slot") /\ slots < Slots /\ slots' = slots + 1
    /\ batch' = [batch EXCEPT ![i].pc = "date", ![i].got = {}, ![i].missing = {}]
    /\ UNCHANGED <<cacheVars, tokens>> /\ BatchFrame

\* The call of the source ends, and its slot is free.
Released_OnSuccess(error) == IF error = None THEN slots - 1 ELSE slots      \* mutant
Released(error) == slots - 1
End(i, got, error) ==
    /\ slots' = Released(error)
    /\ LET again == error = "transient" /\ batch[i].tries < MaxAttempts
       IN  batch' = [batch EXCEPT ![i].pc = IF again THEN "backoff" ELSE "end",
                                  ![i].got = got,
                                  ![i].error = IF again THEN None ELSE error]
    /\ UNCHANGED tokens /\ BatchFrame
Backoff(i) == /\ At(i, "backoff") /\ Goes(i, "try")
              /\ UNCHANGED <<cacheVars, tokens, slots>> /\ BatchFrame
-----------------------------------------------------------------------------
\* The source.  The keys of the cache: the latest rate, or that of a day.
LatestKey(c) == <<"latest", c>>
AtKey_NoDay(c, d) == <<"at", c>>                \* mutant: the day is not in the key
AtKey(c, d) == <<"at", c, d>>
Price(c, date, day) == [cur |-> c, date |-> date, rate |-> day]

\* What is looked up: each currency once, or on each day of the range.
Lookups(b) ==
    [cur : Wanted(b), day : IF request.method = "range" THEN lo..(BucketEnd(request) - 1)
                            ELSE {lo}]
\* observedLatestDate; until a feed has been read, everything is missing.
ReadDate(i) ==
    LET b == batch[i]
        blank == request.method = "latest" /\ latestDate = 0
    IN  /\ At(i, "date")
        /\ batch' = [batch EXCEPT ![i].pc = "look", ![i].seen = latestDate,
                                  ![i].todo = IF blank THEN {} ELSE Lookups(b),
                                  ![i].missing = IF blank THEN Wanted(b) ELSE {}]
        /\ UNCHANGED <<cacheVars, tokens, slots>> /\ BatchFrame

\* One Get.  A range is served from the cache only if all of it is there.
Look(i) ==
    LET b == batch[i]
        q == CHOOSE p \in b.todo : TRUE
        k == IF request.method = "latest" THEN LatestKey(q.cur) ELSE AtKey(q.cur, q.day)
        date == IF request.method = "latest" THEN b.seen ELSE q.day
    IN  /\ At(i, "look") /\ b.todo # {}
        /\ cache' = AfterGet(cache, k, opts, today)
        /\ IF Hit(cache, k, opts, today)
           THEN batch' = [batch EXCEPT ![i].todo = @ \ {q},
                              ![i].got = @ \cup {Price(q.cur, date, cache[k].value)}]
           ELSE IF request.method = "range"
           THEN batch' = [batch EXCEPT ![i].todo = {}, ![i].got = {},
                                       ![i].missing = Wanted(b)]
           ELSE batch' = [batch EXCEPT ![i].todo = @ \ {q}, ![i].missing = @ \cup {q.cur}]
        /\ UNCHANGED <<opts, seq, latestDate, newest, tokens, slots>> /\ BatchFrame

AllFound(i) == /\ At(i, "look") /\ batch[i].todo = {} /\ batch[i].missing = {}
               /\ End(i, batch[i].got, None) /\ UNCHANGED cacheVars

\* feedForRange: what is older than the window is in the full feed only.
FeedFor == IF request.method = "latest" THEN "daily"
           ELSE IF lo + Window <= today THEN "hist" ELSE "hist90d"

\* populateCache stores each day's rates, then those of the newest day as the
\* latest.
Stored(days, latest) ==
    {p \in [cur : Currencies, day : days, latest : {latest}] : Good(p.day, p.cur)}
Fill(days) == Stored(days, FALSE) \cup Stored(NewestIn(days), TRUE)

Missing(i) == At(i, "look") /\ batch[i].todo = {} /\ batch[i].missing # {}
Fetch(i) ==
    \E last \in {today - 1, today} :
    LET days == Content(FeedFor, last)
    IN  /\ Missing(i)
        /\ batch' = [batch EXCEPT ![i].pc = "fill", ![i].days = days, ![i].todo = Fill(days)]
        /\ newest' = newest \cup NewestIn(days)
        /\ UNCHANGED <<opts, cache, seq, latestDate, tokens, slots>> /\ BatchFrame
\* A feed that cannot be read: the rates found in the cache are not returned.
FailFetch(i) ==
    /\ Missing(i)
    /\ \E error \in {"transient", "permanent"} : End(i, {}, error)
    /\ UNCHANGED cacheVars

\* Rates are stored in the order of the feed.
FirstOf(todo) ==
    IF \E p \in todo : ~p.latest THEN CHOOSE p \in todo : ~p.latest
    ELSE CHOOSE p \in todo : TRUE
PutRate(i) ==
    LET p == FirstOf(batch[i].todo)
        k == IF p.latest THEN LatestKey(p.cur) ELSE AtKey(p.cur, p.day)
    IN  /\ At(i, "fill") /\ batch[i].todo # {}
        /\ seq' = seq + 1
        /\ cache' = Put(cache, k, p.day, seq', opts, today)
        /\ batch' = [batch EXCEPT ![i].todo = @ \ {p}]
        /\ UNCHANGED <<opts, latestDate, newest, tokens, slots>> /\ BatchFrame

\* pickAllDates, pickOnDate and pickInRange.
Picked(b) ==
    LET days == CASE request.method = "latest" -> b.days
                  [] request.method = "range" -> {d \in b.days : lo <= d /\ d < BucketEnd(request)}
                  [] OTHER -> {d \in b.days : d = lo}
    IN  {Price(x[1], x[2], x[2]) : x \in {y \in b.missing \X days : Good(y[2], y[1])}}

\* The newest day is recorded last, and the prices go back.
Stamp(i) ==
    LET b == batch[i]
    IN  /\ At(i, "fill") /\ b.todo = {}
        /\ latestDate' = IF \E d \in NewestIn(b.days) : d > latestDate
                         THEN CHOOSE d \in NewestIn(b.days) : TRUE ELSE latestDate
        /\ End(i, b.got \cup Picked(b), None)
        /\ UNCHANGED <<opts, cache, seq, newest>>
-----------------------------------------------------------------------------
Source(i) == ReadDate(i) \/ Look(i) \/ AllFound(i) \/ Fetch(i) \/ FailFetch(i)
             \/ PutRate(i) \/ Stamp(i)
Goroutine(i) == TakeToken(i) \/ Attempt(i) \/ GiveUp(i) \/ TakeSlot(i) \/ Backoff(i)
                \/ Source(i)
Caller == NextBucket \/ Return
Next == \/ \E r \in Requests : Call(r)
        \/ CancelCtx \/ Tick \/ Refill \/ Caller
        \/ \E i \in DOMAIN batch : Goroutine(i)

Spec == Init /\ [][Next]_vars

\* Goroutines run, a download ends, time brings tokens.  No call of an instance
\* has more chunks of one currency than MaxChunks.
MaxChunks == 2
FairSpec == /\ Spec /\ WF_vars(Caller) /\ WF_vars(Refill)
            /\ \A i \in Currencies \X (0..MaxChunks - 1) : WF_vars(Goroutine(i))
-----------------------------------------------------------------------------
\* The batches that hold a slot.
Inside == {i \in DOMAIN batch : batch[i].pc \in {"date", "look", "fill"}}
\* The cache keeps its cap, the latest date is that of a feed that was read, and
\* a slot is held by each batch inside the source and by no other.
TypeOK ==
    /\ CacheOK(cache, opts, seq) /\ latestDate \in {0} \cup newest /\ newest \subseteq Days
    /\ tokens \in 0..Burst
    /\ slots = Cardinality(Inside) /\ slots <= Slots
    /\ \A i \in DOMAIN batch : batch[i].tries \in 0..MaxAttempts

\* A price carries the rate of its own date, whether it comes from the cache or
\* from a feed, except that a latest price found in the cache may have the date
\* of one feed and the rate of another, once feeds with different newest days
\* have been read: both are newest days.
Results == prices \cup UNION {batch[i].got : i \in DOMAIN batch}
PricesAreTrue ==
    \A p \in Results :
        \/ p.rate = p.date /\ Good(p.date, p.cur)
        \/ /\ asked.request.method = "latest" /\ Cardinality(newest) > 1
           /\ {p.rate, p.date} \subseteq newest /\ Good(p.rate, p.cur)

\* A call that was not cancelled has a price for every query of a euro pair
\* whose rate was published when it began, or reports an error for it.
Expected(q) ==
    LET r == asked.request
    IN  {d \in Days : /\ r.method # "latest" /\ r.from <= d
                      /\ d < r.to
                      /\ d < asked.day
                      /\ Good(d, q.cur)}
QuotesAreComplete ==
    request = None /\ calls > 0 /\ live =>
        \A q \in Range(asked.request.queries) :
            \/ ~q.eur \/ q \in errors
            \/ /\ \A d \in Expected(q) : Price(q.cur, d, d) \in prices
               /\ (/\ asked.request.method = "latest" /\ \E d \in Days : d < asked.day
                   /\ \A d \in Days : Good(d, q.cur)) =>
                      \E p \in prices : p.cur = q.cur

\* Every call returns: tokens come back, and so does every slot.
EveryQuoteReturns == request # None ~> request = None
=============================================================================
