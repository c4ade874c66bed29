--------------------------- MODULE MCQuoteSource ---------------------------
EXTENDS QuoteSource

MCRates == <<[u |-> "good", v |-> "good"], [u |-> "good", v |-> "bad"]>>
MCOptions == {[ttl |-> 0, max |-> 0], [ttl |-> 1, max |-> 2]}
Euro(c) == [eur |-> TRUE, cur |-> c]
Dollar(c) == [eur |-> FALSE, cur |-> c]
Ask(m, from, to, qs) == [method |-> m, from |-> from, to |-> to, queries |-> qs]
MCRequests == {
    Ask("latest", 0, 0, <<Euro("u"), Euro("v")>>),
    Ask("at", 1, 2, <<Dollar("u"), Dollar("u"), Euro("u")>>),
    Ask("range", 1, 3, <<Euro("u")>>),
    Ask("iter", 1, 3, <<Euro("v")>>)}
=============================================================================
