----------------------------- MODULE QuoteCache -----------------------------
(***************************************************************************)
(* QuoteCache of pkg/quote/sourceutil: values by key, with the time and    *)
(* the number of their insertion.  One mutex covers every operation.  The  *)
(* three maps of the code are one function here, as a key says its shape.  *)
(***************************************************************************)
EXTENDS Integers, FiniteSets, Functions

Entry(value, now, seq) == [value |-> value, at |-> now, seq |-> seq]

Expired(e, opts, now) == opts.ttl > 0 /\ now - e.at >= opts.ttl
Hit(cache, k, opts, now) == k \in DOMAIN cache /\ ~Expired(cache[k], opts, now)
\* What a Get leaves: an expired entry is deleted when it is met.
AfterGet(cache, k, opts, now) ==
    Restrict(cache, {j \in DOMAIN cache : j = k => Hit(cache, k, opts, now)})

Younger(cache, k) == {j \in DOMAIN cache : cache[j].seq > cache[k].seq}

EvictIfFull_Late(cache, max) ==     \* mutant: room is made when the cap is passed
    IF max <= 0 THEN cache
    ELSE Restrict(cache, {k \in DOMAIN cache : Cardinality(Younger(cache, k)) < max})
\* evictIfFull: the oldest entries go until there is room for one more.
EvictIfFull(cache, max) ==
    IF max <= 0 THEN cache
    ELSE Restrict(cache, {k \in DOMAIN cache : Cardinality(Younger(cache, k)) < max - 1})

\* Put makes room first, even for a key that is there already.
Put(cache, k, value, seq, opts, now) ==
    LET left == EvictIfFull(cache, opts.max)
    IN  [j \in DOMAIN left \cup {k} |-> IF j = k THEN Entry(value, now, seq) ELSE left[j]]

\* The cap holds, and insertions are told apart by their numbers.
CacheOK(cache, opts, seq) ==
    /\ \A k \in DOMAIN cache : cache[k].seq <= seq
    /\ \A j, k \in DOMAIN cache : cache[j].seq = cache[k].seq => j = k
    /\ opts.max > 0 => Cardinality(DOMAIN cache) <= opts.max
=============================================================================
