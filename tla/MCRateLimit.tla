----------------------------- MODULE MCRateLimit -----------------------------
\* Values for model checking RateLimit: a short and a long limiter and one
\* that is switched off, as per_5min, per_15min and per_1hour may be set.
EXTENDS RateLimit, TLC

Periods == <<2, 3, 4>>
Counts  == <<2, 3, 0>>

Perms == Permutations(Req)
=============================================================================
