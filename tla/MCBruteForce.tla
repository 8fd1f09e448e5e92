----------------------------- MODULE MCBruteForce -----------------------------
\* Values for model checking BruteForce.
EXTENDS BruteForce, TLC

Perms == Permutations(Req)
=============================================================================
