------------------------------ MODULE MCServer ------------------------------
\* Values for model checking Server.
EXTENDS Server, TLC

CONSTANTS lite, remote, p1, p2

TwoDatabases == {lite, remote}
TwoPastes    == {p1, p2}
Identical    == Permutations({p1, p2})
=============================================================================
