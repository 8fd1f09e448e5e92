------------------------------- MODULE MCAdmin -------------------------------
\* Values for model checking Admin.
EXTENDS Admin, TLC

Perms == Permutations(Name) \cup Permutations(Req) \cup Permutations(Sess)
=============================================================================
