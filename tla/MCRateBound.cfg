SPECIFICATION Spec
CONSTANTS
  Addr = {a1}
  Req = {r1, r2}
  N = 3
  Period <- Periods
  Count <- Counts
  Epoch = 4
  MaxTime = 7
SYMMETRY Perms
INVARIANTS SlidingBound RetryAfterHonest
