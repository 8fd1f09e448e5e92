SPECIFICATION Spec
CONSTANTS
  Addr = {a1, a2}
  Req = {r1, r2, r3}
  MaxAttempts = 2
  Lockout = 3
  CleanupPeriod = 2
  Epoch = 3
  MaxTime = 9
SYMMETRY Perms
INVARIANTS LockoutDeserved LateGuessesBounded
PROPERTY LockoutKept
