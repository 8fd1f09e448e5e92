SPECIFICATION Spec
CONSTANTS
  Name = {n1, n2, n3}
  Req = {r1, r2}
  Sess = {s1}
  Invite = {i1}
  Token = {t1}
  None = None
  Gone = Gone
  SetupTTL = 1
  SessionDuration = 1
  InviteTTL = {1}
  MaxBoots = 2
  MaxTime = 2
SYMMETRY Perms
CHECK_DEADLOCK FALSE
INVARIANTS InviteOnce SetupOverlapBounded SetupLeavesAnAdmin
PROPERTY SessionKept
