\* Two concurrent requests and the cleaner over one paste, every fault.
SPECIFICATION Spec
CONSTANTS
  p1 = p1
  r1 = r1
  r2 = r2
  c1 = c1
  b1 = b1
  b2 = b2
  Id = {p1}
  Req = {r1, r2}
  Cleaner = {c1}
  Body = {b1, b2}
  Form <- MixedForms
  Handler <- Handlers
  HasBackup = TRUE
  Faults <- AllFaults
  MaxTime = 3
  NoRow = NoRow
  NoId = NoId
SYMMETRY Perms
INVARIANTS TypeOK BurnOnce ClaimExclusive PolicyFrozen BackupFaithful
PROPERTIES NoResurrection RemovalJustified LifeSpec
