\* One paste, every fault, fair cleaner: expiry is eventual.
SPECIFICATION FairSpec
CONSTANTS
  p1 = p1
  p2 = p2
  r1 = r1
  r2 = r2
  c1 = c1
  c2 = c2
  b1 = b1
  b2 = b2
  Id = {p1}
  Req = {r1, r2}
  Cleaner = {c1, c2}
  Body = {b1}
  Form <- RaceForms
  Handler <- ExpiryOps
  HasBackup = TRUE
  Faults <- AllFaults
  MaxTime = 3
  NoRow = NoRow
  NoId = NoId
PROPERTIES ExpiredEventuallyGone
