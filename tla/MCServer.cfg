\* Two pastes, two databases, no update: migration, configuration and Tor.
SPECIFICATION Spec
CONSTANTS
  lite = lite  remote = remote  p1 = p1  p2 = p2
  Db <- TwoDatabases
  Cache = lite
  Paste <- TwoPastes
  Absent = Absent
  Unread = Unread
  Onion = {o1, o2, o3}
  NoOnion = NoOnion
  MaxRelease = 1
  Stable = TRUE
  Prerelease = {}
  Damaged = Damaged
  MaxAttempts = 2
  Torn = Torn
  NoFile = NoFile
  MaxFaults = 2
SYMMETRY Identical
INVARIANTS DatabaseReady OneAddress
